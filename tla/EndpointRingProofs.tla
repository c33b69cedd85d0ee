-------------------------- MODULE EndpointRingProofs --------------------------
(***************************************************************************)
(* Proofs about the transfer ring of Endpoint, for every kind of endpoint, *)
(* every size of the ring and any number of TRBs and commands: the worker's *)
(* dequeue pointer stays among the TRBs the driver waits for, a worker     *)
(* that sleeps has left none behind, a halt names the TRB it is at, and a  *)
(* TRB error has a cause.                                                  *)
(***************************************************************************)
EXTENDS EndpointProofs

\* A slot holds the last TRB queued there, and the Link TRB was handed over together
\* with the TRB before it.
MemoryIsQueued ==
    /\ \A s \in Slot \ {Link} :
          /\ mem[s].trb = 0 => ~mem[s].cycle
          /\ mem[s].trb # 0 => Place(mem[s].trb) = s /\ mem[s].cycle = Cycle(mem[s].trb)
          /\ \A k \in 1 .. Len(trbs) : Place(k) = s => k <= mem[s].trb
    /\ mem[Link].cycle = mem[Link - 1].cycle

\* TDs are queued whole.
TdsAreWhole ==
    /\ Boundary(Len(trbs) + 1)
    /\ kind = "control" => \A k \in 1 .. Len(trbs) :
          /\ Boundary(k) => trbs[k] \in {"setup_in", "setup_out", "bad"}
          /\ k > 1 /\ trbs[k - 1] \in {"setup_in", "setup_out"} => trbs[k] \in {"data", "status"}
          /\ k > 1 /\ trbs[k - 1] = "data" => trbs[k] = "status"

\* The pointer denotes a TRB that has been queued, or the next one, and that of the TRB
\* submitted while the worker waits.
PlaceIsQueued ==
    /\ \E k \in 1 .. Len(trbs) + 1 : At(k)
    /\ worker = "wait" => hot \in 1 .. Len(trbs) /\ deq = Place(hot) /\ cs = Cycle(hot)
    /\ \A i \in 1 .. Len(sub.trbs) : sub.trbs[i] >= 1

\* The dequeue pointer is moved only by a driver that does nothing else meanwhile.
MoveIsAlone ==
    \A i \in 1 .. Len(chan) : chan[i].op = "setdeq" =>
        Len(chan) = 1 /\ worker \in {"stopped", "continuable", "halted", "error"}

Going == kind = "in" /\ token

\* What the driver waits for fits into the ring, with one slot free, and the worker is
\* at one of these TRBs.
OutstandingIsKept ==
    Going \/
        /\ Len(trbs) - ack < Usable
        /\ \E k \in ack + 1 .. Len(trbs) + 1 : At(k)
        /\ worker = "wait" => hot > ack
        /\ \A i \in 1 .. Len(chan) : chan[i].op = "setdeq" => chan[i].trb > ack

\* An IN endpoint collects the TRBs of one TD, up to the one it is at.
Last == sub.trbs[Len(sub.trbs)]

CollectsTd ==
    kind = "in" /\ ~token =>
        /\ worker \notin {"look", "wait", "dead"} => sub.trbs = <<>>
        /\ \A i \in 1 .. Len(sub.trbs) : sub.trbs[i] > ack /\ sub.trbs[i] <= Last
        /\ worker = "look" /\ sub.trbs # <<>> => At(Last + 1) /\ trbs[Last] = "chained"
        /\ worker = "wait" /\ sub.st # "error" =>
              /\ sub.trbs # <<>> /\ Last = hot
              /\ sub.st = "collecting" => trbs[hot] = "chained"

\* Before the first command, the parser of a control endpoint is where the pointer is.
ParserAt(p) ==
    /\ parser.st = "initial" => Boundary(p)
    /\ parser.st = "setup" => p > 1 /\ trbs[p - 1] \in {"setup_in", "setup_out"}
    /\ parser.st = "data" => p > 1 /\ trbs[p - 1] = "data"

ParserFollows ==
    kind = "control" /\ handle /\ cmds = 0 =>
        /\ worker \in {"doorbell", "look"} =>
              \E p \in ack + 1 .. Len(trbs) + 1 : At(p) /\ ParserAt(p)
        /\ worker = "wait" /\ sub.st # "error" => ParserAt(hot + 1)
        /\ worker \notin {"stopped", "continuable"}

\* A submission fails on a malformed TRB.
ErrorIsBad ==
    worker = "wait" /\ handle /\ sub.st = "error" /\ (kind # "control" \/ cmds = 0) =>
        trbs[hot] = "bad"

\* The inductive invariant of the transfer ring.
RingRules ==
    /\ MemoryIsQueued /\ TdsAreWhole
    /\ PlaceIsQueued /\ MoveIsAlone /\ OutstandingIsKept
    /\ CollectsTd /\ ParserFollows /\ ErrorIsBad
    /\ NothingLeftBehind

RingInv == EndpointInv /\ RingRules

-----------------------------------------------------------------------------
(* Places and cycle bits *)

LEMMA Division ==
    ASSUME NEW u \in Nat, u >= 1, NEW n \in Nat
    PROVE  /\ \E q \in Nat, r \in 0 .. u - 1 : n = u * q + r
           /\ \A q \in Nat, r \in 0 .. u - 1 : n = u * q + r => n \div u = q /\ n % u = r
<1>1. \E q \in Nat, r \in 0 .. u - 1 : n = u * q + r
  <2>1. PICK q \in Nat : q = n \div u
    <3>1. n \div u \in Int /\ n \div u >= 0
      OBVIOUS
    <3> QED
      BY <3>1
  <2>2. u * q <= n /\ n < u * q + u /\ u * q \in Int
    BY <2>1
  <2>3. n - u * q \in 0 .. u - 1 /\ n = u * q + (n - u * q)
    BY <2>2
  <2> QED
    BY <2>3
<1>2. ASSUME NEW q \in Nat, NEW r \in 0 .. u - 1, n = u * q + r
      PROVE  n \div u = q /\ n % u = r
  <2>1. n \div u = q
    BY <1>2
  <2>2. n % u = r
    BY <1>2
  <2> QED
    BY <2>1, <2>2
<1> QED
  BY <1>1, <1>2

\* The lap a TRB is on and its place on it.
LEMMA Lap ==
    ASSUME kind \in Kinds, NEW k \in Nat, k >= 1
    PROVE  \E q \in Nat : /\ k - 1 = Usable * q + Place(k) /\ Place(k) \in 0 .. Usable - 1
                          /\ Cycle(k) <=> q % 2 = 0
<1>1. Usable \in Nat /\ Usable >= 1 /\ k - 1 \in Nat
  BY RingShape
<1>2. PICK q \in Nat, r \in 0 .. Usable - 1 : k - 1 = Usable * q + r
  <2> DEFINE u == Usable
             n == k - 1
  <2>1. u \in Nat /\ u >= 1 /\ n \in Nat
    BY <1>1
  <2> HIDE DEF u, n
  <2>2. \E q \in Nat, r \in 0 .. u - 1 : n = u * q + r
    BY <2>1, Division
  <2> QED
    BY <2>2 DEF u, n
<1>3. (k - 1) \div Usable = q /\ (k - 1) % Usable = r
  BY <1>1, <1>2, Division
<1>4. Place(k) = r
  BY <1>3 DEF Place
<1>5. Cycle(k) <=> q % 2 = 0
  BY <1>3 DEF Cycle
<1> QED
  BY <1>2, <1>4, <1>5

LEMMA LapIs ==
    ASSUME kind \in Kinds, NEW k \in Nat, k >= 1, NEW q \in Nat, NEW r \in 0 .. Usable - 1,
           k - 1 = Usable * q + r
    PROVE  Place(k) = r /\ (Cycle(k) <=> q % 2 = 0)
<1>1. Usable \in Nat /\ Usable >= 1 /\ k - 1 \in Nat
  BY RingShape
<1>2. (k - 1) \div Usable = q /\ (k - 1) % Usable = r
  BY <1>1, Division
<1> QED
  BY <1>2 DEF Place, Cycle

\* The places of successive TRBs, and of those a lap apart.
LEMMA Places ==
    ASSUME kind \in Kinds, NEW k \in Nat, k >= 1
    PROVE  /\ Place(k) \in 0 .. Usable - 1 /\ Usable \in Nat /\ Usable >= 2 /\ Link = Usable
           /\ IF Place(k) = Usable - 1 THEN Place(k + 1) = 0 /\ Cycle(k + 1) # Cycle(k)
              ELSE Place(k + 1) = Place(k) + 1 /\ Cycle(k + 1) = Cycle(k)
           /\ Place(k + Usable) = Place(k) /\ Cycle(k + Usable) # Cycle(k)
           /\ Cycle(k) \in BOOLEAN
           /\ k <= Usable => Place(k) = k - 1 /\ Cycle(k)
<1>1. Usable \in Nat /\ Usable >= 2 /\ Link = Usable
  BY RingShape
<1>2. PICK q \in Nat : /\ k - 1 = Usable * q + Place(k) /\ Place(k) \in 0 .. Usable - 1
                       /\ Cycle(k) <=> q % 2 = 0
  BY Lap
<1>0. k + 1 \in Nat /\ k + 1 >= 1
  OBVIOUS
<1>3. (q + 1) % 2 = 0 <=> ~(q % 2 = 0)
  BY <1>2
<1>4. Usable * (q + 1) = Usable * q + Usable /\ Usable * q \in Nat
  BY <1>1, <1>2
<1>5. IF Place(k) = Usable - 1 THEN Place(k + 1) = 0 /\ (Cycle(k + 1) <=> ~Cycle(k))
      ELSE Place(k + 1) = Place(k) + 1 /\ (Cycle(k + 1) <=> Cycle(k))
  <2>1. CASE Place(k) = Usable - 1
    <3>1. (k + 1) - 1 = Usable * (q + 1) + 0 /\ 0 \in 0 .. Usable - 1 /\ q + 1 \in Nat
      BY <1>1, <1>2, <1>4, <2>1
    <3>2. Place(k + 1) = 0 /\ (Cycle(k + 1) <=> (q + 1) % 2 = 0)
      BY <1>0, <3>1, LapIs, Zenon
    <3> QED
      BY <1>2, <1>3, <2>1, <3>2
  <2>2. CASE Place(k) # Usable - 1
    <3>1. (k + 1) - 1 = Usable * q + (Place(k) + 1) /\ Place(k) + 1 \in 0 .. Usable - 1
      <4> DEFINE p == Place(k)
                 m == Usable * q
      <4>1. m \in Nat /\ p \in 0 .. Usable - 1 /\ k - 1 = m + p /\ p # Usable - 1
        BY <1>2, <1>4, <2>2
      <4> HIDE DEF p, m
      <4>2. (k + 1) - 1 = m + (p + 1) /\ p + 1 \in 0 .. Usable - 1
        BY <1>1, <4>1
      <4> QED
        BY <4>2 DEF p, m
    <3>2. Place(k + 1) = Place(k) + 1 /\ (Cycle(k + 1) <=> q % 2 = 0)
      BY <1>0, <3>1, LapIs, Zenon
    <3> QED
      BY <1>2, <2>2, <3>2
  <2> QED
    BY <2>1, <2>2
<1>7. Place(k + Usable) = Place(k) /\ (Cycle(k + Usable) <=> ~Cycle(k))
  <2>1. (k + Usable) - 1 = Usable * (q + 1) + Place(k) /\ q + 1 \in Nat /\ k + Usable \in Nat
        /\ k + Usable >= 1
    BY <1>1, <1>2, <1>4
  <2> QED
    BY <1>2, <1>3, <2>1, LapIs
<1>8. k <= Usable => Place(k) = k - 1 /\ Cycle(k)
  <2> SUFFICES ASSUME k <= Usable PROVE Place(k) = k - 1 /\ Cycle(k)
    OBVIOUS
  <2>1. k - 1 = Usable * 0 + (k - 1) /\ k - 1 \in 0 .. Usable - 1 /\ 0 % 2 = 0
    BY <1>1
  <2> QED
    BY <2>1, LapIs
<1>9. Cycle(k) \in BOOLEAN /\ Cycle(k + 1) \in BOOLEAN /\ Cycle(k + Usable) \in BOOLEAN
  BY DEF Cycle
<1>10. /\ (Cycle(k + 1) <=> Cycle(k)) => Cycle(k + 1) = Cycle(k)
       /\ (Cycle(k + 1) <=> ~Cycle(k)) => Cycle(k + 1) # Cycle(k)
       /\ (Cycle(k + Usable) <=> ~Cycle(k)) => Cycle(k + Usable) # Cycle(k)
  BY <1>9
<1> QED
  BY <1>1, <1>2, <1>5, <1>7, <1>8, <1>9, <1>10

\* Less than a lap apart, different TRBs have different places.
LEMMA PlacesApart ==
    ASSUME kind \in Kinds, NEW j \in Nat, NEW k \in Nat, 1 <= j, j <= k, k - j < Usable,
           Place(j) = Place(k)
    PROVE  j = k
<1>1. Usable \in Nat /\ Usable >= 2
  BY RingShape
<1>2. PICK p \in Nat : j - 1 = Usable * p + Place(j) /\ Place(j) \in 0 .. Usable - 1
  BY Lap
<1>3. PICK q \in Nat : k - 1 = Usable * q + Place(k) /\ Place(k) \in 0 .. Usable - 1
  BY Lap
<1>4. ASSUME NEW a \in Nat, NEW b \in Nat, a < b
      PROVE  Usable * a + Usable <= Usable * b
  <2>1. Usable * b = Usable * a + Usable * (b - a) /\ b - a >= 1 /\ Usable * a \in Int
    BY <1>1, <1>4
  <2>2. Usable * (b - a) >= Usable
    BY <1>1, <2>1
  <2> QED
    BY <1>1, <2>1, <2>2
<1>5. ~(p < q)
  BY <1>1, <1>2, <1>3, <1>4
<1>6. ~(q < p)
  BY <1>1, <1>2, <1>3, <1>4
<1> QED
  BY <1>1, <1>2, <1>3, <1>5, <1>6

\* The pointer d with cycle state c denotes TRB k.
Denotes(d, c, k) ==
    \/ d = Place(k) /\ c = Cycle(k)
    \/ d = Link /\ Place(k) = 0 /\ c # Cycle(k)

\* The ring keeps its shape, and what the pointer denotes depends on nothing else.
LEMMA Kept ==
    ASSUME kind' = kind
    PROVE  /\ Slot' = Slot /\ Link' = Link /\ Usable' = Usable
           /\ \A k \in Int : At(k)' <=> Denotes(deq', cs', k)
           /\ \A k \in Int : At(k) <=> Denotes(deq, cs, k)
BY DEF Slot, Link, Usable, At, Place, Cycle, Denotes

-----------------------------------------------------------------------------
(* What the slots hold *)

\* The facts of the invariant that the lemmas about slots use.
Shape == TypeOK /\ TrbsAreQueued /\ MemoryIsQueued

LEMMA Shaped == ASSUME RingInv PROVE Shape
BY DEF RingInv, RingRules, EndpointInv, WorkerInv, ContextTellsTheTruth, Shape

\* A slot with the cycle bit of TRB k holds it, or a later one.
LEMMA SlotHolds ==
    ASSUME Shape, NEW k \in 1 .. Len(trbs) + 1, mem[Place(k)].cycle = Cycle(k)
    PROVE  /\ mem[Place(k)].trb \in k .. Len(trbs)
           /\ Place(mem[Place(k)].trb) = Place(k) /\ Cycle(mem[Place(k)].trb) = Cycle(k)
<1> DEFINE s == Place(k)
           m == mem[s].trb
           N == Len(trbs)
<1>0. kind \in Kinds /\ N \in Nat /\ k \in Nat /\ k >= 1 /\ k <= N + 1
  BY DEF Shape, TypeOK
<1>1. /\ s \in 0 .. Usable - 1 /\ Usable \in Nat /\ Usable >= 2 /\ Link = Usable
      /\ Cycle(k) \in BOOLEAN
      /\ k <= Usable => s = k - 1 /\ Cycle(k)
  BY <1>0, Places
<1>2. s \in Slot /\ s # Link
  BY <1>0, RingShape
<1>3. m \in Nat /\ m <= N /\ mem[s].cycle \in BOOLEAN
  BY <1>2 DEF Shape, TypeOK, TrbsAreQueued
<1>4. /\ m = 0 => ~mem[s].cycle
      /\ m # 0 => Place(m) = s /\ mem[s].cycle = Cycle(m)
      /\ \A j \in 1 .. N : Place(j) = s => j <= m
  BY <1>2 DEF Shape, MemoryIsQueued
<1>5. ASSUME k > Usable
      PROVE  /\ k - Usable \in 1 .. N /\ Place(k - Usable) = s /\ Cycle(k - Usable) # Cycle(k)
             /\ k - Usable <= m
  <2> DEFINE j == k - Usable
  <2>1. j \in Nat /\ j >= 1 /\ j + Usable = k /\ j \in 1 .. N
    BY <1>0, <1>1, <1>5
  <2> HIDE DEF j
  <2>2. Place(j + Usable) = Place(j) /\ Cycle(j + Usable) # Cycle(j)
    BY <1>0, <2>1, Places
  <2>3. Place(j) = s /\ Cycle(j) # Cycle(k)
    BY <2>1, <2>2
  <2>4. j <= m
    BY <1>4, <2>1, <2>3
  <2> QED
    BY <2>1, <2>3, <2>4 DEF j
<1> HIDE DEF m, s, N
<1>6. m # 0
  <2> SUFFICES ASSUME m = 0 PROVE FALSE
    OBVIOUS
  <2>1. ~Cycle(k)
    BY <1>4 DEF s
  <2> QED
    BY <1>0, <1>1, <1>3, <1>5, <2>1
<1>7. Place(m) = s /\ Cycle(m) = Cycle(k)
  BY <1>4, <1>6 DEF s
<1>8. k <= m
  <2> SUFFICES ASSUME m < k PROVE FALSE
    BY <1>0, <1>3
  <2>1. CASE k <= Usable
    <3>1. Place(m) = m - 1
      BY <1>0, <1>1, <1>3, <1>6, <2>1, Places
    <3> QED
      BY <1>0, <1>1, <1>3, <1>7, <2>1, <3>1
  <2>2. CASE k > Usable
    <3>1. m # k - Usable
      BY <1>5, <1>7, <2>2
    <3>2. k - m < Usable /\ 1 <= m
      BY <1>0, <1>1, <1>3, <1>5, <2>2, <3>1
    <3>3. m = k
      BY <1>0, <1>3, <1>7, <3>2, PlacesApart DEF s
    <3> QED
      BY <1>0, <1>3, <3>3
  <2> QED
    BY <1>0, <1>1, <2>1, <2>2
<1> QED
  BY <1>0, <1>3, <1>7, <1>8 DEF m, s, N

\* The slot of a TRB that fewer than a lap have followed still holds it.
LEMMA SlotOfRecent ==
    ASSUME Shape, NEW k \in 1 .. Len(trbs), Len(trbs) - k < Usable
    PROVE  mem[Place(k)].trb = k /\ mem[Place(k)].cycle = Cycle(k)
<1> DEFINE m == mem[Place(k)].trb
<1>0. kind \in Kinds /\ Len(trbs) \in Nat /\ k \in Nat /\ k >= 1 /\ k <= Len(trbs)
  BY DEF Shape, TypeOK
<1>2. Place(k) \in Slot /\ Place(k) # Link /\ Usable \in Nat
  BY <1>0, RingShape
<1>3. m \in Nat /\ m <= Len(trbs)
  BY <1>2 DEF Shape, TypeOK, TrbsAreQueued
<1>4. /\ m # 0 => Place(m) = Place(k) /\ mem[Place(k)].cycle = Cycle(m)
      /\ k <= m
  BY <1>2 DEF Shape, MemoryIsQueued
<1> HIDE DEF m
<1>5. m = k
  BY <1>0, <1>2, <1>3, <1>4, PlacesApart
<1> QED
  BY <1>0, <1>4, <1>5 DEF m

\* The Link TRB before a TRB that is queued has been handed over.
LEMMA LinkOfRecent ==
    ASSUME Shape, NEW k \in 1 .. Len(trbs), Len(trbs) - k + 1 < Usable, Place(k) = 0
    PROVE  mem[Link].cycle # Cycle(k)
<1> DEFINE N == Len(trbs)
<1>0. kind \in Kinds /\ N \in Nat /\ k \in Nat /\ k >= 1 /\ k <= N
  BY DEF Shape, TypeOK
<1>1. Usable \in Nat /\ Usable >= 2 /\ Link = Usable /\ Link - 1 \in Slot \ {Link}
  <2>1. Slot = 0 .. Link /\ Link \in Nat /\ Link >= 2 /\ Usable = Link
    BY <1>0, RingShape
  <2> QED
    BY <2>1
<1>2. mem[Link].cycle = mem[Link - 1].cycle
  BY DEF Shape, MemoryIsQueued
<1>3. CASE k = 1
  <2> DEFINE m == mem[Link - 1].trb
  <2>1. m \in Nat /\ m <= N
    BY <1>1 DEF Shape, TypeOK, TrbsAreQueued
  <2>2. /\ m = 0 => ~mem[Link - 1].cycle
        /\ m # 0 => Place(m) = Link - 1
    BY <1>1 DEF Shape, MemoryIsQueued
  <2> HIDE DEF m, N
  <2>3. N < Usable
    BY <1>0, <1>1, <1>3 DEF N
  <2>4. m # 0 => Place(m) = m - 1
    BY <1>0, <1>1, <2>1, <2>3, Places
  <2>5. m = 0
    BY <1>0, <1>1, <2>1, <2>2, <2>3, <2>4
  <2>6. Cycle(k)
    BY <1>0, <1>1, <1>3, Places
  <2> QED
    BY <1>2, <2>2, <2>5, <2>6
<1>4. CASE k # 1
  <2> DEFINE j == k - 1
  <2>1. j \in 1 .. N /\ j \in Nat /\ j >= 1 /\ j + 1 = k /\ N - j < Usable
    BY <1>0, <1>1, <1>4
  <2> HIDE DEF j
  <2>2. mem[Place(j)].cycle = Cycle(j)
    BY <2>1, SlotOfRecent
  <2>3. /\ Place(j) \in 0 .. Usable - 1
        /\ IF Place(j) = Usable - 1 THEN Place(j + 1) = 0 /\ Cycle(j + 1) # Cycle(j)
           ELSE Place(j + 1) = Place(j) + 1 /\ Cycle(j + 1) = Cycle(j)
    BY <1>0, <2>1, Places
  <2>4. Place(j) = Link - 1 /\ Cycle(k) # Cycle(j)
    BY <1>1, <2>1, <2>3
  <2> QED
    BY <1>2, <2>2, <2>4
<1> QED
  BY <1>3, <1>4

-----------------------------------------------------------------------------
(* Finding a TRB *)

\* Following the Link TRB does not change what the pointer denotes.
LEMMA Following ==
    ASSUME TypeOK, NEW k \in Nat, k >= 1
    PROVE  At(k) <=> Denotes(NextTrb[1], NextTrb[2], k)
<1>0. /\ kind \in Kinds /\ cs \in BOOLEAN /\ deq \in Slot
  BY DEF TypeOK
<1>1. Place(k) \in 0 .. Usable - 1 /\ Usable \in Nat /\ Usable >= 2 /\ Link = Usable
      /\ Cycle(k) \in BOOLEAN
  BY <1>0, Places
<1>2. At(k) <=> Denotes(deq, cs, k)
  BY DEF At, Denotes
<1>3. CASE deq = Link /\ Fresh(deq, cs)
  <2>1. NextTrb[1] = 0 /\ NextTrb[2] = ~cs
    BY <1>3 DEF NextTrb
  <2>2. NextTrb[2] = Cycle(k) <=> cs # Cycle(k)
    <3>1. CASE cs
      BY <1>0, <1>1, <2>1, <3>1
    <3>2. CASE ~cs
      BY <1>0, <1>1, <2>1, <3>2
    <3> QED
      BY <3>1, <3>2
  <2>3. Place(k) # Link /\ Link # 0
    BY <1>1
  <2> QED
    BY <1>2, <1>3, <2>1, <2>2, <2>3 DEF Denotes
<1>4. CASE ~(deq = Link /\ Fresh(deq, cs))
  <2>1. NextTrb[1] = deq /\ NextTrb[2] = cs
    BY <1>4 DEF NextTrb
  <2> QED
    BY <1>2, <2>1
<1> QED
  BY <1>3, <1>4

\* A worker at a TRB that the driver waits for finds it.
LEMMA Found ==
    ASSUME Shape, NEW k \in 1 .. Len(trbs), Len(trbs) - k + 1 < Usable, At(k)
    PROVE  /\ NextTrb[1] = Place(k) /\ NextTrb[2] = Cycle(k)
           /\ Fresh(NextTrb[1], NextTrb[2]) /\ mem[NextTrb[1]].trb = k
<1>0. /\ kind \in Kinds /\ cs \in BOOLEAN /\ Len(trbs) \in Nat /\ k \in Nat /\ k >= 1
      /\ mem \in [Slot -> [trb : Nat, cycle : BOOLEAN]]
  BY DEF Shape, TypeOK
<1>1. Place(k) \in 0 .. Usable - 1 /\ Usable \in Nat /\ Usable >= 2 /\ Link = Usable
      /\ Cycle(k) \in BOOLEAN /\ Link \in Slot
  BY <1>0, Places, RingShape
<1>2. Len(trbs) - k < Usable
  BY <1>0, <1>1
<1>3. mem[Place(k)].trb = k /\ mem[Place(k)].cycle = Cycle(k)
  BY <1>2, SlotOfRecent
<1>4. NextTrb[1] = Place(k) /\ NextTrb[2] = Cycle(k)
  <2>1. CASE deq = Place(k) /\ cs = Cycle(k)
    BY <1>1, <2>1 DEF NextTrb
  <2>2. CASE deq = Link /\ Place(k) = 0 /\ cs # Cycle(k)
    <3>1. mem[Link].cycle # Cycle(k) /\ mem[Link].cycle \in BOOLEAN
      BY <1>0, <1>1, <2>2, LinkOfRecent
    <3>2. mem[Link].cycle = cs
      BY <1>0, <1>1, <2>2, <3>1
    <3>3. NextTrb[1] = 0 /\ NextTrb[2] = ~cs
      BY <2>2, <3>2 DEF NextTrb, Fresh
    <3>4. NextTrb[2] = Cycle(k)
      BY <1>0, <1>1, <2>2, <3>3
    <3> QED
      BY <2>2, <3>3, <3>4
  <2> QED
    BY <2>1, <2>2 DEF At
<1> QED
  BY <1>3, <1>4 DEF Fresh

\* What a worker at TRB k takes for a TRB is one: that one, unless it has been
\* overwritten.
LEMMA Taken ==
    ASSUME Shape, NEW k \in 1 .. Len(trbs) + 1, At(k), Fresh(NextTrb[1], NextTrb[2])
    PROVE  /\ mem[NextTrb[1]].trb \in k .. Len(trbs)
           /\ NextTrb[1] = Place(mem[NextTrb[1]].trb) /\ NextTrb[2] = Cycle(mem[NextTrb[1]].trb)
           /\ Len(trbs) - k + 1 < Usable => mem[NextTrb[1]].trb = k
<1>0. /\ kind \in Kinds /\ cs \in BOOLEAN /\ Len(trbs) \in Nat /\ k \in Nat /\ k >= 1
      /\ mem \in [Slot -> [trb : Nat, cycle : BOOLEAN]] /\ TypeOK
  BY DEF Shape, TypeOK
<1>1. Place(k) \in 0 .. Usable - 1 /\ Usable \in Nat /\ Usable >= 2 /\ Link = Usable
      /\ Cycle(k) \in BOOLEAN
  BY <1>0, Places
<1>2. NextTrb[1] # Link
  <2>1. CASE deq = Link /\ Fresh(deq, cs)
    BY <1>1, <2>1 DEF NextTrb
  <2>2. CASE ~(deq = Link /\ Fresh(deq, cs))
    <3>1. NextTrb[1] = deq /\ NextTrb[2] = cs
      BY <2>2 DEF NextTrb
    <3> QED
      BY <2>2, <3>1
  <2> QED
    BY <2>1, <2>2
<1>3. Denotes(NextTrb[1], NextTrb[2], k)
  BY <1>0, Following
<1>4. NextTrb[1] = Place(k) /\ NextTrb[2] = Cycle(k)
  BY <1>2, <1>3 DEF Denotes
<1>5. mem[Place(k)].cycle = Cycle(k)
  BY <1>4 DEF Fresh
<1>6. /\ mem[Place(k)].trb \in k .. Len(trbs)
      /\ Place(mem[Place(k)].trb) = Place(k) /\ Cycle(mem[Place(k)].trb) = Cycle(k)
  BY <1>5, SlotHolds
<1>7. ASSUME Len(trbs) - k + 1 < Usable
      PROVE  mem[Place(k)].trb = k
  <2> DEFINE m == mem[Place(k)].trb
  <2>1. m \in Nat /\ k <= m /\ m - k < Usable /\ Place(m) = Place(k)
    BY <1>0, <1>1, <1>6, <1>7
  <2> HIDE DEF m
  <2>2. m = k
    BY <1>0, <2>1, PlacesApart
  <2> QED
    BY <2>2 DEF m
<1> QED
  BY <1>4, <1>6, <1>7

\* One slot further is the place of the next TRB.
LEMMA Behind ==
    ASSUME kind \in Kinds, NEW k \in Nat, k >= 1
    PROVE  Denotes(Place(k) + 1, Cycle(k), k + 1)
<1>1. /\ Place(k) \in 0 .. Usable - 1 /\ Usable \in Nat /\ Link = Usable
      /\ IF Place(k) = Usable - 1 THEN Place(k + 1) = 0 /\ Cycle(k + 1) # Cycle(k)
         ELSE Place(k + 1) = Place(k) + 1 /\ Cycle(k + 1) = Cycle(k)
  BY Places
<1> QED
  BY <1>1 DEF Denotes

-----------------------------------------------------------------------------
(* What the driver learns from events *)

LEMMA SendsNoSuccess ==
    ASSUME NEW events, Send(events), \A e \in events : e.code \notin {"success", "short"}
    PROVE  ack' = ack /\ out' = events
<1>1. {e.trb : e \in {e \in events : e.code \in {"success", "short"}}} = {}
  OBVIOUS
<1> QED
  BY <1>1 DEF Send

LEMMA SendsSuccess ==
    ASSUME NEW k \in Nat, NEW l \in Nat, k <= l, NEW x \in {"success", "short"},
           Send({Event(k, x), Event(l, x)})
    PROVE  ack' = l
<1> DEFINE events == {Event(k, x), Event(l, x)}
           done == {e.trb : e \in {e \in events : e.code \in {"success", "short"}}}
<1>1. done = {k, l}
  <2>1. {e \in events : e.code \in {"success", "short"}} = events
    BY DEF Event
  <2>2. {e.trb : e \in events} = {k, l}
    BY DEF Event
  <2> QED
    BY <2>1, <2>2
<1>2. ack' = IF done = {} THEN ack ELSE CHOOSE i \in done : \A j \in done : j <= i
  BY DEF Send
<1> HIDE DEF done
<1>3. l \in done /\ \A j \in done : j <= l
  BY <1>1
<1>4. \A i \in done : (\A j \in done : j <= i) => i = l
  BY <1>1
<1> QED
  BY <1>2, <1>3, <1>4

LEMMA SendsOneSuccess ==
    ASSUME NEW k \in Nat, Send({Event(k, "success")})
    PROVE  ack' = k
<1>1. {Event(k, "success")} = {Event(k, "success"), Event(k, "success")}
  OBVIOUS
<1>2. k <= k /\ Send({Event(k, "success"), Event(k, "success")})
  BY <1>1
<1> QED
  BY <1>2, SendsSuccess

-----------------------------------------------------------------------------
(* Steps that leave the ring and the pointer alone *)

\* The facts that every step starts from.
LEMMA Typed ==
    ASSUME RingInv
    PROVE  /\ TypeOK /\ Shape /\ kind \in Kinds /\ Len(trbs) \in Nat
           /\ ack \in 0 .. Len(trbs) /\ rung \in 0 .. Len(trbs)
           /\ cs \in BOOLEAN /\ Usable \in Nat /\ Usable >= 2 /\ Link = Usable
           /\ chan \in Seq(Message) /\ Len(sub.trbs) \in Nat
           /\ \A i \in 1 .. Len(sub.trbs) : sub.trbs[i] \in 1 .. Len(trbs)
<1>1. TypeOK /\ kind \in Kinds /\ Shape
  BY Shaped DEF RingInv, EndpointInv, WorkerInv, ContextTellsTheTruth, TypeOK
<1>2. Usable \in Nat /\ Usable >= 2 /\ Link = Usable
  BY <1>1, RingShape
<1>3. sub.trbs \in Seq(Nat) /\ Len(sub.trbs) \in Nat /\ Len(trbs) \in Nat
  BY <1>1 DEF TypeOK
<1>4. ASSUME NEW i \in 1 .. Len(sub.trbs)
      PROVE  sub.trbs[i] \in 1 .. Len(trbs)
  <2>1. sub.trbs[i] \in Nat
    BY <1>3, ElementOfSeq
  <2> QED
    BY <1>3, <2>1 DEF RingInv, RingRules, PlaceIsQueued, EndpointInv, WorkerInv, TrbsAreQueued
<1> QED
  BY <1>1, <1>2, <1>3, <1>4 DEF TypeOK

LEMMA StillQueued ==
    ASSUME RingInv, UNCHANGED <<kind, mem, trbs>>
    PROVE  MemoryIsQueued' /\ TdsAreWhole'
<1>1. MemoryIsQueued /\ TdsAreWhole
  BY DEF RingInv, RingRules
<1>2. MemoryIsQueued'
  BY <1>1 DEF MemoryIsQueued, Slot, Link, Usable, Place, Cycle
<1>3. TdsAreWhole'
  BY <1>1 DEF TdsAreWhole, Boundary
<1> QED
  BY <1>2, <1>3

\* What a step has to respect that moves neither the pointer nor the driver's books.
Stays ==
    /\ UNCHANGED <<kind, mem, trbs, ack, deq, cs>>
    /\ token => token'
    /\ handle' => handle
    /\ cmds' = 0 => cmds = 0
    /\ worker' = "wait" => worker = "wait" /\ hot' = hot /\ (handle' => sub' = sub)
    /\ worker' = "look" => worker \in {"look", "doorbell", "stopped", "continuable"}
    /\ worker' = "doorbell" => worker = "doorbell" /\ (NoDoorbell' => NoDoorbell)
    /\ worker' \in {"stopped", "continuable"} => worker' = worker \/ cmds' # 0
    /\ sub' = sub \/ sub'.trbs = <<>>
    /\ worker \in {"look", "wait", "dead"} /\ worker' \notin {"look", "wait", "dead"} =>
          (kind = "in" /\ ~token' => sub'.trbs = <<>>)
    /\ parser' = parser \/ ~handle'
    /\ rung' = rung \/ ~NoDoorbell'
    /\ \A i \in 1 .. Len(chan') : chan'[i].op = "setdeq" =>
          /\ Len(chan') = 1 /\ worker' \in {"stopped", "continuable", "halted", "error"}
          /\ Going \/ chan'[i].trb > ack

LEMMA Staying ==
    ASSUME RingInv, EndpointInv', Stays
    PROVE  RingRules'
<1>0. /\ kind' = kind /\ mem' = mem /\ trbs' = trbs /\ ack' = ack /\ deq' = deq /\ cs' = cs
      /\ token => token'
  BY DEF Stays
<1>1. /\ \A k \in Int : At(k)' <=> At(k)
      /\ Usable' = Usable
  BY <1>0, Kept
<1>2. MemoryIsQueued' /\ TdsAreWhole'
  BY <1>0, StillQueued
<1>3. /\ Len(trbs) \in Nat /\ ack \in 0 .. Len(trbs) /\ rung \in 0 .. Len(trbs)
      /\ 1 .. Len(trbs) + 1 \subseteq Int /\ ack + 1 .. Len(trbs) + 1 \subseteq Int
      /\ ack + 1 .. rung \subseteq Int
  BY Typed
<1>4. PlaceIsQueued'
  <2>1. PlaceIsQueued
    BY DEF RingInv, RingRules
  <2>2. \E k \in 1 .. Len(trbs') + 1 : At(k)'
    BY <1>0, <1>1, <1>3, <2>1 DEF PlaceIsQueued
  <2>3. worker' = "wait" => hot' \in 1 .. Len(trbs') /\ deq' = Place(hot)' /\ cs' = Cycle(hot)'
    BY <1>0, <2>1 DEF PlaceIsQueued, Stays, Place, Cycle, Usable
  <2>4. \A i \in 1 .. Len(sub'.trbs) : sub'.trbs[i] >= 1
    BY <2>1 DEF PlaceIsQueued, Stays
  <2> QED
    BY <2>2, <2>3, <2>4 DEF PlaceIsQueued
<1>5. MoveIsAlone'
  BY DEF MoveIsAlone, Stays
<1>6. OutstandingIsKept'
  <2>1. OutstandingIsKept
    BY DEF RingInv, RingRules
  <2> SUFFICES ASSUME ~Going' PROVE OutstandingIsKept'
    BY DEF OutstandingIsKept
  <2>2. ~Going
    BY <1>0 DEF Going
  <2>3. Len(trbs') - ack' < Usable'
    BY <1>0, <1>1, <2>1, <2>2 DEF OutstandingIsKept
  <2>4. \E k \in ack' + 1 .. Len(trbs') + 1 : At(k)'
    BY <1>0, <1>1, <1>3, <2>1, <2>2 DEF OutstandingIsKept
  <2>5. worker' = "wait" => hot' > ack'
    BY <1>0, <2>1, <2>2 DEF OutstandingIsKept, Stays
  <2>6. \A i \in 1 .. Len(chan') : chan'[i].op = "setdeq" => chan'[i].trb > ack'
    BY <1>0, <2>2 DEF Stays
  <2> QED
    BY <2>3, <2>4, <2>5, <2>6 DEF OutstandingIsKept
<1>7. CollectsTd'
  <2>1. CollectsTd
    BY DEF RingInv, RingRules
  <2> SUFFICES ASSUME kind = "in", ~token' PROVE CollectsTd'
    BY <1>0 DEF CollectsTd
  <2>2. ~token /\ handle
    BY <1>0 DEF RingInv, EndpointInv, WorkerInv, WaitingHasSubmitted
  <2>3. CASE sub'.trbs = <<>>
    <3>1. Len(sub'.trbs) = 0
      BY <2>3
    <3>2. ~(worker' = "wait" /\ sub'.st # "error")
      <4> SUFFICES ASSUME worker' = "wait", sub'.st # "error" PROVE FALSE
        OBVIOUS
      <4>1. handle' /\ sub' = sub /\ worker = "wait"
        <5>1. handle'
          BY DEF EndpointInv, WorkerInv, WaitingHasSubmitted
        <5> QED
          BY <5>1 DEF Stays
      <4> QED
        BY <2>1, <2>2, <2>3, <4>1 DEF CollectsTd
    <3> QED
      BY <2>3, <3>1, <3>2 DEF CollectsTd
  <2>4. CASE sub' = sub /\ sub.trbs # <<>>
    <3>1. worker \in {"look", "wait", "dead"} /\ worker' \in {"look", "wait", "dead"}
      BY <2>1, <2>2, <2>4 DEF CollectsTd, Stays
    <3>2. \A i \in 1 .. Len(sub'.trbs) : sub'.trbs[i] > ack' /\ sub'.trbs[i] <= Last'
      BY <1>0, <2>1, <2>2, <2>4 DEF CollectsTd, Last
    <3>3. ASSUME worker' = "look" PROVE At(Last + 1)' /\ trbs'[Last'] = "chained"
      <4>1. worker = "look"
        BY <3>1, <3>3 DEF Stays
      <4>2. At(Last + 1) /\ trbs[Last] = "chained"
        BY <2>1, <2>2, <2>4, <4>1 DEF CollectsTd
      <4>3. Last' = Last
        BY <2>4 DEF Last
      <4> QED
        BY <1>0, <2>4, <4>2, <4>3 DEF At, Place, Cycle, Usable, Link
    <3>4. worker' = "wait" => worker = "wait" /\ hot' = hot
      BY DEF Stays
    <3> QED
      BY <1>0, <2>1, <2>2, <2>4, <3>1, <3>2, <3>3, <3>4 DEF CollectsTd, Last
  <2> QED
    BY <2>3, <2>4 DEF Stays
<1>8. ParserFollows'
  <2>1. ParserFollows
    BY DEF RingInv, RingRules
  <2> SUFFICES ASSUME kind = "control", handle', cmds' = 0 PROVE ParserFollows'
    BY <1>0 DEF ParserFollows
  <2>2. handle /\ cmds = 0 /\ parser' = parser
    BY DEF Stays
  <2>3. \A p : ParserAt(p)' <=> ParserAt(p)
    BY <1>0, <2>2 DEF ParserAt, Boundary
  <2>4. worker \notin {"stopped", "continuable"} /\ worker' \notin {"stopped", "continuable"}
    BY <2>1, <2>2 DEF ParserFollows, Stays
  <2>5. ASSUME worker' \in {"doorbell", "look"}
        PROVE  \E p \in ack' + 1 .. Len(trbs') + 1 : At(p)' /\ ParserAt(p)'
    <3>1. worker \in {"doorbell", "look"}
      BY <2>4, <2>5 DEF Stays
    <3>2. PICK p \in ack + 1 .. Len(trbs) + 1 : At(p) /\ ParserAt(p)
      BY <2>1, <2>2, <3>1 DEF ParserFollows
    <3>3. p \in Int
      BY <1>3
    <3> QED
      BY <1>0, <1>1, <2>3, <3>2, <3>3
  <2>6. worker' = "wait" /\ sub'.st # "error" => ParserAt(hot + 1)'
    <3> SUFFICES ASSUME worker' = "wait", sub'.st # "error" PROVE ParserAt(hot + 1)'
      OBVIOUS
    <3>1. worker = "wait" /\ hot' = hot /\ sub' = sub
      BY DEF Stays
    <3>2. ParserAt(hot + 1)
      BY <2>1, <2>2, <3>1 DEF ParserFollows
    <3> QED
      BY <1>0, <2>2, <3>1, <3>2 DEF ParserAt, Boundary
  <2> QED
    BY <2>4, <2>5, <2>6 DEF ParserFollows
<1>9. ErrorIsBad'
  BY <1>0 DEF RingInv, RingRules, ErrorIsBad, Stays
<1>10. NothingLeftBehind'
  <2>1. NothingLeftBehind
    BY DEF RingInv, RingRules
  <2> SUFFICES ASSUME ~(kind = "in" /\ token), worker' = "doorbell", NoDoorbell'
               PROVE  \A k \in ack' + 1 .. rung' : ~At(k)'
    BY <1>0 DEF NothingLeftBehind
  <2>2. worker = "doorbell" /\ NoDoorbell /\ rung' = rung
    BY DEF Stays
  <2> QED
    BY <1>0, <1>1, <1>3, <2>1, <2>2 DEF NothingLeftBehind
<1> QED
  BY <1>2, <1>4, <1>5, <1>6, <1>7, <1>8, <1>9, <1>10 DEF RingRules

\* A message that is taken leaves no move of the pointer behind, and no doorbell less
\* unless it was one.
LEMMA TakenOff ==
    ASSUME RingInv, NEW op, Receive(op)
    PROVE  /\ \A i \in 1 .. Len(chan') : chan'[i].op # "setdeq"
           /\ op # "doorbell" /\ NoDoorbell' => NoDoorbell
<1>1. chan \in Seq(Message) /\ chan # <<>> /\ Head(chan).op = op /\ chan' = Tail(chan)
  BY Typed DEF Receive
<1>2. /\ Head(chan) = chan[1] /\ Len(chan') = Len(chan) - 1 /\ Len(chan) \in Nat
      /\ \A i \in 1 .. Len(chan') : i + 1 \in 1 .. Len(chan) /\ chan'[i] = chan[i + 1]
  BY <1>1, Taking
<1>3. \A i \in 1 .. Len(chan') : chan'[i].op # "setdeq"
  <2> SUFFICES ASSUME NEW i \in 1 .. Len(chan'), chan'[i].op = "setdeq" PROVE FALSE
    OBVIOUS
  <2>1. Len(chan) = 1
    BY <1>2 DEF RingInv, RingRules, MoveIsAlone
  <2> QED
    BY <1>2, <2>1
<1>4. ASSUME op # "doorbell", NoDoorbell', NEW i \in 1 .. Len(chan)
      PROVE  chan[i].op # "doorbell"
  <2>1. CASE i = 1
    BY <1>1, <1>2, <1>4, <2>1
  <2>2. CASE i # 1
    <3>1. i - 1 \in 1 .. Len(chan') /\ (i - 1) + 1 = i
      BY <1>2, <2>2
    <3>2. chan'[i - 1] = chan[i]
      BY <1>2, <3>1
    <3> QED
      BY <1>4, <3>1, <3>2 DEF NoDoorbell
  <2> QED
    BY <2>1, <2>2
<1> QED
  BY <1>3, <1>4 DEF NoDoorbell

LEMMA DoorbellStays == ASSUME RingInv, ReceiveDoorbell PROVE Stays
<1>1. /\ Receive("doorbell")
      /\ UNCHANGED <<kind, mem, trbs, rung, ack, deq, cs, cmds, hot, handle, token, parser, sub>>
      /\ worker \in Receiving
      /\ worker' = IF worker \in {"doorbell", "stopped", "continuable"} THEN "look" ELSE worker
  BY DEF ReceiveDoorbell, Receive, guest, ring, hotplug, inner
<1>2. \A i \in 1 .. Len(chan') : chan'[i].op # "setdeq"
  BY <1>1, TakenOff
<1> QED
  BY <1>1, <1>2 DEF Stays, Receiving

LEMMA StopStays == ASSUME RingInv, ReceiveStop PROVE Stays
<1>1. /\ Receive("stop") /\ "stop" \in Commands /\ cmd' \in {None, cmd} /\ cmds' = cmds
      /\ UNCHANGED <<kind, mem, trbs, rung, ack, deq, cs, cmds, handle, token, parser>>
      /\ \/ worker = "doorbell" /\ worker' = "stopped" /\ UNCHANGED <<hot, sub>>
         \/ worker = "wait" /\ worker' = "continuable"
               /\ sub' = IF handle /\ kind = "in" THEN Idle(kind) ELSE sub
         \/ worker' = "dead" /\ UNCHANGED <<hot, sub>>
         \/ worker \notin {"doorbell", "wait"} /\ UNCHANGED <<worker, hot, sub>>
  BY DEF ReceiveStop, Receive, guest, ring, hotplug, Commands, Enter, Cancel, OpenFails
<1>2. \A i \in 1 .. Len(chan') : chan'[i].op # "setdeq"
  BY <1>1, TakenOff
<1>3. cmds' # 0
  BY <1>1, CommandTaken DEF RingInv, EndpointInv
<1>4. Idle(kind).trbs = <<>>
  BY DEF Idle
<1>5. kind = "in" /\ ~token' => handle
  BY <1>1 DEF RingInv, EndpointInv, WorkerInv, WaitingHasSubmitted
<1> QED
  BY <1>1, <1>2, <1>3, <1>4, <1>5 DEF Stays

LEMMA ResetStays == ASSUME RingInv, ReceiveReset PROVE Stays
<1>1. /\ Receive("reset") /\ "reset" \in Commands /\ cmd' \in {None, cmd}
      /\ UNCHANGED <<kind, mem, trbs, rung, ack, deq, cs, cmds, hot, handle, token, parser, sub>>
      /\ \/ worker = "halted" /\ worker' = "stopped"
         \/ worker' = "dead"
         \/ worker # "halted" /\ UNCHANGED worker
  BY DEF ReceiveReset, Receive, guest, ring, hotplug, inner, Commands, Enter, OpenFails
<1>2. /\ \A i \in 1 .. Len(chan') : chan'[i].op # "setdeq"
      /\ NoDoorbell' => NoDoorbell
  BY <1>1, TakenOff
<1>3. cmds' # 0
  BY <1>1, CommandTaken DEF RingInv, EndpointInv
<1> QED
  BY <1>1, <1>2, <1>3 DEF Stays

\* A worker that cannot move its pointer says so.
LEMMA RefusalStays ==
    ASSUME RingInv, ReceiveSetDeq, worker \in {"doorbell", "wait", "halted"}
    PROVE  Stays
<1>1. /\ Receive("setdeq")
      /\ UNCHANGED <<kind, mem, trbs, rung, ack, deq, cs, cmds, hot, handle, token, parser, sub>>
      /\ UNCHANGED worker
  BY DEF ReceiveSetDeq, Receive, guest, ring, hotplug, inner
<1>2. /\ \A i \in 1 .. Len(chan') : chan'[i].op # "setdeq"
      /\ NoDoorbell' => NoDoorbell
  BY <1>1, TakenOff
<1> QED
  BY <1>1, <1>2 DEF Stays

LEMMA TerminateStays == ASSUME RingInv, ReceiveTerminate PROVE Stays
<1>1. /\ worker \in Receiving
      /\ UNCHANGED <<kind, mem, trbs, rung, ack, deq, cs, cmds, hot, handle, token, parser, sub>>
      /\ \/ /\ worker \in {"wait", "error"} /\ chan' = <<[op |-> "closed", trb |-> 0]>>
            /\ worker' = worker
         \/ worker \notin {"wait", "error"} /\ chan' = <<>> /\ worker' = "ended"
  BY DEF ReceiveTerminate, guest, ring, hotplug, inner
<1>2. \A i \in 1 .. Len(chan') : chan'[i].op # "setdeq"
  <2>1. CASE chan' = <<>>
    BY <2>1
  <2>2. CASE chan' = <<[op |-> "closed", trb |-> 0]>>
    <3>1. Len(chan') = 1 /\ chan'[1].op = "closed"
      BY <2>2
    <3> QED
      BY <3>1
  <2> QED
    BY <1>1, <2>1, <2>2
<1> QED
  BY <1>1, <1>2 DEF Stays, Receiving

LEMMA ClosedStays == ASSUME RingInv, ReceiveClosed PROVE Stays
<1>1. /\ Receive("closed") /\ worker' = "dead"
      /\ UNCHANGED <<kind, mem, trbs, rung, ack, deq, cs, cmds, hot, handle, token, parser, sub>>
  BY DEF ReceiveClosed, Receive, guest, ring, hotplug, inner
<1>2. \A i \in 1 .. Len(chan') : chan'[i].op # "setdeq"
  BY <1>1, TakenOff
<1> QED
  BY <1>1, <1>2 DEF Stays

\* The device and its detachment come nowhere near the ring.
LEMMA DeviceStays ==
    ASSUME RingInv,
           \/ \E status \in Statuses : DeviceCompletes(status)
           \/ ControlTaskDies \/ InterrupterDies
           \/ Detach \/ DetachHandler \/ UNCHANGED vars
    PROVE  Stays
<1>1. /\ UNCHANGED <<kind, mem, trbs, rung, ack, deq, cs, cmds, hot, worker, chan>>
      /\ \/ UNCHANGED <<handle, token, parser, sub>>
         \/ UNCHANGED <<handle, parser, sub>> /\ token' = TRUE
         \/ handle' = FALSE /\ token' = token /\ sub' = Idle(kind)
  <2>1. CASE \E status \in Statuses : DeviceCompletes(status)
    BY <2>1 DEF DeviceCompletes, guest, ring, hotplug, inner
  <2>2. CASE Detach
    BY <2>2 DEF Detach, guest, ring, inner
  <2>3. CASE DetachHandler
    BY <2>3 DEF DetachHandler, guest, ring
  <2>4. CASE UNCHANGED vars
    BY <2>4 DEF vars, guest, ring, hotplug, inner
  <2>5. CASE ControlTaskDies \/ InterrupterDies
    BY <2>5 DEF ControlTaskDies, InterrupterDies, guest, ring, hotplug, inner
  <2> QED
    BY <2>1, <2>2, <2>3, <2>4, <2>5
<1>2. NoDoorbell' <=> NoDoorbell
  BY <1>1 DEF NoDoorbell
<1>3. \A i \in 1 .. Len(chan') : chan'[i].op = "setdeq" =>
          /\ Len(chan') = 1 /\ worker' \in {"stopped", "continuable", "halted", "error"}
          /\ Going \/ chan'[i].trb > ack
  BY <1>1 DEF RingInv, RingRules, MoveIsAlone, OutstandingIsKept
<1>4. Idle(kind).trbs = <<>>
  BY DEF Idle
<1>5. handle' => handle
  BY <1>1
<1>6. token => token'
  BY <1>1
<1> QED
  BY <1>1, <1>2, <1>3, <1>4, <1>5, <1>6 DEF Stays

\* A worker that dies in the middle of a TRB, or brings the endpoint context up to date,
\* leaves everything as it is.
LEMMA WorkerStays ==
    ASSUME RingInv, MeetEventData \/ SendFails \/ WriteContext
    PROVE  Stays
<1>1. /\ UNCHANGED <<kind, mem, trbs, rung, ack, deq, cs, cmds, hot, chan, handle, token, parser, sub>>
      /\ \/ worker = "wait" /\ worker' = "dead"
         \/ worker \in {"halting", "failing"} /\ worker' \in {"halted", "error"}
  BY DEF MeetEventData, SendFails, EventIsDue, WriteContext, Enter, Die, guest, ring, hotplug, inner
<1>2. \A i \in 1 .. Len(chan') : chan'[i].op # "setdeq"
  BY <1>1 DEF RingInv, RingRules, MoveIsAlone
<1> QED
  BY <1>1, <1>2 DEF Stays

LEMMA RingStays == ASSUME RingInv, RingDoorbell PROVE Stays
<1> DEFINE m == [op |-> "doorbell", trb |-> 0]
<1>1. /\ UNCHANGED <<kind, mem, trbs, ack, deq, cs, cmds, hot, worker, handle, token, parser, sub>>
      /\ chan' = Append(chan, m) /\ m \in Message /\ m.op = "doorbell" /\ cmd # "setdeq"
  BY DEF RingDoorbell, ring, hotplug, inner, Message
<1> HIDE DEF m
<1>2. /\ Len(chan') = Len(chan) + 1 /\ Len(chan) \in Nat /\ chan'[Len(chan) + 1] = m
      /\ \A i \in 1 .. Len(chan) : chan'[i] = chan[i]
  BY <1>1, Typed, Sending
<1>3. ~NoDoorbell'
  BY <1>1, <1>2 DEF NoDoorbell
<1>4. ASSUME NEW i \in 1 .. Len(chan'), chan'[i].op = "setdeq"
      PROVE  FALSE
  <2>1. i \in 1 .. Len(chan)
    <3>1. i \in 1 .. Len(chan) \/ i = Len(chan) + 1
      BY <1>2
    <3> QED
      BY <1>1, <1>2, <1>4, <3>1
  <2>2. chan[i].op = "setdeq"
    BY <1>2, <1>4, <2>1
  <2> QED
    BY <1>1, <2>1, <2>2 DEF RingInv, EndpointInv, WorkerInv, CommandsArePending, Commands
<1> QED
  BY <1>1, <1>3, <1>4 DEF Stays

\* The driver moves the pointer of an endpoint that does not run, and has nothing else
\* on its way then.
LEMMA IssueStays ==
    ASSUME RingInv, NEW op \in Commands, NEW k \in ack + 1 .. Len(trbs) + 1, Issue(op, k)
    PROVE  Stays
<1> DEFINE m == [op |-> op, trb |-> IF op = "setdeq" THEN k ELSE 0]
<1>0. k \in Nat /\ k > ack /\ ack \in Nat
  BY Typed
<1>1. /\ UNCHANGED <<kind, mem, trbs, rung, ack, deq, cs, hot, worker, handle, token, parser, sub>>
      /\ chan' = Append(chan, m) /\ m \in Message /\ m.op = op
      /\ cmds' = cmds + 1 /\ cmds \in Nat /\ cmd = None /\ worker \notin {"ended", "dead"}
      /\ op = "setdeq" => m.trb = k
  BY <1>0, Typed, BoundsAssumption DEF Issue, guest, ring, hotplug, inner, Message, TypeOK, Open
<1> HIDE DEF m
<1>2. /\ Len(chan') = Len(chan) + 1 /\ Len(chan) \in Nat /\ chan'[Len(chan) + 1] = m
      /\ \A i \in 1 .. Len(chan) : chan'[i] = chan[i]
  BY <1>1, Typed, Sending
<1>3. NoDoorbell' => NoDoorbell
  <2>1. \A i \in 1 .. Len(chan) : i \in 1 .. Len(chan')
    BY <1>2
  <2> QED
    BY <1>2, <2>1 DEF NoDoorbell
<1>4. \A i \in 1 .. Len(chan) : chan[i].op \notin Commands
  BY <1>1, NoneAssumption DEF RingInv, EndpointInv, WorkerInv, CommandsArePending
<1>5. ASSUME NEW i \in 1 .. Len(chan'), chan'[i].op = "setdeq"
      PROVE  /\ Len(chan') = 1 /\ worker' \in {"stopped", "continuable", "halted", "error"}
             /\ chan'[i].trb > ack
  <2>1. i = Len(chan) + 1
    <3>1. i \in 1 .. Len(chan) \/ i = Len(chan) + 1
      BY <1>2
    <3> QED
      BY <1>2, <1>4, <1>5, <3>1 DEF Commands
  <2>2. op = "setdeq" /\ chan'[i].trb > ack
    BY <1>0, <1>1, <1>2, <1>5, <2>1
  <2>3. ctx.state \in {"stopped", "halted", "error"} /\ NoDoorbell
        /\ \A j \in 1 .. Len(chan) : chan[j].op \notin {"closed", "terminate"}
    BY <2>2 DEF Issue, Open
  <2>4. worker \in {"stopped", "continuable", "halted", "error"}
    BY <1>1, <2>3, Typed
       DEF RingInv, EndpointInv, WorkerInv, ContextTellsTheTruth, TypeOK, Receiving
  <2>5. Len(chan) = 0
    <3> SUFFICES ASSUME Len(chan) # 0 PROVE FALSE
      OBVIOUS
    <3>1. 1 \in 1 .. Len(chan)
      BY <1>2
    <3>2. chan[1] \in Message
      BY <3>1, Typed, ElementOfSeq
    <3> QED
      BY <1>4, <2>3, <3>1, <3>2 DEF Message, NoDoorbell
  <2> QED
    BY <1>1, <1>2, <2>2, <2>4, <2>5
<1> QED
  BY <1>1, <1>3, <1>5 DEF Stays

-----------------------------------------------------------------------------
(* Completions *)

\* A worker that waits is at the TRB it has submitted, and nothing moves its pointer.
LEMMA AtSubmitted ==
    ASSUME RingInv, worker = "wait"
    PROVE  /\ hot \in 1 .. Len(trbs) /\ hot \in Nat /\ hot >= 1
           /\ deq = Place(hot) /\ cs = Cycle(hot) /\ Denotes(deq, cs, hot)
           /\ Denotes(deq + 1, cs, hot + 1)
           /\ ~Going => hot > ack /\ Len(trbs) - ack < Usable
           /\ \A i \in 1 .. Len(chan) : chan[i].op # "setdeq"
<1>1. hot \in 1 .. Len(trbs) /\ deq = Place(hot) /\ cs = Cycle(hot)
  BY DEF RingInv, RingRules, PlaceIsQueued
<1>2. hot \in Nat /\ hot >= 1
  BY <1>1, Typed
<1>3. Denotes(deq, cs, hot)
  BY <1>1 DEF Denotes
<1>4. Denotes(deq + 1, cs, hot + 1)
  BY <1>1, <1>2, Behind, Typed
<1>5. ~Going => hot > ack /\ Len(trbs) - ack < Usable
  BY DEF RingInv, RingRules, OutstandingIsKept
<1>6. \A i \in 1 .. Len(chan) : chan[i].op # "setdeq"
  BY DEF RingInv, RingRules, MoveIsAlone
<1> QED
  BY <1>1, <1>2, <1>3, <1>4, <1>5, <1>6

\* What the parts of the invariant come to when a worker has stopped waiting.
LEMMA Ended ==
    ASSUME RingInv, worker = "wait", Completed, worker' \in {"look", "halting", "failing"},
           token => token', sub' = sub \/ sub'.trbs = <<>>,
           ack' \in 0 .. Len(trbs),
           \E k \in 1 .. Len(trbs) + 1 : Denotes(deq', cs', k),
           ~Going' => /\ ack <= ack' 
                      /\ \E k \in ack' + 1 .. Len(trbs) + 1 : Denotes(deq', cs', k)
    PROVE  /\ MemoryIsQueued' /\ TdsAreWhole' /\ PlaceIsQueued' /\ MoveIsAlone'
           /\ OutstandingIsKept' /\ ErrorIsBad' /\ NothingLeftBehind'
<1>0. /\ UNCHANGED <<kind, mem, trbs, rung, chan>> /\ worker' # "wait" /\ worker' # "doorbell"
  BY DEF Completed, guest
<1>1. \A k \in Int : At(k)' <=> Denotes(deq', cs', k)
  BY <1>0, Kept
<1>2. MemoryIsQueued' /\ TdsAreWhole'
  BY <1>0, StillQueued
<1>3. Len(trbs) \in Nat /\ ack \in 0 .. Len(trbs) /\ Usable \in Nat /\ Usable' = Usable
  BY <1>0, Typed, Kept
<1>4. PlaceIsQueued'
  <2>1. \E k \in 1 .. Len(trbs') + 1 : At(k)'
    BY <1>0, <1>1, <1>3
  <2>2. \A i \in 1 .. Len(sub'.trbs) : sub'.trbs[i] >= 1
    BY DEF RingInv, RingRules, PlaceIsQueued
  <2> QED
    BY <1>0, <2>1, <2>2 DEF PlaceIsQueued
<1>5. \A i \in 1 .. Len(chan') : chan'[i].op # "setdeq"
  BY <1>0, AtSubmitted
<1>6. MoveIsAlone'
  BY <1>5 DEF MoveIsAlone
<1>7. OutstandingIsKept'
  <2> SUFFICES ASSUME ~Going' PROVE OutstandingIsKept'
    BY DEF OutstandingIsKept
  <2>1. ~Going
    BY <1>0 DEF Going
  <2>2. Len(trbs') - ack' < Usable'
    BY <1>0, <1>3, <2>1, AtSubmitted
  <2>3. \E k \in ack' + 1 .. Len(trbs') + 1 : At(k)'
    <3>1. PICK k \in ack' + 1 .. Len(trbs) + 1 : Denotes(deq', cs', k)
      OBVIOUS
    <3>2. k \in Int
      BY <1>3
    <3> QED
      BY <1>0, <1>1, <3>1, <3>2
  <2> QED
    BY <1>0, <1>5, <2>2, <2>3 DEF OutstandingIsKept
<1>8. ErrorIsBad' /\ NothingLeftBehind'
  BY <1>0 DEF ErrorIsBad, NothingLeftBehind
<1> QED
  BY <1>2, <1>4, <1>6, <1>7, <1>8

\* The TRB is done with and the worker goes on behind it.
LEMMA GoesOn ==
    ASSUME RingInv, worker = "wait", Completed, Advance, token => token',
           ack' \in 0 .. Len(trbs), ~Going' => ack' \in {ack, hot},
           sub.st # "error",
           \/ sub' = sub /\ (kind = "in" => sub.st = "collecting") /\ ack' = ack
           \/ sub'.trbs = <<>>
    PROVE  RingRules'
<1>0. /\ UNCHANGED <<kind, mem, trbs, handle, cmds, parser>> /\ worker' = "look"
      /\ deq' = deq + 1 /\ cs' = cs
  BY DEF Completed, guest, Advance
<1>1. \A k \in Int : At(k)' <=> Denotes(deq', cs', k)
  BY <1>0, Kept
<1>2. /\ hot \in 1 .. Len(trbs) /\ hot \in Nat /\ hot >= 1
      /\ Denotes(deq', cs', hot + 1)
      /\ ~Going => hot > ack
  BY <1>0, AtSubmitted
<1>3. Len(trbs) \in Nat /\ ack \in 0 .. Len(trbs)
  BY Typed
<1>4. ~Going' => ~Going
  BY <1>0 DEF Going
<1>5. hot + 1 \in 1 .. Len(trbs) + 1
  BY <1>2, <1>3
<1>6. ASSUME ~Going'
      PROVE  ack <= ack' /\ hot + 1 \in ack' + 1 .. Len(trbs) + 1
  <2>1. ack' = ack \/ ack' = hot
    BY <1>6
  <2>2. hot > ack
    BY <1>2, <1>4, <1>6
  <2>3. CASE ack' = ack
    BY <1>2, <1>3, <2>2, <2>3
  <2>4. CASE ack' = hot
    BY <1>2, <1>3, <2>2, <2>4
  <2> QED
    BY <2>1, <2>3, <2>4
<1>7. /\ MemoryIsQueued' /\ TdsAreWhole' /\ PlaceIsQueued' /\ MoveIsAlone'
      /\ OutstandingIsKept' /\ ErrorIsBad' /\ NothingLeftBehind'
  BY <1>0, <1>2, <1>5, <1>6, Ended
<1>8. CollectsTd'
  <2> SUFFICES ASSUME kind = "in", ~token' PROVE CollectsTd'
    BY <1>0 DEF CollectsTd
  <2>1. CASE sub'.trbs = <<>>
    <3>1. Len(sub'.trbs) = 0
      BY <2>1
    <3> QED
      BY <1>0, <2>1, <3>1 DEF CollectsTd
  <2>2. CASE sub' = sub /\ sub.st = "collecting" /\ ack' = ack
    <3>1. /\ \A i \in 1 .. Len(sub.trbs) : sub.trbs[i] > ack /\ sub.trbs[i] <= Last
          /\ Last = hot /\ trbs[hot] = "chained"
      BY <2>2 DEF RingInv, RingRules, CollectsTd
    <3>2. Last' = hot
      BY <2>2, <3>1 DEF Last
    <3>3. At(Last + 1)'
      <4>1. /\ Usable' = Usable /\ Link' = Link
        BY <1>0, Kept
      <4> QED
        BY <1>0, <1>2, <3>2, <4>1 DEF At, Denotes, Place, Cycle
    <3> QED
      BY <1>0, <2>2, <3>1, <3>2, <3>3 DEF CollectsTd
  <2> QED
    BY <2>1, <2>2
<1>9. ParserFollows'
  <2> SUFFICES ASSUME kind = "control", handle', cmds' = 0 PROVE ParserFollows'
    BY <1>0 DEF ParserFollows
  <2>1. ParserAt(hot + 1)
    BY <1>0 DEF RingInv, RingRules, ParserFollows
  <2>2. \A p \in Int : ParserAt(p) => ParserAt(p)'
    BY <1>0 DEF ParserAt, Boundary
  <2>3. hot + 1 \in ack' + 1 .. Len(trbs') + 1
    BY <1>0, <1>6 DEF Going
  <2>4. PICK p \in ack' + 1 .. Len(trbs') + 1 : p = hot + 1
    BY <2>3
  <2>5. p \in Int
    BY <1>2, <2>4
  <2>6. At(p)' /\ ParserAt(p)'
    BY <1>1, <1>2, <2>1, <2>2, <2>4, <2>5
  <2> QED
    BY <1>0, <2>6 DEF ParserFollows
<1> QED
  BY <1>7, <1>8, <1>9 DEF RingRules

\* The endpoint halts at a TRB, or is in error.
LEMMA GivesUp ==
    ASSUME RingInv, worker = "wait", Completed, worker' \in {"halting", "failing"},
           token => token', ack' = ack,
           sub' = sub \/ sub'.trbs = <<>>, kind = "in" /\ ~token' => sub'.trbs = <<>>,
           \/ deq' = deq /\ cs' = cs
           \/ kind = "in" /\ \E i \in 1 .. Len(sub.trbs) :
                 deq' = Place(sub.trbs[i]) /\ cs' = mem[Place(sub.trbs[i])].cycle
    PROVE  RingRules'
<1>0. UNCHANGED <<kind, mem, trbs, handle, cmds, parser>>
  BY DEF Completed, guest
<1>1. /\ hot \in 1 .. Len(trbs) /\ hot \in Nat /\ hot >= 1
      /\ Denotes(deq, cs, hot)
      /\ ~Going => hot > ack /\ Len(trbs) - ack < Usable
  BY AtSubmitted
<1>2. /\ Len(trbs) \in Nat /\ ack \in 0 .. Len(trbs) /\ Shape /\ kind \in Kinds /\ Usable \in Nat
  BY Typed
<1>3. ~Going' => ~Going
  BY <1>0 DEF Going
<1>4. \E k \in 1 .. Len(trbs) : Denotes(deq', cs', k) /\ (~Going' => k > ack)
  <2>1. CASE deq' = deq /\ cs' = cs
    BY <1>1, <1>3, <2>1
  <2>2. ASSUME kind = "in", NEW i \in 1 .. Len(sub.trbs),
               deq' = Place(sub.trbs[i]), cs' = mem[Place(sub.trbs[i])].cycle
        PROVE  \E k \in 1 .. Len(trbs) : Denotes(deq', cs', k) /\ (~Going' => k > ack)
    <3> DEFINE k == sub.trbs[i]
               m == mem[Place(k)].trb
    <3>1. k \in 1 .. Len(trbs) /\ k \in Int
      BY <1>2, Typed
    <3>2. Place(k) \in Slot \ {Link}
      BY <1>2, <3>1, RingShape
    <3>3. /\ m # 0 => Place(m) = Place(k) /\ mem[Place(k)].cycle = Cycle(m)
          /\ k <= m
      BY <3>1, <3>2 DEF RingInv, RingRules, MemoryIsQueued
    <3>4. m \in Nat /\ m <= Len(trbs)
      BY <1>2, <3>2 DEF Shape, TypeOK, TrbsAreQueued
    <3>5. m \in 1 .. Len(trbs) /\ m # 0
      BY <1>2, <3>1, <3>3, <3>4
    <3>6. Denotes(deq', cs', m)
      BY <2>2, <3>3, <3>5 DEF Denotes
    <3>7. ASSUME ~Going' PROVE m > ack
      <4>1. ~token
        BY <1>3, <2>2, <3>7 DEF Going
      <4>2. k > ack
        BY <2>2, <4>1 DEF RingInv, RingRules, CollectsTd
      <4> HIDE DEF m, k
      <4> QED
        BY <1>2, <3>1, <3>3, <3>4, <4>2
    <3> HIDE DEF m
    <3> QED
      BY <3>5, <3>6, <3>7
  <2> QED
    BY <2>1, <2>2
<1>5. /\ \E k \in 1 .. Len(trbs) + 1 : Denotes(deq', cs', k)
      /\ ~Going' => /\ ack <= ack'
                    /\ \E k \in ack' + 1 .. Len(trbs) + 1 : Denotes(deq', cs', k)
  <2>1. PICK k \in 1 .. Len(trbs) : Denotes(deq', cs', k) /\ (~Going' => k > ack)
    BY <1>4
  <2>2. k \in 1 .. Len(trbs) + 1 /\ (~Going' => ack <= ack' /\ k \in ack' + 1 .. Len(trbs) + 1)
    BY <1>2, <2>1
  <2> QED
    BY <2>1, <2>2
<1>6. worker' \in {"look", "halting", "failing"} /\ ack' \in 0 .. Len(trbs)
  BY <1>2
<1>7. /\ MemoryIsQueued' /\ TdsAreWhole' /\ PlaceIsQueued' /\ MoveIsAlone'
      /\ OutstandingIsKept' /\ ErrorIsBad' /\ NothingLeftBehind'
  BY <1>5, <1>6, Ended
<1>8. CollectsTd'
  <2> SUFFICES ASSUME kind = "in", ~token' PROVE CollectsTd'
    BY <1>0 DEF CollectsTd
  <2>1. sub'.trbs = <<>> /\ Len(sub'.trbs) = 0
    OBVIOUS
  <2> QED
    BY <2>1 DEF CollectsTd
<1>9. ParserFollows'
  BY DEF ParserFollows
<1> QED
  BY <1>7, <1>8, <1>9 DEF RingRules

\* The driver's books after a completion.
LEMMA Booked ==
    ASSUME EndpointInv', Completed
    PROVE  ack' \in 0 .. Len(trbs) /\ trbs' = trbs
BY DEF EndpointInv, WorkerInv, ContextTellsTheTruth, TypeOK, Completed, guest

LEMMA IdleCollects == \A k : Idle(k).trbs = <<>>
BY DEF Idle

LEMMA DetachedRing ==
    ASSUME RingInv, EndpointInv', CompleteDetached
    PROVE  RingRules'
<1>1. /\ worker = "wait" /\ Completed /\ worker' = "halting" /\ deq' = deq /\ cs' = cs
      /\ token' = token /\ sub' = sub /\ Send({Event(hot, "fault")})
      /\ token \/ ~handle
  BY DEF CompleteDetached, HaltAt
<1>2. token
  BY <1>1 DEF RingInv, EndpointInv, WorkerInv, WaitingHasSubmitted
<1>3. ack' = ack
  BY <1>1, SendsNoSuccess DEF Event
<1>4. token'
  BY <1>1, <1>2
<1> QED
  BY <1>1, <1>3, <1>4, GivesUp

LEMMA LocalRing ==
    ASSUME RingInv, EndpointInv', CompleteLocally
    PROVE  RingRules'
<1>1. worker = "wait" /\ Completed /\ token' = token
  BY DEF CompleteLocally
<1>2. ack' \in 0 .. Len(trbs)
  BY <1>1, Booked
<1>3. token => token'
  BY <1>1
<1>4. CASE \/ sub.st = "consumed" /\ sub' = Idle(kind) /\ Send({}) /\ Advance
           \/ sub.st = "collecting" /\ UNCHANGED sub /\ Send({}) /\ Advance
  <2>1. ack' = ack
    BY <1>4, SendsNoSuccess
  <2>2. /\ sub.st # "error" /\ Advance
        /\ \/ sub' = sub /\ (kind = "in" => sub.st = "collecting") /\ ack' = ack
           \/ sub'.trbs = <<>>
    BY <1>4, <2>1, IdleCollects
  <2> QED
    BY <1>1, <1>2, <1>3, <2>1, <2>2, GoesOn
<1>5. CASE /\ sub.st = "error" /\ sub' = Idle(kind)
           /\ Send(IF kind = "in" THEN {} ELSE {Event(hot, "trberror")})
           /\ TrbError
  <2>1. ack' = ack
    <3> DEFINE events == IF kind = "in" THEN {} ELSE {Event(hot, "trberror")}
    <3>1. Send(events) /\ \A e \in events : e.code \notin {"success", "short"}
      BY <1>5 DEF Event
    <3> HIDE DEF events
    <3> QED
      BY <3>1, SendsNoSuccess
  <2>2. worker' = "failing" /\ deq' = deq /\ cs' = cs /\ sub'.trbs = <<>>
    BY <1>5, IdleCollects DEF TrbError, ring
  <2> QED
    BY <1>1, <1>3, <2>1, <2>2, GivesUp
<1> QED
  BY <1>4, <1>5 DEF CompleteLocally

LEMMA TransferRing ==
    ASSUME RingInv, EndpointInv', CompleteTransfer
    PROVE  RingRules'
<1>1. worker = "wait" /\ kind \in {"control", "out"} /\ sub.st = "awaiting"
  BY DEF CompleteTransfer
<1>0. PICK r \in Results :
          IF r.status = "success" /\ r.dir # sub.dir
          THEN /\ Die
               /\ out' = {} /\ UNCHANGED <<ack, ring, ctx, hot, guest, chan, cmd, cmds, hotplug,
                                          parser>>
          ELSE /\ \/ /\ r.status = "success"
                     /\ Send({Event(hot, "success")}) /\ Advance
                  \/ /\ r.status # "success"
                     /\ Send({Event(hot, "fault")}) /\ HaltAt(deq, cs)
               /\ token' = (token \/ r.status = "disconnect")
               /\ sub' = Idle(kind)
               /\ Completed
  BY DEF CompleteTransfer
<1>2. CASE r.status = "success" /\ r.dir # sub.dir
  <2>1. /\ worker' = "dead"
        /\ UNCHANGED <<kind, mem, trbs, rung, ack, deq, cs, hot, chan, cmds, handle, token, parser, sub>>
    BY <1>0, <1>2 DEF Die, guest, ring, hotplug
  <2>2. \A i \in 1 .. Len(chan') : chan'[i].op # "setdeq"
    BY <1>1, <2>1, AtSubmitted
  <2>3. Stays
    BY <1>1, <2>1, <2>2 DEF Stays
  <2> QED
    BY <2>3, Staying
<1>3. CASE ~(r.status = "success" /\ r.dir # sub.dir)
  <2>1. /\ IF r.status = "success"
           THEN Send({Event(hot, "success")}) /\ Advance
           ELSE Send({Event(hot, "fault")}) /\ HaltAt(deq, cs)
        /\ token' = (token \/ r.status = "disconnect")
        /\ sub' = Idle(kind)
        /\ Completed
    BY <1>0, <1>3
  <2>2. token => token'
    BY <2>1
  <2>3. sub'.trbs = <<>> /\ ack' \in 0 .. Len(trbs)
    BY <2>1, IdleCollects, Booked
  <2>4. CASE r.status = "success"
    <3>1. Send({Event(hot, "success")}) /\ Advance /\ hot \in Nat
      BY <1>1, <2>1, <2>4, AtSubmitted
    <3>2. ack' = hot
      BY <3>1, SendsOneSuccess
    <3> QED
      BY <1>1, <2>1, <2>2, <2>3, <3>1, <3>2, GoesOn
  <2>5. CASE r.status # "success"
    <3>1. Send({Event(hot, "fault")}) /\ HaltAt(deq, cs)
      BY <2>1, <2>5
    <3>2. ack' = ack
      BY <3>1, SendsNoSuccess DEF Event
    <3>3. worker' = "halting" /\ deq' = deq /\ cs' = cs
      BY <3>1 DEF HaltAt
    <3> QED
      BY <1>1, <2>1, <2>2, <2>3, <3>2, <3>3, GivesUp
  <2> QED
    BY <2>4, <2>5
<1> QED
  BY <1>2, <1>3

LEMMA InRing ==
    ASSUME RingInv, EndpointInv', CompleteIn
    PROVE  RingRules'
<1> DEFINE status == Head(responses).status
<1>1. /\ worker = "wait" /\ kind = "in" /\ sub.st = "awaiting" /\ Completed
      /\ sub'.trbs = <<>>
  BY IdleCollects DEF CompleteIn
<1>2. ack' \in 0 .. Len(trbs)
  BY <1>1, Booked
<1>3. /\ Len(sub.trbs) \in 1 .. Len(sub.trbs) /\ Last \in Nat
      /\ \A i \in 1 .. Len(sub.trbs) : sub.trbs[i] \in Nat
      /\ \A i \in 1 .. Len(sub.trbs) : ~token => sub.trbs[i] <= Last
      /\ ~token => Last = hot
  <2>1. /\ Len(sub.trbs) \in Nat /\ \A i \in 1 .. Len(sub.trbs) : sub.trbs[i] \in 1 .. Len(trbs)
        /\ sub.trbs # <<>> /\ Len(trbs) \in Nat /\ sub.trbs \in Seq(Nat)
    BY <1>1, Typed DEF RingInv, EndpointInv, WorkerInv, TrbsAreQueued, TypeOK
  <2>2. Len(sub.trbs) \in 1 .. Len(sub.trbs)
    BY <2>1, EmptySeq
  <2> QED
    BY <1>1, <2>1, <2>2 DEF RingInv, RingRules, CollectsTd, Last
<1>4. CASE Send({Event(Last, "success")}) /\ Advance /\ UNCHANGED token
  <2>1. ack' = Last
    BY <1>3, <1>4, SendsOneSuccess
  <2>2. ~Going' => ack' \in {ack, hot}
    <3>1. ~Going' => ~token
      BY <1>1, <1>4 DEF Going, Completed, guest
    <3> QED
      BY <1>3, <2>1, <3>1
  <2>3. token => token'
    BY <1>4
  <2> QED
    BY <1>1, <1>2, <1>4, <2>2, <2>3, GoesOn
<1>5. ASSUME NEW i \in 1 .. Len(sub.trbs),
             Send({Event(sub.trbs[i], "short"), Event(Last, "short")}), Advance, UNCHANGED token
      PROVE  RingRules'
  <2>1. ~token => ack' = Last
    BY <1>3, <1>5, SendsSuccess
  <2>2. ~Going' => ack' \in {ack, hot}
    <3>1. ~Going' => ~token
      BY <1>1, <1>5 DEF Going, Completed, guest
    <3> QED
      BY <1>3, <2>1, <3>1
  <2>3. token => token'
    BY <1>5
  <2> QED
    BY <1>1, <1>2, <1>5, <2>2, <2>3, GoesOn
<1>6. ASSUME NEW i \in 1 .. Len(sub.trbs), Send({Event(sub.trbs[i], "fault")}),
             \/ RewindTo(sub.trbs[i]) /\ UNCHANGED token
             \/ HaltAt(deq, cs) /\ token' = TRUE
      PROVE  RingRules'
  <2>1. ack' = ack
    BY <1>6, SendsNoSuccess DEF Event
  <2>2. token => token'
    BY <1>6
  <2>3. /\ worker' = "halting"
        /\ \/ deq' = deq /\ cs' = cs
           \/ deq' = Place(sub.trbs[i]) /\ cs' = mem[Place(sub.trbs[i])].cycle
    BY <1>6 DEF RewindTo, HaltAt
  <2> QED
    BY <1>1, <2>1, <2>2, <2>3, GivesUp
<1> QED
  BY <1>4, <1>5, <1>6 DEF CompleteIn, Last

-----------------------------------------------------------------------------
(* Moves of the pointer by the driver *)

LEMMA MoveRing ==
    ASSUME RingInv, ReceiveSetDeq, worker \in {"error", "continuable", "stopped"}
    PROVE  RingRules'
<1> DEFINE k == Head(chan).trb
<1>1. /\ Receive("setdeq") /\ "setdeq" \in Commands /\ cmd' = None
      /\ UNCHANGED <<kind, mem, trbs, rung, cmds, hot, handle, token, parser, sub>>
      /\ deq' = Place(k) /\ cs' = Cycle(k) /\ worker' = "stopped" /\ ack' = k - 1
  BY DEF ReceiveSetDeq, guest, hotplug, inner, Commands
<1>2. k \in 1 .. Len(trbs) + 1 /\ cmds' # 0
  BY <1>1, CommandTaken DEF RingInv, EndpointInv
<1>3. \A i \in 1 .. Len(chan') : chan'[i].op # "setdeq"
  BY <1>1, TakenOff
<1>4. /\ Len(trbs) \in Nat /\ ack \in 0 .. Len(trbs) /\ Usable \in Nat /\ Usable' = Usable
      /\ k \in Int /\ chan \in Seq(Message)
  BY <1>1, <1>2, Typed, Kept
<1>5. ~Going => k > ack /\ Len(trbs) - ack < Usable
  <2>1. chan # <<>> /\ Head(chan).op = "setdeq"
    BY <1>1 DEF Receive
  <2>2. Head(chan) = chan[1] /\ 1 \in 1 .. Len(chan)
    BY <1>4, <2>1, Taking
  <2> QED
    BY <2>1, <2>2 DEF RingInv, RingRules, OutstandingIsKept
<1> HIDE DEF k
<1>6. MemoryIsQueued' /\ TdsAreWhole'
  BY <1>1, StillQueued
<1>7. PlaceIsQueued'
  <2>1. \E j \in 1 .. Len(trbs') + 1 : At(j)'
    <3>1. Denotes(deq', cs', k)
      BY <1>1 DEF Denotes
    <3> QED
      BY <1>1, <1>2, <1>4, <3>1, Kept
  <2> QED
    BY <1>1, <2>1 DEF RingInv, RingRules, PlaceIsQueued
<1>8. OutstandingIsKept'
  <2> SUFFICES ASSUME ~Going' PROVE OutstandingIsKept'
    BY DEF OutstandingIsKept
  <2>1. ~Going
    BY <1>1 DEF Going
  <2>2. Len(trbs') - ack' < Usable'
    BY <1>1, <1>4, <1>5, <2>1
  <2>3. \E j \in ack' + 1 .. Len(trbs') + 1 : At(j)'
    <3>1. Denotes(deq', cs', k)
      BY <1>1 DEF Denotes
    <3>2. k \in ack' + 1 .. Len(trbs') + 1
      BY <1>1, <1>2, <1>4
    <3> QED
      BY <1>1, <1>4, <3>1, <3>2, Kept
  <2> QED
    BY <1>1, <1>3, <2>2, <2>3 DEF OutstandingIsKept
<1>9. CollectsTd'
  <2> SUFFICES ASSUME kind = "in", ~token' PROVE CollectsTd'
    BY <1>1 DEF CollectsTd
  <2>1. ~token
    BY <1>1
  <2>2. sub'.trbs = <<>>
    BY <1>1, <2>1 DEF RingInv, RingRules, CollectsTd
  <2>3. Len(sub'.trbs) = 0
    BY <2>2
  <2> QED
    BY <1>1, <2>2, <2>3 DEF CollectsTd
<1>10. MoveIsAlone' /\ ParserFollows' /\ ErrorIsBad' /\ NothingLeftBehind'
  BY <1>1, <1>2, <1>3 DEF MoveIsAlone, ParserFollows, ErrorIsBad, NothingLeftBehind
<1> QED
  BY <1>6, <1>7, <1>8, <1>9, <1>10 DEF RingRules

-----------------------------------------------------------------------------
(* The worker looks for a TRB *)

\* What a search leaves alone, and that the pointer denotes the same TRB after it.
LEMMA Searching ==
    ASSUME RingInv, LookForTrb
    PROVE  /\ UNCHANGED <<kind, mem, trbs, rung, ack, chan, cmds, handle, token>>
           /\ worker = "look" /\ hot = None
           /\ deq' = NextTrb[1] /\ cs' = NextTrb[2]
           /\ \A k \in Nat \ {0} : At(k)' <=> At(k)
           /\ \A k \in Nat \ {0} : At(k)' <=> Denotes(deq', cs', k)
           /\ \A i \in 1 .. Len(chan') : chan'[i].op # "setdeq"
           /\ Usable' = Usable
<1>1. /\ UNCHANGED <<kind, mem, trbs, rung, ack, chan, cmds, handle, token>>
      /\ worker = "look" /\ deq' = NextTrb[1] /\ cs' = NextTrb[2]
  BY DEF LookForTrb, guest, hotplug
<1>2. hot = None
  BY <1>1 DEF RingInv, EndpointInv, WorkerInv, WaitingHasSubmitted
<1>3. /\ \A k \in Int : At(k)' <=> Denotes(deq', cs', k)
      /\ Usable' = Usable
  BY <1>1, Kept
<1>4. ASSUME NEW k \in Nat \ {0}
      PROVE  (At(k)' <=> At(k)) /\ (At(k)' <=> Denotes(deq', cs', k))
  <2>1. k \in Nat /\ k \in Int /\ k >= 1 /\ TypeOK
    BY Typed
  <2>2. At(k) <=> Denotes(NextTrb[1], NextTrb[2], k)
    BY <2>1, Following
  <2> QED
    BY <1>1, <1>3, <2>1, <2>2
<1>5. \A i \in 1 .. Len(chan') : chan'[i].op # "setdeq"
  BY <1>1 DEF RingInv, RingRules, MoveIsAlone
<1> QED
  BY <1>1, <1>2, <1>3, <1>4, <1>5

\* A worker that finds no TRB was at none that the driver has queued.
LEMMA SleepRing ==
    ASSUME RingInv, LookForTrb, ~Fresh(NextTrb[1], NextTrb[2])
    PROVE  RingRules'
<1>1. /\ UNCHANGED <<kind, mem, trbs, rung, ack, chan, cmds, handle, token>>
      /\ worker = "look" /\ hot = None /\ Usable' = Usable
      /\ \A k \in Nat \ {0} : At(k)' <=> At(k)
      /\ \A i \in 1 .. Len(chan') : chan'[i].op # "setdeq"
  BY Searching
<1>2. worker' = "doorbell" /\ UNCHANGED <<hot, parser, sub>>
  BY DEF LookForTrb, inner
<1>3. /\ Len(trbs) \in Nat /\ ack \in 0 .. Len(trbs) /\ rung \in 0 .. Len(trbs) /\ Shape
      /\ Usable \in Nat
      /\ Len(sub.trbs) \in Nat /\ \A i \in 1 .. Len(sub.trbs) : sub.trbs[i] \in 1 .. Len(trbs)
  BY Typed
<1>4. MemoryIsQueued' /\ TdsAreWhole'
  BY <1>1, StillQueued
<1>5. PlaceIsQueued'
  <2>1. PICK k \in 1 .. Len(trbs) + 1 : At(k)
    BY DEF RingInv, RingRules, PlaceIsQueued
  <2>2. k \in Nat \ {0}
    BY <1>3
  <2>3. At(k)'
    BY <1>1, <2>1, <2>2
  <2> QED
    BY <1>1, <1>2, <2>3 DEF RingInv, RingRules, PlaceIsQueued
<1>6. OutstandingIsKept'
  <2> SUFFICES ASSUME ~Going' PROVE OutstandingIsKept'
    BY DEF OutstandingIsKept
  <2>1. ~Going
    BY <1>1 DEF Going
  <2>2. PICK k \in ack + 1 .. Len(trbs) + 1 : At(k)
    BY <2>1 DEF RingInv, RingRules, OutstandingIsKept
  <2>3. k \in Nat \ {0}
    BY <1>3
  <2>4. At(k)'
    BY <1>1, <2>2, <2>3
  <2> QED
    BY <1>1, <1>2, <2>1, <2>4 DEF RingInv, RingRules, OutstandingIsKept
<1>7. ASSUME ~Going, NEW k \in ack + 1 .. Len(trbs)
      PROVE  ~At(k)
  <2>1. Len(trbs) - ack < Usable
    BY <1>7 DEF RingInv, RingRules, OutstandingIsKept
  <2>2. k \in 1 .. Len(trbs) /\ Len(trbs) - k + 1 < Usable
    BY <1>3, <2>1
  <2> QED
    BY <1>3, <2>2, Found
<1>8. NothingLeftBehind'
  <2> SUFFICES ASSUME ~Going, NEW k \in ack + 1 .. rung
               PROVE  ~At(k)'
    BY <1>1 DEF NothingLeftBehind, Going
  <2>1. k \in ack + 1 .. Len(trbs) /\ k \in Nat \ {0}
    BY <1>3
  <2> QED
    BY <1>1, <1>7, <2>1
<1>9. CollectsTd'
  <2> SUFFICES ASSUME kind = "in", ~token PROVE CollectsTd'
    BY <1>1 DEF CollectsTd
  <2>1. sub.trbs = <<>>
    <3> SUFFICES ASSUME sub.trbs # <<>> PROVE FALSE
      OBVIOUS
    <3>1. /\ At(Last + 1) /\ trbs[Last] = "chained"
          /\ \A i \in 1 .. Len(sub.trbs) : sub.trbs[i] > ack
      BY <1>1 DEF RingInv, RingRules, CollectsTd
    <3>2. Len(sub.trbs) \in 1 .. Len(sub.trbs)
      BY <1>3, Typed, EmptySeq DEF TypeOK
    <3>3. Last \in 1 .. Len(trbs) /\ Last > ack
      BY <1>3, <3>1, <3>2 DEF Last
    <3>4. Last # Len(trbs)
      <4>1. Len(trbs) + 1 # 1 => trbs[(Len(trbs) + 1) - 1] \in EndsTd
        BY DEF RingInv, RingRules, TdsAreWhole, Boundary
      <4>2. Last = Len(trbs) => trbs[Last] \in EndsTd
        BY <1>3, <3>3, <4>1
      <4> QED
        BY <3>1, <4>2 DEF EndsTd
    <3>5. Last + 1 \in ack + 1 .. Len(trbs)
      BY <1>3, <3>3, <3>4
    <3> QED
      BY <1>7, <3>1, <3>5 DEF Going
  <2>2. sub'.trbs = <<>> /\ Len(sub'.trbs) = 0
    BY <1>2, <2>1
  <2> QED
    BY <1>2, <2>2 DEF CollectsTd
<1>10. ParserFollows'
  <2> SUFFICES ASSUME kind = "control", handle, cmds = 0 PROVE ParserFollows'
    BY <1>1 DEF ParserFollows
  <2>1. PICK p \in ack + 1 .. Len(trbs) + 1 : At(p) /\ ParserAt(p)
    BY <1>1 DEF RingInv, RingRules, ParserFollows
  <2>2. p \in Nat \ {0}
    BY <1>3
  <2>3. At(p)' /\ ParserAt(p)'
    BY <1>1, <1>2, <2>1, <2>2 DEF ParserAt, Boundary
  <2>4. \E q \in ack' + 1 .. Len(trbs') + 1 : At(q)' /\ ParserAt(q)'
    BY <1>1, <2>3
  <2> QED
    BY <1>2, <2>4 DEF ParserFollows
<1>11. MoveIsAlone' /\ ErrorIsBad'
  BY <1>1, <1>2 DEF MoveIsAlone, ErrorIsBad
<1> QED
  BY <1>4, <1>5, <1>6, <1>8, <1>9, <1>10, <1>11 DEF RingRules

\* What a worker takes for a TRB is the one the driver waits for.
LEMMA Submitting ==
    ASSUME RingInv, LookForTrb, Fresh(NextTrb[1], NextTrb[2])
    PROVE  /\ mem[NextTrb[1]].trb \in 1 .. Len(trbs) /\ hot' = mem[NextTrb[1]].trb
           /\ deq' = Place(hot') /\ cs' = Cycle(hot')
           /\ ~Going => hot' > ack
           /\ ~Going => \A p \in ack + 1 .. Len(trbs) + 1 : At(p) => p = hot'
<1> DEFINE m == mem[NextTrb[1]].trb
<1>1. /\ deq' = NextTrb[1] /\ cs' = NextTrb[2] /\ hot = None
  BY Searching
<1>2. hot' = m
  BY <1>1 DEF LookForTrb
<1>3. Len(trbs) \in Nat /\ ack \in 0 .. Len(trbs) /\ Shape /\ Usable \in Nat
  BY Typed
<1>4. PICK k \in 1 .. Len(trbs) + 1 : At(k)
  BY DEF RingInv, RingRules, PlaceIsQueued
<1>5. m \in k .. Len(trbs) /\ NextTrb[1] = Place(m) /\ NextTrb[2] = Cycle(m)
  BY <1>3, <1>4, Taken
<1>6. ASSUME ~Going, NEW p \in ack + 1 .. Len(trbs) + 1, At(p)
      PROVE  p = m
  <2>1. Len(trbs) - ack < Usable
    BY <1>6 DEF RingInv, RingRules, OutstandingIsKept
  <2>2. p \in 1 .. Len(trbs) + 1 /\ Len(trbs) - p + 1 < Usable
    BY <1>3, <2>1
  <2> QED
    BY <1>3, <1>6, <2>2, Taken
<1>7. ASSUME ~Going PROVE m > ack
  <2>1. PICK p \in ack + 1 .. Len(trbs) + 1 : At(p)
    BY <1>7 DEF RingInv, RingRules, OutstandingIsKept
  <2>2. p = m /\ p > ack
    BY <1>3, <1>6, <1>7, <2>1
  <2> QED
    BY <2>2
<1>8. m \in 1 .. Len(trbs)
  BY <1>3, <1>4, <1>5
<1> QED
  BY <1>1, <1>2, <1>5, <1>6, <1>7, <1>8

\* The parts of the invariant that do not depend on the kind of endpoint.
LEMMA Submitted ==
    ASSUME RingInv, LookForTrb, Fresh(NextTrb[1], NextTrb[2]),
           worker' \in {"wait", "dead"}, \A i \in 1 .. Len(sub'.trbs) : sub'.trbs[i] >= 1
    PROVE  /\ MemoryIsQueued' /\ TdsAreWhole' /\ PlaceIsQueued' /\ MoveIsAlone'
           /\ OutstandingIsKept' /\ NothingLeftBehind'
<1>1. /\ UNCHANGED <<kind, mem, trbs, rung, ack, chan, cmds, handle, token>>
      /\ worker = "look" /\ Usable' = Usable
      /\ \A k \in Nat \ {0} : At(k)' <=> Denotes(deq', cs', k)
      /\ \A i \in 1 .. Len(chan') : chan'[i].op # "setdeq"
  BY Searching
<1>2. /\ hot' \in 1 .. Len(trbs) /\ deq' = Place(hot') /\ cs' = Cycle(hot')
      /\ ~Going => hot' > ack
  BY Submitting
<1>3. Len(trbs) \in Nat /\ ack \in 0 .. Len(trbs) /\ Usable \in Nat
  BY Typed
<1>4. PICK k \in 1 .. Len(trbs) : k = hot'
  BY <1>2
<1>5. At(k)'
  <2>1. k \in Nat \ {0} /\ Denotes(deq', cs', k)
    BY <1>2, <1>3, <1>4 DEF Denotes
  <2> QED
    BY <1>1, <2>1
<1>6. MemoryIsQueued' /\ TdsAreWhole'
  BY <1>1, StillQueued
<1>7. PlaceIsQueued'
  <2>1. \E j \in 1 .. Len(trbs') + 1 : At(j)'
    BY <1>1, <1>3, <1>5
  <2>2. hot' \in 1 .. Len(trbs') /\ deq' = Place(hot)' /\ cs' = Cycle(hot)'
    BY <1>1, <1>2 DEF Place, Cycle
  <2> QED
    BY <2>1, <2>2 DEF PlaceIsQueued
<1>8. OutstandingIsKept'
  <2> SUFFICES ASSUME ~Going' PROVE OutstandingIsKept'
    BY DEF OutstandingIsKept
  <2>1. ~Going
    BY <1>1 DEF Going
  <2>2. k \in ack' + 1 .. Len(trbs') + 1
    BY <1>1, <1>2, <1>3, <1>4, <2>1
  <2>3. Len(trbs') - ack' < Usable'
    BY <1>1, <2>1 DEF RingInv, RingRules, OutstandingIsKept
  <2> QED
    BY <1>1, <1>2, <1>5, <2>1, <2>2, <2>3 DEF OutstandingIsKept
<1>9. MoveIsAlone' /\ NothingLeftBehind'
  BY <1>1 DEF MoveIsAlone, NothingLeftBehind
<1> QED
  BY <1>6, <1>7, <1>8, <1>9

\* A control TRB that is refused is malformed, unless a command has come between.
LEMMA ControlParses ==
    ASSUME RingInv, LookForTrb, Fresh(NextTrb[1], NextTrb[2]), handle, kind = "control",
           SubmitControl(mem[NextTrb[1]].trb)
    PROVE  ParserFollows' /\ ErrorIsBad'
<1> DEFINE k == mem[NextTrb[1]].trb
           next == Parse(trbs[k])
<1>1. /\ UNCHANGED <<kind, trbs, ack, cmds, handle>> /\ worker = "look"
  BY Searching
<1>2. /\ k \in 1 .. Len(trbs) /\ hot' = k /\ Len(trbs) \in Nat /\ k \in Nat
      /\ ~Going => \A p \in ack + 1 .. Len(trbs) + 1 : At(p) => p = k
  BY Submitting, Typed
<1>3. /\ worker' \in {"wait", "dead"} /\ parser' = IF next = None THEN parser ELSE next
      /\ worker' = "wait" /\ next = None => sub'.st = "error"
      /\ worker' = "wait" /\ next # None => sub'.st # "error"
  BY DEF SubmitControl, Request, Keep
<1> SUFFICES ASSUME cmds = 0 PROVE ParserFollows' /\ ErrorIsBad'
  BY <1>1 DEF ParserFollows, ErrorIsBad
<1>4. ParserAt(k)
  <2>1. PICK p \in ack + 1 .. Len(trbs) + 1 : At(p) /\ ParserAt(p)
    BY <1>1 DEF RingInv, RingRules, ParserFollows
  <2>2. p = k
    BY <1>2, <2>1 DEF Going
  <2> QED
    BY <2>1, <2>2
<1>5. /\ Boundary(k) => trbs[k] \in {"setup_in", "setup_out", "bad"}
      /\ k > 1 /\ trbs[k - 1] \in {"setup_in", "setup_out"} => trbs[k] \in {"data", "status"}
      /\ k > 1 /\ trbs[k - 1] = "data" => trbs[k] = "status"
  BY <1>2 DEF RingInv, RingRules, TdsAreWhole
<1>6. parser \in [st : {"initial", "setup", "data"}, dir : {"in", "out"}]
  BY Typed DEF TypeOK
<1> DEFINE t == trbs[k]
<1>7. /\ parser.st = "initial" => t \in {"setup_in", "setup_out", "bad"}
      /\ parser.st = "setup" => t \in {"data", "status"}
      /\ parser.st = "data" => t = "status"
  BY <1>4, <1>5 DEF ParserAt
<1> HIDE DEF t
<1>8. t # "bad" =>
         /\ Parse(t) \in [st : {"initial", "setup", "data"}, dir : {"in", "out"}]
         /\ Parse(t).st = "initial" => t = "status"
         /\ Parse(t).st = "setup" => t \in {"setup_in", "setup_out"}
         /\ Parse(t).st = "data" => t = "data"
  BY <1>6, <1>7 DEF Parse
<1>9. t = "bad" => Parse(t) = None
  BY <1>6, <1>7 DEF Parse
<1>10. ErrorIsBad'
  <2>1. next = None => trbs[k] = "bad"
    BY <1>8, NoneAssumption DEF t
  <2> QED
    BY <1>1, <1>2, <1>3, <2>1 DEF ErrorIsBad
<1>11. ParserFollows'
  <2> SUFFICES ASSUME worker' = "wait", sub'.st # "error" PROVE ParserAt(hot + 1)'
    BY <1>3 DEF ParserFollows
  <2>1. parser' = Parse(t) /\ t # "bad"
    BY <1>3, <1>9 DEF t
  <2>2. hot' + 1 > 1 /\ hot' + 1 # 1 /\ trbs'[(hot' + 1) - 1] = t
    BY <1>1, <1>2 DEF t
  <2>3. /\ parser'.st = "initial" => t \in EndsTd
        /\ parser'.st = "setup" => t \in {"setup_in", "setup_out"}
        /\ parser'.st = "data" => t = "data"
    BY <1>8, <2>1 DEF EndsTd
  <2> QED
    BY <2>2, <2>3 DEF ParserAt, Boundary
<1> QED
  BY <1>10, <1>11

\* An IN endpoint goes on with the TD that it is collecting.
LEMMA InCollects ==
    ASSUME RingInv, LookForTrb, Fresh(NextTrb[1], NextTrb[2]), handle, kind = "in",
           SubmitIn(mem[NextTrb[1]].trb)
    PROVE  CollectsTd' /\ ErrorIsBad' /\ \A i \in 1 .. Len(sub'.trbs) : sub'.trbs[i] >= 1
<1> DEFINE k == mem[NextTrb[1]].trb
<1>1. /\ UNCHANGED <<kind, trbs, ack, cmds, handle, token>> /\ worker = "look"
  BY Searching
<1>2. /\ k \in 1 .. Len(trbs) /\ hot' = k /\ Len(trbs) \in Nat /\ k \in Nat /\ k >= 1
      /\ ~Going => k > ack
      /\ ~Going => \A p \in ack + 1 .. Len(trbs) + 1 : At(p) => p = k
  BY Submitting, Typed
<1>3. /\ Len(sub.trbs) \in Nat /\ sub.trbs \in Seq(Nat) /\ ack \in 0 .. Len(trbs)
      /\ \A i \in 1 .. Len(sub.trbs) : sub.trbs[i] \in 1 .. Len(trbs)
      /\ sub \in [st : {"idle", "collecting", "consumed", "awaiting", "error"},
                  trbs : Seq(Nat), dir : {"in", "out"}]
  BY Typed DEF TypeOK
<1>4. ~token => sub.st = "collecting"
  BY <1>1 DEF RingInv, EndpointInv, WorkerInv, WithdrawsWhole
<1>5. ~token => \A i \in 1 .. Len(sub.trbs) : sub.trbs[i] > ack /\ sub.trbs[i] <= Last
  BY DEF RingInv, RingRules, CollectsTd
<1>6. CASE worker' = "dead" /\ sub' = sub
  BY <1>1, <1>3, <1>5, <1>6 DEF CollectsTd, ErrorIsBad, Last
<1>7. CASE sub.st = "collecting" /\ trbs[k] = "bad"
  <2>1. worker' = "wait" /\ sub' = [sub EXCEPT !.st = "error"]
    BY <1>7 DEF SubmitIn, Keep
  <2>2. sub'.trbs = sub.trbs /\ sub'.st = "error" /\ Last' = Last
    BY <1>3, <2>1 DEF Last
  <2>3. \A i \in 1 .. Len(sub'.trbs) : sub'.trbs[i] >= 1
    BY <1>3, <2>2
  <2>4. ~token => \A i \in 1 .. Len(sub'.trbs) : sub'.trbs[i] > ack' /\ sub'.trbs[i] <= Last'
    BY <1>1, <1>5, <2>2
  <2> QED
    BY <1>1, <1>2, <1>7, <2>1, <2>2, <2>3, <2>4 DEF CollectsTd, ErrorIsBad
<1>8. CASE /\ worker' = "wait" /\ sub.st = "collecting" /\ trbs[k] # "bad"
           /\ sub' = IF trbs[k] = "chained" THEN [sub EXCEPT !.trbs = Append(@, k)]
                     ELSE [sub EXCEPT !.trbs = Append(@, k), !.st = "awaiting"]
  <2>2. /\ sub'.trbs = Append(sub.trbs, k) /\ sub'.st # "error"
        /\ sub'.st = "collecting" => trbs[k] = "chained"
    BY <1>3, <1>8
  <2>3. /\ Len(sub'.trbs) = Len(sub.trbs) + 1 /\ sub'.trbs[Len(sub.trbs) + 1] = k
        /\ \A i \in 1 .. Len(sub.trbs) : sub'.trbs[i] = sub.trbs[i]
    BY <1>2, <1>3, <2>2, AppendProperties
  <2>4. \A i \in 1 .. Len(sub'.trbs) : i \in 1 .. Len(sub.trbs) \/ i = Len(sub.trbs) + 1
    BY <1>3, <2>3
  <2>5. ASSUME NEW i \in 1 .. Len(sub'.trbs) PROVE sub'.trbs[i] >= 1
    <3>1. CASE i = Len(sub.trbs) + 1
      BY <1>2, <2>3, <3>1
    <3>2. CASE i \in 1 .. Len(sub.trbs)
      <4>1. sub.trbs[i] \in 1 .. Len(trbs)
        BY <1>3, <3>2
      <4> QED
        BY <1>2, <2>3, <3>2, <4>1
    <3> QED
      BY <2>4, <3>1, <3>2
  <2>6. Last' = k /\ sub'.trbs # <<>>
    BY <1>3, <2>3 DEF Last
  <2>7. ASSUME ~token, NEW i \in 1 .. Len(sub'.trbs)
        PROVE  sub'.trbs[i] > ack /\ sub'.trbs[i] <= k
    <3>1. CASE i = Len(sub.trbs) + 1
      BY <1>2, <2>3, <2>7, <3>1 DEF Going
    <3>2. CASE i \in 1 .. Len(sub.trbs)
      <4>1. sub.trbs[i] > ack /\ sub.trbs[i] <= Last
        BY <1>5, <2>7, <3>2
      <4>2. Len(sub.trbs) \in 1 .. Len(sub.trbs) /\ sub.trbs # <<>>
        BY <1>3, <3>2
      <4>3. Last \in 1 .. Len(trbs) /\ Last > ack /\ At(Last + 1)
        BY <1>1, <1>3, <1>5, <2>7, <4>2 DEF Last, RingInv, RingRules, CollectsTd
      <4>4. Last + 1 \in ack + 1 .. Len(trbs) + 1
        BY <1>2, <1>3, <4>3
      <4>5. Last + 1 = k
        BY <1>2, <2>7, <4>3, <4>4 DEF Going
      <4> QED
        BY <1>2, <1>3, <2>3, <3>2, <4>1, <4>3, <4>5
    <3> QED
      BY <2>4, <3>1, <3>2
  <2> QED
    BY <1>1, <1>2, <1>8, <2>2, <2>5, <2>6, <2>7 DEF CollectsTd, ErrorIsBad
<1> QED
  BY <1>6, <1>7, <1>8 DEF SubmitIn, Keep, Request, Die

LEMMA LookRing ==
    ASSUME RingInv, EndpointInv', LookForTrb
    PROVE  RingRules'
<1> DEFINE k == mem[NextTrb[1]].trb
<1>1. CASE ~Fresh(NextTrb[1], NextTrb[2])
  BY <1>1, SleepRing
<1>2. CASE Fresh(NextTrb[1], NextTrb[2])
  <2>1. /\ \/ ~handle /\ worker' = "wait" /\ UNCHANGED inner
           \/ handle /\ kind = "control" /\ SubmitControl(k)
           \/ handle /\ kind = "out" /\ SubmitOut(k)
           \/ handle /\ kind = "in" /\ SubmitIn(k)
        /\ UNCHANGED <<kind, handle, token, trbs, cmds>> /\ hot' = k
    BY <1>2, Searching DEF LookForTrb
  <2>2. k \in 1 .. Len(trbs) /\ k >= 1 /\ <<k>>[1] = k /\ Len(<<k>>) = 1
    BY <1>2, Submitting, Typed
  <2>3. \A i \in 1 .. Len(sub.trbs) : sub.trbs[i] >= 1
    BY DEF RingInv, RingRules, PlaceIsQueued
  <2> HIDE DEF k
  <2>4. /\ worker' \in {"wait", "dead"}
        /\ \A i \in 1 .. Len(sub'.trbs) : sub'.trbs[i] >= 1
        /\ CollectsTd' /\ ParserFollows' /\ ErrorIsBad'
    <3>1. CASE ~handle /\ worker' = "wait" /\ UNCHANGED inner
      <4>1. token /\ token' = token /\ handle' = handle /\ ~handle /\ sub' = sub
        BY <2>1, <3>1 DEF RingInv, EndpointInv, WorkerInv, WaitingHasSubmitted, inner
      <4>2. token' /\ ~handle'
        BY <4>1
      <4> QED
        BY <2>3, <3>1, <4>1, <4>2 DEF CollectsTd, ParserFollows, ErrorIsBad
    <3>2. CASE handle /\ kind = "control" /\ SubmitControl(k)
      <4>1. ParserFollows' /\ ErrorIsBad'
        BY <1>2, <3>2, ControlParses DEF k
      <4>2. worker' \in {"wait", "dead"} /\ (sub'.trbs = <<k>> \/ sub' = sub)
        BY <3>2 DEF SubmitControl, Request, Keep
      <4>3. \A i \in 1 .. Len(sub'.trbs) : sub'.trbs[i] >= 1
        BY <2>2, <2>3, <4>2
      <4> QED
        BY <2>1, <3>2, <4>1, <4>2, <4>3 DEF CollectsTd
    <3>3. CASE handle /\ kind = "out" /\ SubmitOut(k)
      <4>1. CollectsTd' /\ ParserFollows'
        BY <2>1, <3>3 DEF CollectsTd, ParserFollows
      <4>2. sub \in [st : {"idle", "collecting", "consumed", "awaiting", "error"},
                     trbs : Seq(Nat), dir : {"in", "out"}]
        BY Typed DEF TypeOK
      <4>3. /\ worker' \in {"wait", "dead"} /\ sub'.trbs \in {sub.trbs, <<k>>}
            /\ worker' = "wait" /\ sub'.st = "error" => trbs[k] = "bad"
        <5>1. CASE sub.st # "idle"
          BY <3>3, <5>1 DEF SubmitOut, Die
        <5>2. CASE sub.st = "idle"
          BY <3>3, <4>2, <5>2 DEF SubmitOut, Die, Keep, Request
        <5> QED
          BY <5>1, <5>2
      <4>4. \A i \in 1 .. Len(sub'.trbs) : sub'.trbs[i] >= 1
        BY <2>2, <2>3, <4>3
      <4> QED
        BY <2>1, <4>1, <4>3, <4>4 DEF ErrorIsBad
    <3>4. CASE handle /\ kind = "in" /\ SubmitIn(k)
      <4>1. CollectsTd' /\ ErrorIsBad' /\ \A i \in 1 .. Len(sub'.trbs) : sub'.trbs[i] >= 1
        BY <1>2, <3>4, InCollects DEF k
      <4>2. worker' \in {"wait", "dead"}
        BY <3>4 DEF SubmitIn, Die, Keep, Request
      <4> QED
        BY <2>1, <3>4, <4>1, <4>2 DEF ParserFollows
    <3> QED
      BY <2>1, <3>1, <3>2, <3>3, <3>4
  <2>5. /\ MemoryIsQueued' /\ TdsAreWhole' /\ PlaceIsQueued' /\ MoveIsAlone'
        /\ OutstandingIsKept' /\ NothingLeftBehind'
    BY <1>2, <2>4, Submitted
  <2> QED
    BY <2>4, <2>5 DEF RingRules
<1> QED
  BY <1>1, <1>2

-----------------------------------------------------------------------------
(* The driver queues a TD *)

\* A TD follows what has been queued, and there is a slot to spare.
LEMMA Queued ==
    ASSUME RingInv, NEW td \in Tds[kind], QueueTd(td)
    PROVE  /\ UNCHANGED <<kind, rung, ack, deq, cs, worker, chan, cmds, hot, handle, token, parser, sub>>
           /\ Len(trbs') = Len(trbs) + Len(td) /\ Len(td) \in Nat /\ Len(td) >= 1
           /\ Len(trbs) + Len(td) - ack < Usable
           /\ \A i \in 1 .. Len(trbs) : trbs'[i] = trbs[i]
           /\ \A i \in 1 .. Len(td) : trbs'[Len(trbs) + i] = td[i]
           /\ td[Len(td)] \in EndsTd
           /\ kind = "control" => td \in {<<"setup_out", "status">>, <<"setup_in", "data", "status">>, <<"bad">>}
<1>1. /\ UNCHANGED <<kind, rung, ack, deq, cs, worker, chan, cmds, hot, handle, token, parser, sub>>
      /\ trbs' = trbs \o td /\ Len(trbs) + Len(td) - ack < Usable
  BY DEF QueueTd, ring, hotplug, inner
<1>2. kind \in {"control", "out", "in"} /\ trbs \in Seq(TrbTypes[kind]) /\ td \in Seq(TrbTypes[kind])
  BY Typed, KindsAssumption, TdsAreTrbs DEF TypeOK
<1>3. Len(td) \in Nat /\ Len(td) >= 1 /\ td[Len(td)] \in EndsTd
  <2>1. \/ td \in {<<"setup_out", "status">>, <<"setup_in", "data", "status">>, <<"bad">>}
        \/ td \in {<<"normal">>, <<"todo">>, <<"chained", "normal">>, <<"chained", "todo">>}
    BY <1>2 DEF Tds
  <2>2. ASSUME NEW a \in EndsTd, td = <<a>>
        PROVE  Len(td) \in Nat /\ Len(td) >= 1 /\ td[Len(td)] \in EndsTd
    BY <2>2
  <2>3. ASSUME NEW a, NEW b \in EndsTd, td = <<a, b>>
        PROVE  Len(td) \in Nat /\ Len(td) >= 1 /\ td[Len(td)] \in EndsTd
    BY <2>3
  <2>4. CASE td = <<"setup_in", "data", "status">>
    BY <2>4 DEF EndsTd
  <2>5. {"normal", "status", "bad", "todo"} = EndsTd
    BY DEF EndsTd
  <2> QED
    BY <2>1, <2>2, <2>3, <2>4, <2>5
<1>4. /\ Len(trbs') = Len(trbs) + Len(td) /\ Len(trbs) \in Nat
      /\ \A i \in 1 .. Len(trbs) + Len(td) :
            trbs'[i] = IF i <= Len(trbs) THEN trbs[i] ELSE td[i - Len(trbs)]
  BY <1>1, <1>2, ConcatProperties
<1>5. ASSUME NEW i \in 1 .. Len(trbs) PROVE trbs'[i] = trbs[i]
  BY <1>3, <1>4
<1>6. ASSUME NEW i \in 1 .. Len(td) PROVE trbs'[Len(trbs) + i] = td[i]
  <2>1. /\ Len(trbs) + i \in 1 .. Len(trbs) + Len(td) /\ ~(Len(trbs) + i <= Len(trbs))
        /\ (Len(trbs) + i) - Len(trbs) = i
    BY <1>3, <1>4
  <2> QED
    BY <1>4, <2>1
<1>7. kind = "control" => td \in {<<"setup_out", "status">>, <<"setup_in", "data", "status">>, <<"bad">>}
  BY DEF Tds
<1> QED
  BY <1>1, <1>3, <1>4, <1>5, <1>6, <1>7

LEMMA QueueMemory ==
    ASSUME RingInv, NEW td \in Tds[kind], QueueTd(td)
    PROVE  MemoryIsQueued'
<1> DEFINE N == Len(trbs)
           new == N + 1 .. N + Len(td)
<1>1. /\ kind' = kind /\ Len(trbs') = N + Len(td) /\ Len(td) \in Nat /\ N + Len(td) - ack < Usable
  BY Queued
<1>2. N \in Nat /\ ack \in 0 .. N /\ kind \in Kinds /\ Usable \in Nat /\ Usable >= 2 /\ Link = Usable
  BY Typed
<1>3. Slot = 0 .. Link /\ Link - 1 \in Slot
  BY <1>2, RingShape
<1>4. mem' = [s \in Slot |->
               IF \E k \in new : Place(k) = s
               THEN LET k == CHOOSE k \in new : Place(k) = s IN [trb |-> k, cycle |-> Cycle(k)]
               ELSE IF s = Link /\ \E k \in new : Place(k) = Link - 1
               THEN [trb |-> 0, cycle |-> Cycle(CHOOSE k \in new : Place(k) = Link - 1)]
               ELSE mem[s]]
  BY DEF QueueTd
<1>5. \A k \in new : k \in Nat /\ k >= 1 /\ k > N /\ k <= N + Len(td) /\ Place(k) # Link
  <2>1. \A k \in new : k \in Nat /\ k >= 1 /\ k > N /\ k <= N + Len(td)
    BY <1>1, <1>2
  <2>2. \A k \in Int : Place(k) # Link
    BY <1>2, RingShape
  <2> QED
    BY <2>1, <2>2
<1>6. ASSUME NEW j \in new, NEW k \in new, Place(j) = Place(k)
      PROVE  j = k
  <2>1. j \in Nat /\ k \in Nat /\ 1 <= j /\ 1 <= k /\ k - j < Usable /\ j - k < Usable
    BY <1>1, <1>2, <1>5
  <2>2. j <= k => j = k
    BY <1>2, <1>6, <2>1, PlacesApart
  <2>3. k <= j => j = k
    BY <1>2, <1>6, <2>1, PlacesApart
  <2> QED
    BY <2>1, <2>2, <2>3
<1>7. \A k \in 1 .. N + Len(td) : k \in 1 .. N \/ k \in new
  BY <1>1, <1>2
<1> HIDE DEF new
<1>8. ASSUME NEW s \in Slot \ {Link}
      PROVE  /\ mem'[s].trb = 0 => ~mem'[s].cycle
             /\ mem'[s].trb # 0 => Place(mem'[s].trb) = s /\ mem'[s].cycle = Cycle(mem'[s].trb)
             /\ \A k \in 1 .. N + Len(td) : Place(k) = s => k <= mem'[s].trb
  <2>1. CASE \E k \in new : Place(k) = s
    <3> DEFINE m == CHOOSE k \in new : Place(k) = s
    <3>1. m \in new /\ Place(m) = s
      BY <2>1
    <3>2. mem'[s] = [trb |-> m, cycle |-> Cycle(m)]
      BY <1>4, <2>1
    <3> HIDE DEF m
    <3>3. mem'[s].trb = m /\ mem'[s].cycle = Cycle(m) /\ m # 0
      BY <1>5, <3>1, <3>2
    <3>4. ASSUME NEW k \in 1 .. N + Len(td), Place(k) = s
          PROVE  k <= m
      <4>1. CASE k \in new
        BY <1>5, <1>6, <3>1, <3>4, <4>1
      <4>2. CASE k \in 1 .. N
        BY <1>2, <1>5, <3>1, <4>2
      <4> QED
        BY <1>7, <4>1, <4>2
    <3> QED
      BY <3>1, <3>3, <3>4
  <2>2. CASE ~\E k \in new : Place(k) = s
    <3>1. mem'[s] = mem[s]
      BY <1>4, <2>2
    <3>2. /\ mem[s].trb = 0 => ~mem[s].cycle
          /\ mem[s].trb # 0 => Place(mem[s].trb) = s /\ mem[s].cycle = Cycle(mem[s].trb)
          /\ \A k \in 1 .. N : Place(k) = s => k <= mem[s].trb
      BY DEF RingInv, RingRules, MemoryIsQueued
    <3>3. \A k \in 1 .. N + Len(td) : Place(k) = s => k \in 1 .. N
      BY <1>7, <2>2
    <3> QED
      BY <3>1, <3>2, <3>3
  <2> QED
    BY <2>1, <2>2
<1>9. mem'[Link].cycle = mem'[Link - 1].cycle
  <2>1. ~\E k \in new : Place(k) = Link
    BY <1>5
  <2>2. Link - 1 # Link /\ Link \in Slot
    BY <1>2, <1>3
  <2>3. CASE \E k \in new : Place(k) = Link - 1
    <3> DEFINE m == CHOOSE k \in new : Place(k) = Link - 1
    <3>1. mem'[Link] = [trb |-> 0, cycle |-> Cycle(m)]
      BY <1>4, <2>1, <2>2, <2>3
    <3>2. mem'[Link - 1] = [trb |-> m, cycle |-> Cycle(m)]
      BY <1>3, <1>4, <2>3
    <3> HIDE DEF m
    <3> QED
      BY <3>1, <3>2
  <2>4. CASE ~\E k \in new : Place(k) = Link - 1
    <3>1. mem'[Link] = mem[Link]
      BY <1>4, <2>1, <2>2, <2>4
    <3>2. mem'[Link - 1] = mem[Link - 1]
      BY <1>3, <1>4, <2>2, <2>4
    <3> QED
      BY <3>1, <3>2 DEF RingInv, RingRules, MemoryIsQueued
  <2> QED
    BY <2>3, <2>4
<1>10. Slot' = Slot /\ Link' = Link /\ Usable' = Usable
  BY <1>1, Kept
<1> QED
  BY <1>1, <1>8, <1>9, <1>10 DEF MemoryIsQueued, Place, Cycle

LEMMA QueueTds ==
    ASSUME RingInv, NEW td \in Tds[kind], QueueTd(td)
    PROVE  TdsAreWhole'
<1> DEFINE N == Len(trbs)
<1>1. /\ kind' = kind /\ Len(trbs') = N + Len(td) /\ Len(td) \in Nat /\ Len(td) >= 1
      /\ \A i \in 1 .. N : trbs'[i] = trbs[i]
      /\ \A i \in 1 .. Len(td) : trbs'[N + i] = td[i]
      /\ td[Len(td)] \in EndsTd
      /\ kind = "control" => td \in {<<"setup_out", "status">>, <<"setup_in", "data", "status">>, <<"bad">>}
  BY Queued
<1>2. N \in Nat
  BY Typed
<1>3. Boundary(Len(trbs) + 1)'
  <2>1. Len(td) \in 1 .. Len(td) /\ N + Len(td) + 1 # 1 /\ (N + Len(td) + 1) - 1 = N + Len(td)
    BY <1>1, <1>2
  <2>2. trbs'[N + Len(td)] \in EndsTd
    BY <1>1, <2>1
  <2> QED
    BY <1>1, <2>1, <2>2 DEF Boundary
<1>4. ASSUME kind = "control", NEW k \in 1 .. N + Len(td)
      PROVE  /\ (k = 1 \/ trbs'[k - 1] \in EndsTd) => trbs'[k] \in {"setup_in", "setup_out", "bad"}
             /\ k > 1 /\ trbs'[k - 1] \in {"setup_in", "setup_out"} => trbs'[k] \in {"data", "status"}
             /\ k > 1 /\ trbs'[k - 1] = "data" => trbs'[k] = "status"
  <2>1. CASE k \in 1 .. N
    <3>1. /\ (k = 1 \/ trbs[k - 1] \in EndsTd) => trbs[k] \in {"setup_in", "setup_out", "bad"}
          /\ k > 1 /\ trbs[k - 1] \in {"setup_in", "setup_out"} => trbs[k] \in {"data", "status"}
          /\ k > 1 /\ trbs[k - 1] = "data" => trbs[k] = "status"
      BY <1>4, <2>1 DEF RingInv, RingRules, TdsAreWhole, Boundary
    <3>2. trbs'[k] = trbs[k] /\ (k # 1 => trbs'[k - 1] = trbs[k - 1])
      BY <1>1, <1>2, <2>1
    <3>3. k > 1 => k # 1
      BY <1>2, <2>1
    <3> QED
      BY <3>1, <3>2, <3>3
  <2>2. CASE k = N + 1
    <3>1. 1 \in 1 .. Len(td) /\ trbs'[k] = td[1]
      BY <1>1, <2>2
    <3>2. td[1] \in {"setup_in", "setup_out", "bad"}
      BY <1>1, <1>4
    <3>3. ASSUME k > 1 PROVE trbs'[k - 1] \in EndsTd
      <4>1. N \in 1 .. N /\ k - 1 = N /\ N + 1 # 1 /\ (N + 1) - 1 = N
        BY <1>2, <2>2, <3>3
      <4>2. trbs[N] \in EndsTd
        BY <4>1 DEF RingInv, RingRules, TdsAreWhole, Boundary
      <4> QED
        BY <1>1, <4>1, <4>2
    <3> QED
      BY <3>1, <3>2, <3>3 DEF EndsTd
  <2>3. CASE k > N + 1
    <3> DEFINE i == k - N
    <3>1. i \in 2 .. Len(td) /\ i \in 1 .. Len(td) /\ i - 1 \in 1 .. Len(td) /\ k # 1
          /\ N + i = k /\ N + (i - 1) = k - 1
      BY <1>1, <1>2, <2>3
    <3> HIDE DEF i
    <3>2. trbs'[k] = td[i] /\ trbs'[k - 1] = td[i - 1]
      <4>1. trbs'[N + i] = td[i] /\ trbs'[N + (i - 1)] = td[i - 1]
        BY <1>1, <3>1
      <4> QED
        BY <3>1, <4>1
    <3>3. \/ td[i - 1] \in {"setup_in", "setup_out"} /\ td[i] \in {"data", "status"}
          \/ td[i - 1] = "data" /\ td[i] = "status"
      <4>1. CASE td = <<"setup_out", "status">>
        <5>1. i = 2
          BY <3>1, <4>1
        <5> QED
          BY <4>1, <5>1
      <4>2. CASE td = <<"setup_in", "data", "status">>
        <5>1. i = 2 \/ i = 3
          BY <3>1, <4>2
        <5> QED
          BY <4>2, <5>1
      <4>3. CASE td = <<"bad">>
        BY <3>1, <4>3
      <4> QED
        BY <1>1, <1>4, <4>1, <4>2, <4>3
    <3> QED
      BY <3>1, <3>2, <3>3 DEF EndsTd
  <2> QED
    BY <1>1, <1>2, <2>1, <2>2, <2>3
<1> QED
  BY <1>1, <1>3, <1>4 DEF TdsAreWhole, Boundary

LEMMA QueueRing ==
    ASSUME RingInv, NEW td \in Tds[kind], QueueTd(td)
    PROVE  RingRules'
<1> DEFINE N == Len(trbs)
<1>1. /\ UNCHANGED <<kind, rung, ack, deq, cs, worker, chan, cmds, hot, handle, token, parser, sub>>
      /\ Len(trbs') = N + Len(td) /\ Len(td) \in Nat /\ N + Len(td) - ack < Usable
      /\ \A i \in 1 .. N : trbs'[i] = trbs[i]
  BY Queued
<1>2. /\ N \in Nat /\ ack \in 0 .. N /\ rung \in 0 .. N /\ Len(sub.trbs) \in Nat
      /\ \A i \in 1 .. Len(sub.trbs) : sub.trbs[i] \in 1 .. N
  BY Typed
<1>3. /\ \A k \in Int : At(k)' <=> At(k)
      /\ Usable' = Usable
  BY <1>1, Kept
<1>4. /\ \A k \in 1 .. N + 1 : k \in 1 .. Len(trbs') + 1 /\ k \in Int
      /\ \A k \in ack + 1 .. N + 1 : k \in ack + 1 .. Len(trbs') + 1 /\ k \in Int
  BY <1>1, <1>2
<1>5. MemoryIsQueued' /\ TdsAreWhole'
  BY QueueMemory, QueueTds
<1>6. worker = "wait" => hot \in 1 .. N /\ deq = Place(hot) /\ cs = Cycle(hot)
  BY DEF RingInv, RingRules, PlaceIsQueued
<1>7. PlaceIsQueued'
  <2>1. \E k \in 1 .. Len(trbs') + 1 : At(k)'
    BY <1>3, <1>4 DEF RingInv, RingRules, PlaceIsQueued
  <2>2. worker' = "wait" => hot' \in 1 .. Len(trbs') /\ deq' = Place(hot)' /\ cs' = Cycle(hot)'
    BY <1>1, <1>2, <1>3, <1>6 DEF Place, Cycle
  <2> QED
    BY <1>1, <2>1, <2>2 DEF RingInv, RingRules, PlaceIsQueued
<1>8. OutstandingIsKept'
  <2> SUFFICES ASSUME ~Going' PROVE OutstandingIsKept'
    BY DEF OutstandingIsKept
  <2>1. ~Going
    BY <1>1 DEF Going
  <2>2. PICK k \in ack + 1 .. N + 1 : At(k)
    BY <2>1 DEF RingInv, RingRules, OutstandingIsKept
  <2>3. k \in ack' + 1 .. Len(trbs') + 1 /\ At(k)'
    BY <1>1, <1>3, <1>4, <2>2
  <2>4. Len(trbs') - ack' < Usable'
    BY <1>1, <1>2, <1>3, Typed
  <2> QED
    BY <1>1, <2>1, <2>3, <2>4 DEF RingInv, RingRules, OutstandingIsKept
<1>9. CollectsTd'
  <2> SUFFICES ASSUME kind = "in", ~token PROVE CollectsTd'
    BY <1>1 DEF CollectsTd
  <2>1. CollectsTd
    BY DEF RingInv, RingRules
  <2>2. Last' = Last
    BY <1>1 DEF Last
  <2>3. sub.trbs # <<>> => Last \in 1 .. N
    <3>1. sub.trbs # <<>> => Len(sub.trbs) \in 1 .. Len(sub.trbs)
      BY <1>2, Typed, EmptySeq DEF TypeOK
    <3> QED
      BY <1>2, <3>1 DEF Last
  <2>4. At(Last + 1)' <=> At(Last + 1)
    BY <1>1, <1>3, <2>2 DEF At, Place, Cycle, Link
  <2> QED
    BY <1>1, <1>6, <2>1, <2>2, <2>3, <2>4 DEF CollectsTd
<1>10. ParserFollows'
  <2> SUFFICES ASSUME kind = "control", handle, cmds = 0 PROVE ParserFollows'
    BY <1>1 DEF ParserFollows
  <2>1. ParserFollows
    BY DEF RingInv, RingRules
  <2>2. ASSUME NEW p \in 1 .. N + 1, ParserAt(p)
        PROVE  ParserAt(p)'
    <3>1. /\ p > 1 => trbs'[p - 1] = trbs[p - 1]
          /\ p # 1 => p > 1
      BY <1>1, <1>2
    <3> QED
      BY <1>1, <2>2, <3>1 DEF ParserAt, Boundary
  <2>3. ASSUME worker \in {"doorbell", "look"}
        PROVE  \E p \in ack' + 1 .. Len(trbs') + 1 : At(p)' /\ ParserAt(p)'
    <3>1. PICK p \in ack + 1 .. N + 1 : At(p) /\ ParserAt(p)
      BY <2>1, <2>3 DEF ParserFollows
    <3>2. p \in 1 .. N + 1 /\ p \in ack' + 1 .. Len(trbs') + 1 /\ p \in Int
      BY <1>1, <1>2, <1>4
    <3> QED
      BY <1>3, <2>2, <3>1, <3>2
  <2>4. ASSUME worker = "wait", sub.st # "error"
        PROVE  ParserAt(hot + 1)'
    <3>1. ParserAt(hot + 1)
      BY <2>1, <2>4 DEF ParserFollows
    <3>2. hot \in 1 .. N
      BY <1>6, <2>4
    <3>3. (hot + 1) - 1 = hot /\ hot + 1 # 1 /\ hot' = hot
      BY <1>1, <1>2, <3>2
    <3> QED
      BY <1>1, <3>1, <3>2, <3>3 DEF ParserAt, Boundary
  <2> QED
    BY <1>1, <2>1, <2>3, <2>4 DEF ParserFollows
<1>11. MoveIsAlone' /\ ErrorIsBad'
  BY <1>1, <1>6 DEF RingInv, RingRules, MoveIsAlone, ErrorIsBad
<1>12. NothingLeftBehind'
  <2>1. NoDoorbell' <=> NoDoorbell
    BY <1>1 DEF NoDoorbell
  <2>2. \A k \in ack + 1 .. rung : k \in Int
    BY <1>2
  <2> QED
    BY <1>1, <1>3, <2>1, <2>2 DEF RingInv, RingRules, NothingLeftBehind
<1> QED
  BY <1>5, <1>7, <1>8, <1>9, <1>10, <1>11, <1>12 DEF RingRules

-----------------------------------------------------------------------------
(* The invariant *)

LEMMA InitRing == Init => RingInv
<1> SUFFICES ASSUME Init PROVE RingInv
  OBVIOUS
<1>1. EndpointInv /\ TypeOK /\ kind \in Kinds
  BY InitEndpoint DEF EndpointInv, WorkerInv, ContextTellsTheTruth, TypeOK
<1>2. /\ Len(trbs) = 0 /\ Len(chan) = 0 /\ Len(sub.trbs) = 0 /\ sub.trbs = <<>>
      /\ worker = "doorbell" /\ ack = 0 /\ rung = 0 /\ deq = 0 /\ cs = TRUE
      /\ parser.st = "initial" /\ cmds = 0
  BY DEF Init, Idle
<1>3. /\ Usable \in Nat /\ Usable >= 2 /\ Link = Usable /\ Link \in Slot /\ Link - 1 \in Slot
  <2>1. Slot = 0 .. Link /\ Link \in Nat /\ Link >= 2 /\ Usable = Link
    BY <1>1, RingShape
  <2> QED
    BY <2>1
<1>4. Place(1) = 0 /\ Cycle(1) = TRUE
  <2>1. Place(1) = 1 - 1 /\ Cycle(1) /\ Cycle(1) \in BOOLEAN
    BY <1>1, <1>3, Places
  <2> QED
    BY <2>1
<1>5. At(1) /\ Boundary(1)
  BY <1>2, <1>4 DEF At, Boundary
<1>6. MemoryIsQueued
  BY <1>2, <1>3 DEF Init, MemoryIsQueued
<1>7. TdsAreWhole
  BY <1>2, <1>5 DEF TdsAreWhole
<1>8. 1 \in 1 .. Len(trbs) + 1 /\ 1 \in ack + 1 .. Len(trbs) + 1 /\ Len(trbs) - ack < Usable
  BY <1>2, <1>3
<1>9. PlaceIsQueued /\ MoveIsAlone /\ OutstandingIsKept
  BY <1>2, <1>5, <1>8 DEF PlaceIsQueued, MoveIsAlone, OutstandingIsKept
<1>10. CollectsTd /\ ErrorIsBad
  BY <1>2 DEF CollectsTd, ErrorIsBad
<1>11. ParserFollows
  BY <1>2, <1>5, <1>8 DEF ParserFollows, ParserAt
<1>12. NothingLeftBehind
  BY <1>2 DEF NothingLeftBehind
<1> QED
  BY <1>1, <1>6, <1>7, <1>9, <1>10, <1>11, <1>12 DEF RingInv, RingRules

LEMMA NextRing == ASSUME RingInv, [Next]_vars PROVE RingInv'
<1>1. EndpointInv'
  BY NextEndpoint DEF RingInv
<1>2. CASE LookForTrb
  BY <1>1, <1>2, LookRing DEF RingInv
<1>3. CASE \/ ReceiveDoorbell \/ ReceiveStop \/ ReceiveReset \/ ReceiveTerminate \/ ReceiveClosed
           \/ MeetEventData \/ SendFails \/ WriteContext
  <2>1. Stays
    BY <1>3, DoorbellStays, StopStays, ResetStays, TerminateStays, ClosedStays, WorkerStays
  <2> QED
    BY <1>1, <2>1, Staying DEF RingInv
<1>4. CASE ReceiveSetDeq
  <2>1. \/ worker \in {"error", "continuable", "stopped"}
        \/ worker \in {"doorbell", "wait", "halted"}
    BY <1>4 DEF ReceiveSetDeq
  <2>2. worker \in {"doorbell", "wait", "halted"} => Stays
    BY <1>4, RefusalStays
  <2> QED
    BY <1>1, <1>4, <2>1, <2>2, Staying, MoveRing DEF RingInv
<1>5. CASE CompleteDetached \/ CompleteLocally \/ CompleteTransfer \/ CompleteIn
  BY <1>1, <1>5, DetachedRing, LocalRing, TransferRing, InRing DEF RingInv
<1>6. CASE \/ \E status \in Statuses : DeviceCompletes(status)
           \/ ControlTaskDies \/ InterrupterDies
           \/ Detach \/ DetachHandler \/ UNCHANGED vars
  <2>1. Stays
    BY <1>6, DeviceStays
  <2> QED
    BY <1>1, <2>1, Staying DEF RingInv
<1>7. CASE \E td \in Tds[kind] : QueueTd(td)
  BY <1>1, <1>7, QueueRing DEF RingInv
<1>8. CASE RingDoorbell \/ \E op \in Commands, k \in ack + 1 .. Len(trbs) + 1 : Issue(op, k)
  <2>1. Stays
    BY <1>8, RingStays, IssueStays
  <2> QED
    BY <1>1, <2>1, Staying DEF RingInv
<1> QED
  BY <1>2, <1>3, <1>4, <1>5, <1>6, <1>7, <1>8 DEF Next, Worker

\* The worker, the driver, the device and the ports keep the ring, the pointer and the
\* driver's books together, on rings of any size and over any number of laps.
THEOREM TransferRingInvariant == Spec => []RingInv
<1>1. RingInv /\ [Next]_vars => RingInv'
  BY NextRing
<1> QED
  BY <1>1, InitRing, PTL DEF Spec

\* PointerIsOutstanding: the dequeue pointer denotes a TRB the driver waits for, or the
\* place of the next one.
THEOREM PointerIsOutstandingAlways == Spec => []PointerIsOutstanding
<1>1. RingInv => PointerIsOutstanding
  BY DEF RingInv, RingRules, OutstandingIsKept, PointerIsOutstanding, Going
<1> QED
  BY <1>1, TransferRingInvariant, PTL

\* NothingLeftBehind: a worker that sleeps with no doorbell on its way is at no TRB that a
\* doorbell was rung for.
THEOREM NothingLeftBehindAlways == Spec => []NothingLeftBehind
<1>1. RingInv => NothingLeftBehind
  BY DEF RingInv, RingRules
<1> QED
  BY <1>1, TransferRingInvariant, PTL

-----------------------------------------------------------------------------
(* What the driver is told *)

\* A halt that is reported the way the driver recovers by.
Reported ==
    \E e \in out' :
        /\ out' = {e} /\ e.code = "fault"
        /\ \/ Place(e.trb) = deq' /\ Cycle(e.trb) = cs'
           \/ kind = "in" /\ token' /\ e.trb \in {sub.trbs[i] : i \in 1 .. Len(sub.trbs)}

\* The event of a worker that halts where it waits.
LEMMA HaltHere ==
    ASSUME RingInv, worker = "wait", Send({Event(hot, "fault")}), HaltAt(deq, cs)
    PROVE  Reported
<1>1. deq' = Place(hot) /\ cs' = Cycle(hot) /\ out' = {Event(hot, "fault")}
  BY AtSubmitted DEF HaltAt, Send
<1>2. Event(hot, "fault").code = "fault" /\ Event(hot, "fault").trb = hot
  BY DEF Event
<1> QED
  BY <1>1, <1>2 DEF Reported

LEMMA InHalt ==
    ASSUME RingInv, CompleteIn, worker' = "halting"
    PROVE  Reported
<1>1. kind = "in" /\ worker = "wait"
  BY DEF CompleteIn
<1>2. PICK i \in 1 .. Len(sub.trbs) :
         /\ Send({Event(sub.trbs[i], "fault")})
         /\ \/ RewindTo(sub.trbs[i]) /\ UNCHANGED token
            \/ token' = TRUE
  BY DEF CompleteIn, Advance
<1> DEFINE k == sub.trbs[i]
<1>3. /\ out' = {Event(k, "fault")}
      /\ Event(k, "fault").code = "fault" /\ Event(k, "fault").trb = k
  BY <1>2 DEF Send, Event
<1>4. k \in {sub.trbs[j] : j \in 1 .. Len(sub.trbs)}
  OBVIOUS
<1>5. CASE token'
  BY <1>1, <1>3, <1>4, <1>5 DEF Reported
<1>6. CASE ~token'
  <2>1. RewindTo(k) /\ ~token
    BY <1>2, <1>6
  <2>2. k \in 1 .. Len(trbs) /\ Shape /\ Len(trbs) \in Nat /\ ack \in 0 .. Len(trbs) /\ Usable \in Nat
    BY Typed
  <2>3. k > ack
    BY <1>1, <2>1 DEF RingInv, RingRules, CollectsTd
  <2>4. Len(trbs) - ack < Usable
    BY <2>1 DEF RingInv, RingRules, OutstandingIsKept, Going
  <2> HIDE DEF k
  <2>5. Len(trbs) - k < Usable
    BY <2>2, <2>3, <2>4
  <2>6. mem[Place(k)].cycle = Cycle(k)
    BY <2>2, <2>5, SlotOfRecent
  <2>7. deq' = Place(k) /\ cs' = Cycle(k)
    BY <2>1, <2>6 DEF RewindTo, HaltAt
  <2> QED
    BY <1>3, <2>7 DEF Reported
<1> QED
  BY <1>5, <1>6

\* HaltIsReported: an endpoint goes to halt with one event, which names the TRB that its
\* context will point to, also when it goes back to a TRB of a TD on an earlier lap.
THEOREM HaltIsReportedAlways == Spec => HaltIsReported
<1>1. ASSUME RingInv, [Next]_vars, worker # "halting", worker' = "halting"
      PROVE  Reported
  <2>1. CASE CompleteDetached
    BY <1>1, <2>1, HaltHere DEF CompleteDetached
  <2>2. CASE CompleteLocally
    BY <1>1, <2>2 DEF CompleteLocally, Advance, TrbError
  <2>3. CASE CompleteTransfer
    <3>1. worker = "wait" /\ Send({Event(hot, "fault")}) /\ HaltAt(deq, cs)
      BY <1>1, <2>3 DEF CompleteTransfer, Advance, Die
    <3> QED
      BY <1>1, <3>1, HaltHere
  <2>4. CASE CompleteIn
    BY <1>1, <2>4, InHalt
  <2>5. CASE \/ MeetEventData \/ SendFails \/ WriteContext \/ ReceiveDoorbell \/ ReceiveStop
             \/ ReceiveReset \/ ReceiveSetDeq \/ ReceiveTerminate \/ ReceiveClosed
    BY <1>1, <2>5
       DEF MeetEventData, SendFails, WriteContext, ReceiveDoorbell, ReceiveStop, ReceiveReset,
           ReceiveSetDeq, ReceiveTerminate, ReceiveClosed, Enter, Die, OpenFails
  <2>6. CASE LookForTrb
    BY <1>1, <2>6 DEF LookForTrb, SubmitControl, SubmitOut, SubmitIn, Die, Keep, Request
  <2>7. CASE \/ \E status \in Statuses : DeviceCompletes(status)
             \/ ControlTaskDies \/ InterrupterDies \/ Detach \/ DetachHandler
             \/ \E td \in Tds[kind] : QueueTd(td)
             \/ RingDoorbell
             \/ \E op \in Commands, k \in ack + 1 .. Len(trbs) + 1 : Issue(op, k)
             \/ UNCHANGED vars
    BY <1>1, <2>7
       DEF DeviceCompletes, ControlTaskDies, InterrupterDies, Detach, DetachHandler, QueueTd,
           RingDoorbell, Issue, vars
  <2> QED
    BY <1>1, <2>1, <2>2, <2>3, <2>4, <2>5, <2>6, <2>7 DEF Next, Worker
<1>2. RingInv /\ [Next]_vars =>
         [worker # "halting" /\ worker' = "halting" =>
            \E e \in out' :
               /\ out' = {e} /\ e.code = "fault"
               /\ \/ Place(e.trb) = deq' /\ Cycle(e.trb) = cs'
                  \/ kind = "in" /\ token'
                        /\ e.trb \in {sub.trbs[i] : i \in 1 .. Len(sub.trbs)}]_vars
  BY <1>1 DEF Reported
<1> QED
  BY <1>2, TransferRingInvariant, PTL DEF Spec, HaltIsReported

\* TrbErrorHasACause: only a malformed TRB puts an endpoint in error, or, on a control
\* endpoint, a TRB of a TD that a command has cut in two.
THEOREM TrbErrorHasACauseAlways == Spec => TrbErrorHasACause
<1>1. ASSUME RingInv, [Next]_vars, worker # "failing", worker' = "failing"
      PROVE  trbs[hot] = "bad" \/ (kind = "control" /\ cmds > 0)
  <2>1. CASE CompleteLocally
    <3>1. worker = "wait" /\ handle /\ sub.st = "error"
      BY <1>1, <2>1 DEF CompleteLocally, Advance
    <3>2. cmds \in Nat
      BY <1>1, Typed, BoundsAssumption DEF TypeOK
    <3>3. ErrorIsBad
      BY <1>1 DEF RingInv, RingRules
    <3> QED
      BY <3>1, <3>2, <3>3 DEF ErrorIsBad
  <2>2. CASE CompleteDetached \/ CompleteTransfer \/ CompleteIn
    BY <1>1, <2>2 DEF CompleteDetached, CompleteTransfer, CompleteIn, Advance, HaltAt, RewindTo, Die
  <2>3. CASE LookForTrb
    BY <1>1, <2>3 DEF LookForTrb, SubmitControl, SubmitOut, SubmitIn, Die, Keep, Request
  <2>4. CASE \/ MeetEventData \/ SendFails \/ WriteContext \/ ReceiveDoorbell \/ ReceiveStop
             \/ ReceiveReset \/ ReceiveSetDeq \/ ReceiveTerminate \/ ReceiveClosed
    BY <1>1, <2>4
       DEF MeetEventData, SendFails, WriteContext, ReceiveDoorbell, ReceiveStop, ReceiveReset,
           ReceiveSetDeq, ReceiveTerminate, ReceiveClosed, Enter, Die, OpenFails
  <2>5. CASE \/ \E status \in Statuses : DeviceCompletes(status)
             \/ ControlTaskDies \/ InterrupterDies \/ Detach \/ DetachHandler
             \/ \E td \in Tds[kind] : QueueTd(td)
             \/ RingDoorbell
             \/ \E op \in Commands, k \in ack + 1 .. Len(trbs) + 1 : Issue(op, k)
             \/ UNCHANGED vars
    BY <1>1, <2>5
       DEF DeviceCompletes, ControlTaskDies, InterrupterDies, Detach, DetachHandler, QueueTd,
           RingDoorbell, Issue, vars
  <2> QED
    BY <1>1, <2>1, <2>2, <2>3, <2>4, <2>5 DEF Next, Worker
<1>2. RingInv /\ [Next]_vars =>
         [worker # "failing" /\ worker' = "failing" =>
            trbs[hot] = "bad" \/ (kind = "control" /\ cmds > 0)]_vars
  BY <1>1
<1> QED
  BY <1>2, TransferRingInvariant, PTL DEF Spec, TrbErrorHasACause

=============================================================================

-------------------------- MODULE TestKernelProofs --------------------------
(***************************************************************************)
(* Theorems about TestKernel, for any number of warps, lanes, batches,     *)
(* keys in a batch and limbs, and for any keys that match.                 *)
(***************************************************************************)
EXTENDS TestKernel, TLAPS

Walking(l)    == pc[l] \notin {"idle", "exit"}
Publishing(l) == pc[l] \in {"store", "fence", "flag"}
Claiming(l)   == pc[l] = "claim" \/ Publishing(l)
Voting(l)     == Claiming(l) \/ pc[l] = "vote"

\* No kernel runs, and no match was seen.
Between == hostpc \in {"launch", "exhausted"}

WarpOf(l) == l \div WarpSize
KeyOf(l)  == KeyAt(l, step[WarpOf(l)])   \* the key a lane is at

-------------------------------------------------------------------------------
(* The inductive invariant                                                 *)

Places == {"idle", "ballot", "test", "claim", "store", "fence", "flag", "vote", "writeback", "exit"}

TypeOK ==
  /\ start \in Starts /\ full \subseteq Keys /\ full \subseteq pref
  /\ hostpc \in {"launch", "kernel", "found", "exhausted"}
  /\ left \in 0..BatchesPerThread
  /\ Px \in [Lane -> Int] /\ start_scalars \in [Lane -> Int] /\ x1 \in [Lane -> Int]
  /\ pc \in [Lane -> Places]
  /\ mask \in [Warp -> SUBSET Lane]
  /\ batches_done \in [Warp -> Nat] /\ step \in [Warp -> 0..B-1]
  /\ claimed \in BOOLEAN /\ found \in BOOLEAN
  /\ scalar \in [1..Limbs -> Int]
  /\ sent \in [Lane -> SUBSET (1..Limbs)]

\* The host and the kernel take turns; the lanes of a warp are at the same intrinsic, or on their
\* way from one to the next.
Turns ==
  /\ hostpc # "kernel" => \A l \in Lane : ~Walking(l)
  /\ hostpc = "kernel" => /\ left > 0
                          /\ \A w \in Warp : mask[w] = LanesOf(w)
                          /\ \A l \in Lane : pc[l] # "idle"
  /\ Between => ~found
  /\ hostpc = "exhausted" => left = 0

Together ==
  \A l, m \in Lane : WarpOf(l) = WarpOf(m) =>
    /\ pc[l] \in {"ballot", "test"} => pc[m] = pc[l]
    /\ Voting(l) => Voting(m)

Progress ==
  \A l \in Lane :
    /\ Walking(l) => batches_done[WarpOf(l)] <= batches_per_launch
    /\ pc[l] = "test" \/ Voting(l) => batches_done[WarpOf(l)] < batches_per_launch
    /\ pc[l] = "writeback" => batches_done[WarpOf(l)] = batches_per_launch

\* Who may write to the page, and what is in it.
Protocol ==
  /\ ~claimed => ~found /\ \A l \in Lane : ~Publishing(l)
  /\ claimed /\ ~found => \E l \in Lane : Publishing(l)
  /\ found => \A l \in Lane : ~Publishing(l)
  /\ \A l, m \in Lane : Publishing(l) /\ Publishing(m) => l = m

Content ==
  /\ \A l \in Lane : sent[l] # {} => pc[l] = "fence"
  /\ \A l \in Lane : pc[l] \in {"fence", "flag"} =>
       \A j \in 1..Limbs : j \in sent[l] \/ scalar[j] = ScalarOf(l)
  /\ found => \E k \in full : scalar = Whole(k)
  /\ hostpc = "found" => found /\ reported = scalar

\* A lane that claims has a match, one that votes has none unless somebody claimed, and no match is
\* passed over.
Matches ==
  /\ \A l \in Lane : Claiming(l) => KeyOf(l) \in full
  /\ \A l \in Lane : pc[l] = "vote" /\ KeyOf(l) \in full => claimed
  /\ ~claimed => \A k \in hashed \intersect full : \E l \in Lane : pc[l] = "claim" /\ KeyOf(l) = k

\* The centre of the n-th batch of a lane's share.
Centre(l, n) == start + l*BatchesPerThread*B + half + n*B

\* The batches a lane has behind it. What it stored after its last batch only counts if nobody claimed: a
\* warp that leaves with a match stores nothing.
Done(l) == BatchesPerThread - left +
             (IF hostpc # "kernel" THEN 0
              ELSE IF pc[l] = "exit" THEN batches_per_launch ELSE batches_done[WarpOf(l)])

Stored(l) == Between \/ (hostpc = "kernel" /\ pc[l] = "exit" /\ ~claimed)

\* Only ranges that start at 0 or at half a batch lose their points.
Proper == start \notin {0, half}

\* The keys of the first n batches of a lane's share.
FirstOf(l)   == start + l*BatchesPerThread*B
Behind(l, n) == FirstOf(l) .. FirstOf(l) + n*B - 1

\* The stored scalar is that of the lane's share; the point is that of the scalar, or garbage if the
\* range is improper; the batches behind the lane, and the keys of this one, were hashed.
OnTrack(l) ==
  /\ Walking(l) => /\ start_scalars[l] = Centre(l, BatchesPerThread - left)
                   /\ x1[l] = Centre(l, Done(l)) \/ (x1[l] = Garbage /\ ~Proper)
  /\ Stored(l) => /\ start_scalars[l] = Centre(l, Done(l))
                  /\ Px[l] = start_scalars[l] \/ (Px[l] = Garbage /\ ~Proper)
  /\ Proper => /\ Walking(l) \/ Stored(l) => Behind(l, Done(l)) \subseteq hashed
               /\ pc[l] = "test" => \A s \in 0 .. step[WarpOf(l)]-1 : KeyAt(l, s) \in hashed
               /\ Voting(l) => \A s \in 0 .. step[WarpOf(l)] : KeyAt(l, s) \in hashed

IInv ==
  /\ TypeOK /\ Turns /\ Together /\ Progress /\ Protocol /\ Content /\ Matches
  /\ \A l \in Lane : OnTrack(l)

-------------------------------------------------------------------------------
(* Lanes, batches and offsets                                              *)

LEMMA HalfFacts == half \in Nat /\ half > 0 /\ B = 2*half
BY LaunchAssumption DEF half

LEMMA WarpFacts ==
  /\ \A l \in Lane : WarpOf(l) \in Warp /\ l \in LanesOf(WarpOf(l))
  /\ \A w \in Warp : LanesOf(w) = {l \in Lane : WarpOf(l) = w}
<1>1. ASSUME NEW l \in Lane PROVE WarpOf(l) \in Warp
  <2>1. /\ WarpSize \in Nat /\ WarpSize > 0 /\ Warps \in Nat /\ l \in Nat /\ l < Warps*WarpSize
    BY LaunchAssumption DEF Lane
  <2>2. \A w, q, n \in Nat : w > 0 /\ q < n*w => q \div w \in Nat /\ q \div w < n
    OBVIOUS
  <2>. QED BY <2>1, <2>2 DEF Warp, WarpOf
<1>. QED BY <1>1 DEF LanesOf, WarpOf

LEMMA OffsetFacts ==
  /\ \A s \in 0..B-1 : Offset(s) \in -half..half-1
  /\ Offset(0) = 0
  /\ \A d \in -half..half-1 : \E s \in 0..B-1 : Offset(s) = d
<1>. USE HalfFacts
<1>1. ASSUME NEW s \in 0..B-1 PROVE Offset(s) \in -half..half-1
  BY DEF Offset
<1>2. ASSUME NEW d \in -half..half-1 PROVE \E s \in 0..B-1 : Offset(s) = d
  <2>1. CASE d = 0
    BY <2>1 DEF Offset
  <2>2. CASE d = -half
    BY <2>2 DEF Offset
  <2>3. CASE d > 0
    <3>1. 2*d - 1 \in 0..B-1 /\ Offset(2*d - 1) = d
      BY <2>3 DEF Offset
    <3>. QED BY <3>1
  <2>4. CASE d < 0 /\ d # -half
    <3>1. -2*d \in 0..B-1 /\ Offset(-2*d) = d
      BY <2>4 DEF Offset
    <3>. QED BY <3>1
  <2>. QED BY <2>1, <2>2, <2>3, <2>4
<1>3. Offset(0) = 0
  BY DEF Offset
<1>. QED BY <1>1, <1>2, <1>3

LEMMA CentreFacts ==
  ASSUME start \in Nat, NEW l \in Lane, NEW n \in Nat
  PROVE  /\ Centre(l, n) \in Nat /\ Centre(l, n) - half \in Nat
         /\ Centre(l, 0) = start + l*BatchesPerThread*B + half
         /\ Centre(l, n + 1) = Centre(l, n) + B
         /\ \A m \in Nat : Centre(l, n + m) = Centre(l, n) + m*B
         /\ Proper => ~Degenerate(Centre(l, n))
<1>. DEFINE X == l*BatchesPerThread*B
<1>0. /\ B \in Nat /\ l \in Nat /\ BatchesPerThread \in Nat
      /\ half \in Nat /\ half > 0 /\ B = 2*half
  BY HalfFacts, LaunchAssumption DEF Lane
<1>1. X \in Nat /\ n*B \in Nat /\ 0*B = 0
  BY <1>0
<1>2. \A a, b, c \in Nat : (a + b)*c = a*c + b*c
  OBVIOUS
<1>3. /\ (n + 1)*B = n*B + B
      /\ \A m \in Nat : (n + m)*B = n*B + m*B
  BY <1>0, <1>2
<1>4. X + n*B = 0 \/ X + n*B >= B
  <2>1. X + n*B = (l*BatchesPerThread + n)*B /\ l*BatchesPerThread + n \in Nat
    BY <1>0, <1>2
  <2>2. \A a \in Nat : a*B = 0 \/ a*B >= B
    BY <1>0
  <2>. QED BY <2>1, <2>2
<1>. HIDE DEF X
<1>5. Centre(l, n) = start + X + half + n*B
  BY DEF Centre, X
<1>6. Proper => ~Degenerate(Centre(l, n))
  BY <1>0, <1>1, <1>4, <1>5 DEF Proper, Degenerate, Garbage
<1>7. /\ Centre(l, n) \in Nat /\ Centre(l, n) - half \in Nat
  BY <1>0, <1>1, <1>5
<1>8. Centre(l, 0) = start + l*BatchesPerThread*B + half
  BY <1>0, <1>1 DEF Centre, X
<1>9. Centre(l, n + 1) = Centre(l, n) + B
  BY <1>0 DEF Centre
<1>10. ASSUME NEW m \in Nat PROVE Centre(l, n + m) = Centre(l, n) + m*B
  <2>1. m*B \in Nat
    BY <1>0
  <2>. QED BY <1>0, <1>1, <1>3, <2>1 DEF Centre, X
<1>. QED BY <1>6, <1>7, <1>8, <1>9, <1>10

LEMMA BehindFacts ==
  ASSUME start \in Nat, NEW l \in Lane, NEW n \in Nat
  PROVE  /\ Behind(l, 0) = {}
         /\ Behind(l, n + 1) \subseteq
              Behind(l, n) \union {Centre(l, n) + Offset(s) : s \in 0..B-1}
<1>0. /\ B \in Nat /\ l \in Nat /\ BatchesPerThread \in Nat
      /\ half \in Nat /\ half > 0 /\ B = 2*half
  BY HalfFacts, LaunchAssumption DEF Lane
<1>1. FirstOf(l) \in Nat /\ n*B \in Nat /\ 0*B = 0 /\ (n + 1)*B = n*B + B
  BY <1>0 DEF FirstOf
<1>2. Centre(l, n) = FirstOf(l) + half + n*B
  BY <1>0, <1>1 DEF Centre, FirstOf
<1>3. Behind(l, 0) = {}
  BY <1>1 DEF Behind
<1>4. ASSUME NEW k \in Behind(l, n + 1), k \notin Behind(l, n)
      PROVE  \E s \in 0..B-1 : k = Centre(l, n) + Offset(s)
  <2>1. k - Centre(l, n) \in -half..half-1
    BY <1>0, <1>1, <1>2, <1>4 DEF Behind
  <2>2. PICK s \in 0..B-1 : Offset(s) = k - Centre(l, n)
    BY <2>1, OffsetFacts
  <2>3. k \in Int /\ Centre(l, n) \in Int
    BY <1>0, <1>1, <1>2 DEF Behind
  <2>. QED BY <2>2, <2>3
<1>. QED BY <1>3, <1>4

\* Every key of the range is in the share of a lane.
LEMMA SharesCover ==
  ASSUME start \in Nat, NEW k \in Keys
  PROVE  \E l \in Lane : k \in Behind(l, BatchesPerThread)
<1>. DEFINE S == BatchesPerThread*B
            q == (k - start) \div S
<1>0. /\ B \in Nat \ {0} /\ BatchesPerThread \in Nat \ {0} /\ Warps*WarpSize \in Nat
  BY LaunchAssumption
<1>1. S \in Nat /\ S > 0 /\ Warps*WarpSize*BatchesPerThread*B = (Warps*WarpSize)*S
  BY <1>0, LaunchAssumption
<1>2. k \in Nat /\ k - start \in Nat /\ k - start < (Warps*WarpSize)*S
  BY <1>0, <1>1 DEF Keys
<1>3. \A d, a, n \in Nat : d > 0 /\ a < n*d =>
        a \div d \in Nat /\ a \div d < n /\ (a \div d)*d <= a /\ a < (a \div d)*d + d
  OBVIOUS
<1>. HIDE DEF S
<1>4. q \in Nat /\ q < Warps*WarpSize /\ q*S <= k - start /\ k - start < q*S + S
  BY <1>0, <1>1, <1>2, <1>3
<1>. HIDE DEF q
<1>5. q \in Lane /\ q*S \in Nat
  BY <1>0, <1>1, <1>4 DEF Lane
<1>6. q*S = q*BatchesPerThread*B
  BY <1>0, <1>4 DEF S
<1>7. k \in Behind(q, BatchesPerThread)
  BY <1>1, <1>2, <1>4, <1>6 DEF Behind, FirstOf, S
<1>. QED BY <1>5, <1>7

LEMMA LaunchFacts ==
  ASSUME left \in 0..BatchesPerThread
  PROVE  /\ batches_per_launch \in 0..left
         /\ left > 0 => batches_per_launch > 0
BY LaunchAssumption DEF batches_per_launch, Least

-------------------------------------------------------------------------------
(* What the invariant says of a lane                                       *)

LEMMA KeyFacts ==
  ASSUME IInv, NEW l \in Lane
  PROVE  /\ start \in Nat /\ full \subseteq Nat /\ WarpOf(l) \in Warp /\ step[WarpOf(l)] \in 0..B-1
         /\ \A s \in 0..B-1 :
              /\ KeyAt(l, s) \in Int
              /\ KeyAt(l, s) \in full => x1[l] # Garbage /\ KeyAt(l, s) = x1[l] + Offset(s)
<1>1. start \in Nat /\ x1[l] \in Int /\ full \subseteq Keys
  BY RangeAssumption DEF IInv, TypeOK
<1>2. Keys \subseteq Nat
  BY <1>1, LaunchAssumption DEF Keys
<1>3. WarpOf(l) \in Warp /\ step[WarpOf(l)] \in 0..B-1
  BY WarpFacts DEF IInv, TypeOK
<1>4. Garbage \in Int /\ Garbage \notin full
  BY <1>1, <1>2 DEF Garbage
<1>5. \A s \in 0..B-1 : Offset(s) \in Int
  BY OffsetFacts, HalfFacts
<1>. QED BY <1>1, <1>2, <1>3, <1>4, <1>5 DEF KeyAt

LEMMA DoneFacts ==
  ASSUME IInv, NEW l \in Lane
  PROVE  /\ Done(l) \in Nat /\ BatchesPerThread - left \in Nat
         /\ Centre(l, Done(l)) \in Int
<1>1. /\ left \in 0..BatchesPerThread /\ batches_done[WarpOf(l)] \in Nat
      /\ BatchesPerThread \in Nat
  BY WarpFacts, LaunchAssumption DEF IInv, TypeOK
<1>2. batches_per_launch \in Nat
  BY <1>1, LaunchFacts
<1>3. Done(l) \in Nat /\ BatchesPerThread - left \in Nat
  BY <1>1, <1>2 DEF Done
<1>. QED BY <1>3, KeyFacts, CentreFacts

\* In a proper range a lane knows the keys of its batch.
LEMMA ProperKeys ==
  ASSUME IInv, NEW l \in Lane, Walking(l), Proper
  PROVE  /\ x1[l] = Centre(l, Done(l)) /\ ~Degenerate(x1[l])
         /\ \A s \in 0..B-1 :
              KeyAt(l, s) = Centre(l, Done(l)) + Offset(s) /\ KeyAt(l, s) # Garbage
<1>1. x1[l] = Centre(l, Done(l))
  BY DEF IInv, OnTrack
<1>2. /\ ~Degenerate(x1[l]) /\ x1[l] \in Nat /\ x1[l] - half \in Nat
  BY <1>1, KeyFacts, DoneFacts, CentreFacts
<1>3. x1[l] # Garbage
  BY <1>2 DEF Garbage
<1>4. ASSUME NEW s \in 0..B-1 PROVE KeyAt(l, s) = x1[l] + Offset(s) /\ KeyAt(l, s) # Garbage
  <2>1. KeyAt(l, s) = x1[l] + Offset(s)
    BY <1>2, <1>3 DEF KeyAt
  <2>2. Offset(s) \in -half..half-1
    BY OffsetFacts
  <2>. QED BY <1>2, <2>1, <2>2, HalfFacts DEF Garbage
<1>. QED BY <1>1, <1>2, <1>4

\* The scalar a lane with a match publishes is the key it matched.
LEMMA ScalarFacts ==
  ASSUME IInv, NEW l \in Lane, Voting(l)
  PROVE  /\ ScalarOf(l) \in Int
         /\ KeyOf(l) \in full => ScalarOf(l) = KeyOf(l)
<1>. DEFINE n == BatchesPerThread - left
            w == WarpOf(l)
<1>1. /\ Walking(l) /\ pc[l] # "exit"
  BY DEF Voting, Claiming, Publishing, Walking
<1>2. /\ hostpc = "kernel" /\ n \in Nat /\ w \in Warp /\ batches_done[w] \in Nat
  BY <1>1, DoneFacts, KeyFacts DEF IInv, TypeOK, Turns
<1>3. Done(l) = n + batches_done[w]
  BY <1>1, <1>2 DEF Done
<1>4. start_scalars[l] = Centre(l, n) /\ (x1[l] # Garbage => x1[l] = Centre(l, Done(l)))
  BY <1>1 DEF IInv, OnTrack
<1>5. /\ Centre(l, n) \in Nat /\ Centre(l, Done(l)) = Centre(l, n) + batches_done[w]*B
      /\ batches_done[w]*B \in Nat
  <2>1. \A m \in Nat : m*B \in Nat
    BY LaunchAssumption
  <2>2. Centre(l, n) \in Nat /\ \A m \in Nat : Centre(l, n + m) = Centre(l, n) + m*B
    BY <1>2, KeyFacts, CentreFacts
  <2>. QED BY <1>2, <1>3, <2>1, <2>2
<1>6. Offset(step[w]) \in Int
  BY KeyFacts, OffsetFacts, HalfFacts
<1>7. ScalarOf(l) = start_scalars[l] + batches_done[w]*B + Offset(step[w])
  BY DEF ScalarOf, WarpOf
<1>8. KeyOf(l) \in full => x1[l] # Garbage /\ KeyOf(l) = x1[l] + Offset(step[w])
  BY KeyFacts DEF KeyOf
<1>. HIDE DEF n, w
<1>. QED BY <1>4, <1>5, <1>6, <1>7, <1>8

\* A lane and a warp a step leaves alone.
Alone(l) ==
  /\ UNCHANGED <<pc[l], start_scalars[l], Px[l], x1[l]>>
  /\ UNCHANGED <<batches_done[WarpOf(l)], step[WarpOf(l)]>>

LEMMA LeftAlone ==
  ASSUME IInv, NEW l \in Lane, Alone(l), UNCHANGED <<inputs, hostpc, left>>,
         hashed \subseteq hashed', claimed => claimed'
  PROVE  OnTrack(l)' /\ UNCHANGED <<KeyOf(l), Done(l), Walking(l), Publishing(l), Claiming(l), Voting(l)>>
<1>. USE DEF Alone, inputs
<1>1. UNCHANGED <<Walking(l), Publishing(l), Claiming(l), Voting(l)>>
  BY DEF Walking, Publishing, Claiming, Voting
<1>2. /\ Done(l)' = Done(l) /\ (Stored(l)' => Stored(l)) /\ Proper' = Proper
  BY DEF Done, Stored, batches_per_launch, Between, Proper
<1>3. /\ \A n : Centre(l, n)' = Centre(l, n) /\ Behind(l, n)' = Behind(l, n)
      /\ \A s : KeyAt(l, s)' = KeyAt(l, s)
  BY DEF Centre, Behind, FirstOf, KeyAt
<1>4. KeyOf(l)' = KeyOf(l)
  BY DEF KeyOf, KeyAt
<1>5. OnTrack(l)
  BY DEF IInv
<1>. QED BY <1>1, <1>2, <1>3, <1>4, <1>5 DEF OnTrack

-------------------------------------------------------------------------------
(* The steps of a warp                                                     *)

Intrinsics == {"ballot", "test", "vote"}

LEMMA WarpAt ==
  ASSUME IInv, NEW w \in Warp, NEW place \in Intrinsics, mask[w] # {}, At(w, place)
  PROVE  /\ hostpc = "kernel"
         /\ \A l \in Lane : /\ WarpOf(l) = w <=> l \in mask[w]
                            /\ WarpOf(l) = w => pc[l] = place
         /\ \A keys : Hits(w, keys) = {l \in Lane : WarpOf(l) = w /\ KeyOf(l) \in keys}
<1>1. PICK l \in mask[w] : pc[l] = place
  BY DEF At
<1>2. l \in Lane /\ Walking(l)
  BY <1>1 DEF IInv, TypeOK, Walking, Intrinsics
<1>3. hostpc = "kernel" /\ mask[w] = LanesOf(w)
  BY <1>2 DEF IInv, Turns
<1>4. mask[w] = {m \in Lane : WarpOf(m) = w}
  BY <1>3, WarpFacts
<1>. QED BY <1>3, <1>4 DEF At, Hits, KeyOf

\* What any step of a warp keeps: it neither enters nor leaves the publication, and no other warp moves.
WarpMoves(w) ==
  /\ hostpc = "kernel"
  /\ \A l \in Lane : /\ WarpOf(l) = w => pc[l] \in Intrinsics
                     /\ pc'[l] \in Intrinsics \union {"claim", "writeback", "exit"} \/ pc'[l] = pc[l]
                     /\ WarpOf(l) # w => pc'[l] = pc[l] /\ x1'[l] = x1[l]
  /\ \A v \in Warp : v # w => UNCHANGED <<batches_done[v], step[v]>>
  /\ pc' \in [Lane -> Places] /\ x1' \in [Lane -> Int]
  /\ batches_done' \in [Warp -> Nat] /\ step' \in [Warp -> 0..B-1]
  /\ UNCHANGED <<inputs, host, memory, mask, page>>
  /\ hashed \subseteq hashed'

LEMMA WarpKeeps ==
  ASSUME IInv, NEW w \in Warp, WarpMoves(w)
  PROVE  /\ TypeOK' /\ Turns' /\ Protocol' /\ Content'
         /\ \A l \in Lane : WarpOf(l) # w =>
              /\ OnTrack(l)'
              /\ UNCHANGED <<pc[l], KeyOf(l), Walking(l), Publishing(l), Claiming(l), Voting(l)>>
<1>. USE DEF WarpMoves, inputs, host, memory, page
<1>1. ASSUME NEW l \in Lane, WarpOf(l) # w
      PROVE  /\ OnTrack(l)'
             /\ UNCHANGED <<pc[l], KeyOf(l), Walking(l), Publishing(l), Claiming(l), Voting(l)>>
  <2>1. Alone(l)
    BY <1>1, WarpFacts DEF Alone
  <2>2. UNCHANGED <<inputs, hostpc, left>> /\ (claimed => claimed')
    OBVIOUS
  <2>3. pc'[l] = pc[l]
    BY <1>1
  <2>. HIDE DEF WarpMoves, inputs
  <2>4. hashed \subseteq hashed'
    BY DEF WarpMoves
  <2>. QED BY <2>1, <2>2, <2>3, <2>4, LeftAlone
<1>2. ASSUME NEW l \in Lane
      PROVE  /\ Publishing(l)' = Publishing(l) /\ pc'[l] # "idle"
             /\ pc'[l] = "fence" <=> pc[l] = "fence"
             /\ pc'[l] = "flag" <=> pc[l] = "flag"
             /\ Publishing(l) => WarpOf(l) # w
  BY DEF Publishing, Intrinsics, IInv, Turns
<1>3. TypeOK'
  <2>1. TypeOK
    BY DEF IInv
  <2>. QED BY <2>1 DEF TypeOK, Keys
<1>4. Turns'
  BY <1>2 DEF IInv, Turns, Between
<1>5. Protocol'
  BY <1>2 DEF IInv, Protocol
<1>6. Content'
  <2>1. ASSUME NEW l \in Lane, Publishing(l)  PROVE ScalarOf(l)' = ScalarOf(l)
    <3>1. WarpOf(l) # w /\ WarpOf(l) \in Warp
      BY <1>2, <2>1, WarpFacts
    <3>. QED BY <3>1 DEF ScalarOf, WarpOf
  <2>2. \A l \in Lane : pc[l] \in {"fence", "flag"} => Publishing(l)
    BY DEF Publishing
  <2>. QED BY <1>2, <2>1, <2>2 DEF IInv, Content, Whole
<1>. QED BY <1>1, <1>3, <1>4, <1>5, <1>6

LEMMA BallotStep == ASSUME IInv, NEW w \in Warp, Ballot(w) PROVE IInv'
<1>. USE DEF inputs, host, memory, page
<1>1. /\ hostpc = "kernel"
      /\ \A l \in Lane : /\ WarpOf(l) = w <=> l \in mask[w]
                         /\ WarpOf(l) = w => pc[l] = "ballot"
  BY WarpAt DEF Ballot, Intrinsics
<1>2. /\ step' = [step EXCEPT ![w] = 0]
      /\ UNCHANGED <<inputs, host, memory, mask, batches_done, x1, page, hashed>>
      /\ \A l \in Lane : pc'[l] = IF WarpOf(l) = w THEN IF Live(w) THEN "test" ELSE "writeback" ELSE pc[l]
      /\ pc' \in [Lane -> Places]
  BY <1>1 DEF Ballot, Goto, IInv, TypeOK, Places
<1>3. WarpMoves(w)
  BY <1>1, <1>2, HalfFacts DEF WarpMoves, Intrinsics, IInv, TypeOK
<1>4. /\ TypeOK' /\ Turns' /\ Protocol' /\ Content'
      /\ \A l \in Lane : WarpOf(l) # w =>
           /\ OnTrack(l)'
           /\ UNCHANGED <<pc[l], KeyOf(l), Walking(l), Publishing(l), Claiming(l), Voting(l)>>
  BY <1>3, WarpKeeps
<1>5. ASSUME NEW l \in Lane, WarpOf(l) = w
      PROVE  /\ Walking(l) /\ Walking(l)' /\ ~Voting(l) /\ ~Voting(l)' /\ ~Claiming(l) /\ ~Claiming(l)'
             /\ pc[l] = "ballot" /\ pc'[l] = (IF Live(w) THEN "test" ELSE "writeback")
  BY <1>1, <1>2, <1>5 DEF Walking, Voting, Claiming, Publishing
<1>6. Together'
  BY <1>4, <1>5 DEF IInv, Together
<1>7. Progress'
  <2>1. /\ batches_per_launch' = batches_per_launch
        /\ batches_per_launch \in Nat
    BY <1>2, LaunchFacts DEF batches_per_launch, IInv, TypeOK
  <2>2. Live(w) <=> batches_done[w] < batches_per_launch
    BY DEF Live
  <2>3. ASSUME NEW l \in Lane, WarpOf(l) = w, Walking(l)
        PROVE  batches_done[w] \in Nat /\ batches_done[w] <= batches_per_launch
    BY <2>3 DEF IInv, Progress, TypeOK
  <2>. QED BY <1>2, <1>4, <1>5, <2>1, <2>2, <2>3 DEF IInv, Progress
<1>8. Matches'
  <2>1. \A l \in Lane : Claiming(l)' \/ pc'[l] \in {"vote", "claim"} => WarpOf(l) # w
    BY <1>5
  <2>2. \A l \in Lane : pc[l] = "claim" => WarpOf(l) # w
    BY <1>5
  <2>. QED BY <1>2, <1>4, <2>1, <2>2 DEF IInv, Matches
<1>9. ASSUME NEW l \in Lane, WarpOf(l) = w PROVE OnTrack(l)'
  <2>1. /\ Walking(l) /\ pc[l] = "ballot" /\ Walking(l)' /\ ~Voting(l)' /\ OnTrack(l)
        /\ pc'[l] \in {"test", "writeback"} /\ step'[w] = 0
    BY <1>2, <1>5, <1>9 DEF IInv, TypeOK
  <2>2. /\ Done(l)' = Done(l) /\ Proper' = Proper /\ ~Stored(l)'
        /\ \A n : Centre(l, n)' = Centre(l, n) /\ Behind(l, n)' = Behind(l, n)
    BY <1>1, <1>2, <2>1 DEF Done, Stored, Between, Proper, Centre, Behind, FirstOf
  <2>. QED BY <1>2, <1>9, <2>1, <2>2 DEF OnTrack
<1>. QED BY <1>4, <1>6, <1>7, <1>8, <1>9 DEF IInv

\* The warp goes on to the next key, or to the next batch: what it leaves behind was hashed and matches
\* nothing.
LEMMA AdvanceStep ==
  ASSUME IInv, NEW w \in Warp, NEW place \in {"test", "vote"}, mask[w] # {}, At(w, place),
         Hits(w, full) = {}, Advance(w),
         UNCHANGED <<inputs, host, memory, mask, page>>,
         hashed \subseteq hashed', hashed' \intersect full \subseteq hashed,
         Proper => \A l \in Lane : WarpOf(l) = w =>
                     \A s \in 0..step[w] : KeyAt(l, s) \in hashed'
  PROVE  IInv'
<1>. USE DEF inputs, host, memory, page
<1>1. /\ hostpc = "kernel"
      /\ \A l \in Lane : /\ WarpOf(l) = w <=> l \in mask[w]
                         /\ WarpOf(l) = w => pc[l] = place /\ KeyOf(l) \notin full
  BY WarpAt DEF Intrinsics
<1>. DEFINE more == step[w] < B - 1
<1>2. /\ step[w] \in 0..B-1 /\ batches_done[w] \in Nat
      /\ step' = (IF more THEN [step EXCEPT ![w] = @ + 1] ELSE step)
      /\ batches_done' = (IF more THEN batches_done ELSE [batches_done EXCEPT ![w] = @ + 1])
      /\ \A l \in Lane : pc'[l] = IF WarpOf(l) = w THEN IF more THEN "test" ELSE "ballot" ELSE pc[l]
      /\ \A l \in Lane : x1'[l] = IF WarpOf(l) = w /\ ~more THEN Jump(x1[l]) ELSE x1[l]
      /\ pc' \in [Lane -> Places] /\ x1' \in [Lane -> Int]
  <2>1. /\ step[w] \in 0..B-1 /\ batches_done[w] \in Nat
        /\ pc \in [Lane -> Places] /\ x1 \in [Lane -> Int]
    BY DEF IInv, TypeOK
  <2>2. \A c \in Int : Jump(c) \in Int
    BY LaunchAssumption DEF Jump, Garbage
  <2>. QED BY <1>1, <2>1, <2>2 DEF Advance, Goto, Places
<1>. HIDE DEF more
<1>3. WarpMoves(w)
  <2>1. /\ batches_done' \in [Warp -> Nat] /\ step' \in [Warp -> 0..B-1]
        /\ \A v \in Warp : v # w => UNCHANGED <<batches_done[v], step[v]>>
    <3>1. step[w] \in 0..B-1 /\ (more => step[w] + 1 \in 0..B-1) /\ batches_done[w] + 1 \in Nat
      BY <1>2, HalfFacts DEF more
    <3>2. batches_done \in [Warp -> Nat] /\ step \in [Warp -> 0..B-1]
      BY DEF IInv, TypeOK
    <3>3. batches_done' \in [Warp -> Nat] /\ step' \in [Warp -> 0..B-1]
      BY <1>2, <3>1, <3>2
    <3>. QED BY <1>2, <3>2, <3>3
  <2>. QED BY <1>1, <1>2, <2>1 DEF WarpMoves, Intrinsics
<1>4. /\ TypeOK' /\ Turns' /\ Protocol' /\ Content'
      /\ \A l \in Lane : WarpOf(l) # w =>
           /\ OnTrack(l)'
           /\ UNCHANGED <<pc[l], KeyOf(l), Walking(l), Publishing(l), Claiming(l), Voting(l)>>
  BY <1>3, WarpKeeps
<1>5. ASSUME NEW l \in Lane, WarpOf(l) = w
      PROVE  /\ Walking(l) /\ Walking(l)' /\ ~Voting(l)' /\ ~Claiming(l) /\ ~Claiming(l)'
             /\ pc[l] = place /\ pc'[l] = (IF more THEN "test" ELSE "ballot")
             /\ pc[l] = "test" \/ Voting(l)
  BY <1>1, <1>2, <1>5 DEF Walking, Voting, Claiming, Publishing
<1>6. Together'
  BY <1>4, <1>5 DEF IInv, Together
<1>7. Progress'
  <2>1. /\ batches_per_launch' = batches_per_launch
        /\ batches_per_launch \in Nat
    BY LaunchFacts DEF batches_per_launch, IInv, TypeOK
  <2>2. ASSUME NEW l \in Lane, WarpOf(l) = w
        PROVE  batches_done[w] < batches_per_launch
    BY <1>5, <2>2 DEF IInv, Progress
  <2>3. /\ batches_done'[w] = (IF more THEN batches_done[w] ELSE batches_done[w] + 1)
        /\ \A v \in Warp : v # w => batches_done'[v] = batches_done[v]
    BY <1>2 DEF IInv, TypeOK
  <2>. QED BY <1>2, <1>4, <1>5, <2>1, <2>2, <2>3, WarpFacts DEF IInv, Progress
<1>8. Matches'
  <2>1. \A l \in Lane : Claiming(l)' \/ pc'[l] \in {"vote", "claim"} => WarpOf(l) # w
    BY <1>5
  <2>2. \A l \in Lane : pc[l] = "claim" => WarpOf(l) # w
    BY <1>5 DEF Claiming
  <2>. QED BY <1>4, <2>1, <2>2 DEF IInv, Matches
<1>9. ASSUME NEW l \in Lane, WarpOf(l) = w PROVE OnTrack(l)'
  <2>1. /\ Walking(l) /\ pc[l] = place /\ Walking(l)' /\ ~Voting(l)' /\ OnTrack(l)
        /\ pc'[l] = (IF more THEN "test" ELSE "ballot")
    BY <1>5, <1>9 DEF IInv
  <2>2. /\ Proper' = Proper /\ ~Stored(l)'
        /\ start_scalars'[l] = start_scalars[l] /\ left' = left
        /\ \A n : Centre(l, n)' = Centre(l, n) /\ Behind(l, n)' = Behind(l, n)
    BY <1>1, <2>1 DEF Stored, Between, Proper, Centre, Behind, FirstOf
  <2>3. CASE more
    <3>1. /\ Done(l)' = Done(l) /\ x1'[l] = x1[l] /\ step'[w] = step[w] + 1
          /\ \A s : KeyAt(l, s)' = KeyAt(l, s)
      BY <1>2, <2>1, <2>3 DEF Done, KeyAt, IInv, TypeOK
    <3>2. Proper => \A s \in 0..step'[w]-1 : KeyAt(l, s)' \in hashed'
      BY <1>2, <1>9, <3>1
    <3>. QED BY <1>2, <1>9, <2>1, <2>2, <2>3, <3>1, <3>2 DEF OnTrack
  <2>4. CASE ~more
    <3>1. /\ Done(l)' = Done(l) + 1 /\ Done(l) \in Nat /\ x1'[l] = Jump(x1[l]) /\ pc'[l] = "ballot"
      <4>1. left \in 0..BatchesPerThread /\ BatchesPerThread \in Nat
        BY LaunchAssumption DEF IInv, TypeOK
      <4>2. batches_done'[w] = batches_done[w] + 1
        BY <1>2, <2>4 DEF IInv, TypeOK
      <4>. QED BY <1>1, <1>2, <1>9, <2>1, <2>4, <4>1, <4>2, DoneFacts DEF Done
    <3>2. /\ Centre(l, Done(l) + 1) = Centre(l, Done(l)) + B
          /\ Behind(l, Done(l) + 1) \subseteq
               Behind(l, Done(l)) \union {Centre(l, Done(l)) + Offset(s) : s \in 0..B-1}
          /\ Proper => ~Degenerate(Centre(l, Done(l)))
      BY <3>1, KeyFacts, CentreFacts, BehindFacts
    <3>3. x1'[l] = Centre(l, Done(l) + 1) \/ (x1'[l] = Garbage /\ ~Proper)
      BY <2>1, <3>1, <3>2 DEF OnTrack, Jump, Degenerate
    <3>4. Proper => Behind(l, Done(l) + 1) \subseteq hashed'
      <4>. SUFFICES ASSUME Proper PROVE Behind(l, Done(l) + 1) \subseteq hashed'
        OBVIOUS
      <4>1. Behind(l, Done(l)) \subseteq hashed'
        BY <2>1 DEF OnTrack
      <4>2. step[w] = B - 1
        BY <1>2, <2>4, HalfFacts DEF more
      <4>3. \A s \in 0..B-1 : Centre(l, Done(l)) + Offset(s) \in hashed'
        BY <1>9, <2>1, <4>2, ProperKeys
      <4>. QED BY <3>2, <4>1, <4>3
    <3>. QED BY <2>1, <2>2, <3>1, <3>3, <3>4 DEF OnTrack
  <2>. QED BY <2>3, <2>4
<1>. QED BY <1>4, <1>6, <1>7, <1>8, <1>9 DEF IInv

LEMMA TestStep == ASSUME IInv, NEW w \in Warp, Test(w) PROVE IInv'
<1>. USE DEF inputs, host, memory, page
<1>1. /\ hostpc = "kernel" /\ mask[w] # {} /\ At(w, "test")
      /\ \A l \in Lane : /\ WarpOf(l) = w <=> l \in mask[w]
                         /\ WarpOf(l) = w => pc[l] = "test"
      /\ \A keys : Hits(w, keys) = {l \in Lane : WarpOf(l) = w /\ KeyOf(l) \in keys}
  <2>1. mask[w] # {} /\ At(w, "test")
    BY DEF Test
  <2>. QED BY <2>1, WarpAt DEF Intrinsics
<1>2. /\ hashed' = hashed \union ({KeyAt(l, step[w]) : l \in mask[w]} \ {Garbage})
      /\ UNCHANGED <<inputs, host, memory, mask, page>>
  BY DEF Test
<1>2a. \A k \in hashed' : k \in hashed \/ \E l \in Lane : WarpOf(l) = w /\ KeyOf(l) = k
  <2>1. mask[w] \subseteq Lane
    BY DEF IInv, TypeOK
  <2>. QED BY <1>1, <1>2, <2>1 DEF KeyOf
<1>3. ASSUME NEW l \in Lane, WarpOf(l) = w
      PROVE  Walking(l) /\ pc[l] = "test" /\ ~Claiming(l) /\ ~Voting(l)
  BY <1>1, <1>3 DEF Walking, Voting, Claiming, Publishing
<1>4. ASSUME Proper, NEW l \in Lane, WarpOf(l) = w, NEW s \in 0..step[w]
      PROVE  KeyAt(l, s) \in hashed'
  <2>1. step[w] \in 0..B-1
    BY DEF IInv, TypeOK
  <2>2. CASE s = step[w]
    <3>1. KeyAt(l, s) # Garbage
      BY <1>3, <1>4, <2>1, <2>2, ProperKeys
    <3>. QED BY <1>1, <1>2, <1>4, <2>2, <3>1
  <2>3. CASE s # step[w]
    <3>1. s \in 0..step[w]-1
      BY <2>1, <2>3
    <3>. QED BY <1>2, <1>3, <1>4, <3>1 DEF IInv, OnTrack
  <2>. QED BY <2>2, <2>3
<1>5. CASE Hits(w, pref) = {}
  <2>1. Hits(w, full) = {}
    BY <1>1, <1>5 DEF IInv, TypeOK
  <2>2. hashed' \intersect full \subseteq hashed
    BY <1>1, <1>2a, <2>1
  <2>3. Advance(w)
    BY <1>5 DEF Test
  <2>. QED BY <1>1, <1>2, <1>4, <2>1, <2>2, <2>3, AdvanceStep
<1>6. CASE Hits(w, pref) # {}
  <2>1. /\ UNCHANGED <<batches_done, step, x1>> /\ pc' \in [Lane -> Places]
        /\ \A l \in Lane : pc'[l] = IF WarpOf(l) = w
                                    THEN IF KeyOf(l) \in full THEN "claim" ELSE "vote" ELSE pc[l]
    BY <1>1, <1>6 DEF Test, IInv, TypeOK, Places
  <2>2. WarpMoves(w)
    <3>1. x1 \in [Lane -> Int] /\ batches_done \in [Warp -> Nat] /\ step \in [Warp -> 0..B-1]
      BY DEF IInv, TypeOK
    <3>. QED BY <1>1, <1>2, <2>1, <3>1 DEF WarpMoves, Intrinsics
  <2>3. /\ TypeOK' /\ Turns' /\ Protocol' /\ Content'
        /\ \A l \in Lane : WarpOf(l) # w =>
             /\ OnTrack(l)'
             /\ UNCHANGED <<pc[l], KeyOf(l), Walking(l), Publishing(l), Claiming(l), Voting(l)>>
    BY <2>2, WarpKeeps
  <2>4. ASSUME NEW l \in Lane, WarpOf(l) = w
        PROVE  /\ Walking(l)' /\ Voting(l)' /\ KeyOf(l)' = KeyOf(l)
               /\ \A s : KeyAt(l, s)' = KeyAt(l, s)
               /\ pc'[l] = (IF KeyOf(l) \in full THEN "claim" ELSE "vote")
               /\ Claiming(l)' => KeyOf(l) \in full
    BY <2>1, <2>4 DEF Walking, Voting, Claiming, Publishing, KeyOf, KeyAt
  <2>5. Together'
    BY <2>3, <2>4 DEF IInv, Together
  <2>6. Progress'
    <3>1. batches_per_launch' = batches_per_launch
      BY <1>2 DEF batches_per_launch
    <3>. QED BY <1>3, <2>1, <2>3, <2>4, <3>1 DEF IInv, Progress
  <2>7. Matches'
    <3>1. \A l \in Lane : pc[l] = "claim" => WarpOf(l) # w
      BY <1>3
    <3>2. ASSUME ~claimed, NEW k \in hashed' \intersect full
          PROVE  \E l \in Lane : pc'[l] = "claim" /\ KeyOf(l)' = k
      <4>1. CASE k \in hashed
        BY <2>3, <3>1, <3>2, <4>1 DEF IInv, Matches
      <4>2. CASE k \notin hashed
        <5>1. PICK l \in Lane : WarpOf(l) = w /\ k = KeyOf(l)
          BY <1>2a, <3>2, <4>2
        <5>. QED BY <2>4, <3>2, <5>1
      <4>. QED BY <4>1, <4>2
    <3>3. ASSUME NEW l \in Lane
          PROVE  /\ Claiming(l)' => KeyOf(l)' \in full'
                 /\ pc'[l] = "vote" /\ KeyOf(l)' \in full' => claimed'
      <4>1. CASE WarpOf(l) = w
        BY <1>2, <2>4, <4>1
      <4>2. CASE WarpOf(l) # w
        BY <1>2, <2>3, <4>2 DEF IInv, Matches
      <4>. QED BY <4>1, <4>2
    <3>. QED BY <1>2, <3>2, <3>3 DEF Matches
  <2>8. ASSUME NEW l \in Lane, WarpOf(l) = w PROVE OnTrack(l)'
    <3>1. /\ Walking(l) /\ Walking(l)' /\ Voting(l)' /\ OnTrack(l) /\ pc'[l] # "test"
          /\ step' = step /\ pc[l] = "test"
      BY <1>3, <2>1, <2>4, <2>8 DEF IInv
    <3>2. /\ Done(l)' = Done(l) /\ Proper' = Proper /\ ~Stored(l)'
          /\ \A n : Centre(l, n)' = Centre(l, n) /\ Behind(l, n)' = Behind(l, n)
      <4>1. pc'[l] # "exit"
        BY <2>4, <2>8
      <4>. QED BY <1>1, <1>2, <2>1, <2>8, <3>1, <4>1
        DEF Done, Stored, batches_per_launch, Between, Proper, Centre, Behind, FirstOf
    <3>3. Proper => \A s \in 0..step[w] : KeyAt(l, s)' \in hashed'
      BY <1>4, <2>4, <2>8
    <3>4. hashed \subseteq hashed' /\ x1' = x1 /\ start_scalars' = start_scalars /\ left' = left
      BY <1>2, <2>1
    <3>. QED BY <2>8, <3>1, <3>2, <3>3, <3>4 DEF OnTrack
  <2>. QED BY <2>3, <2>5, <2>6, <2>7, <2>8 DEF IInv
<1>. QED BY <1>5, <1>6

LEMMA VoteStep == ASSUME IInv, NEW w \in Warp, Vote(w) PROVE IInv'
<1>. USE DEF inputs, host, memory, page
<1>1. /\ hostpc = "kernel" /\ mask[w] # {} /\ At(w, "vote")
      /\ \A l \in Lane : /\ WarpOf(l) = w <=> l \in mask[w]
                         /\ WarpOf(l) = w => pc[l] = "vote"
      /\ \A keys : Hits(w, keys) = {l \in Lane : WarpOf(l) = w /\ KeyOf(l) \in keys}
  <2>1. mask[w] # {} /\ At(w, "vote")
    BY DEF Vote
  <2>. QED BY <2>1, WarpAt DEF Intrinsics
<1>2. UNCHANGED <<inputs, host, memory, mask, page, hashed>>
  BY DEF Vote
<1>3. ASSUME NEW l \in Lane, WarpOf(l) = w PROVE Walking(l) /\ Voting(l) /\ ~Claiming(l)
  BY <1>1, <1>3 DEF Walking, Voting, Claiming, Publishing
<1>4. CASE Hits(w, full) = {}
  <2>1. Proper => \A l \in Lane : WarpOf(l) = w => \A s \in 0..step[w] : KeyAt(l, s) \in hashed'
    BY <1>2, <1>3 DEF IInv, OnTrack
  <2>2. Advance(w)
    BY <1>4 DEF Vote
  <2>. QED BY <1>1, <1>2, <1>4, <2>1, <2>2, AdvanceStep
<1>5. CASE Hits(w, full) # {}
  <2>1. /\ UNCHANGED <<batches_done, step, x1>> /\ pc' \in [Lane -> Places]
        /\ \A l \in Lane : pc'[l] = IF WarpOf(l) = w THEN "exit" ELSE pc[l]
    BY <1>1, <1>5 DEF Vote, Leaving, IInv, TypeOK, Places
  <2>2. claimed /\ claimed'
    BY <1>1, <1>2, <1>5 DEF IInv, Matches
  <2>3. WarpMoves(w)
    <3>1. x1 \in [Lane -> Int] /\ batches_done \in [Warp -> Nat] /\ step \in [Warp -> 0..B-1]
      BY DEF IInv, TypeOK
    <3>. QED BY <1>1, <1>2, <2>1, <3>1 DEF WarpMoves, Intrinsics
  <2>4. /\ TypeOK' /\ Turns' /\ Protocol' /\ Content'
        /\ \A l \in Lane : WarpOf(l) # w =>
             /\ OnTrack(l)'
             /\ UNCHANGED <<pc[l], KeyOf(l), Walking(l), Publishing(l), Claiming(l), Voting(l)>>
    BY <2>3, WarpKeeps
  <2>5. ASSUME NEW l \in Lane, WarpOf(l) = w
        PROVE  pc'[l] = "exit" /\ ~Walking(l)' /\ ~Voting(l)' /\ ~Claiming(l)' /\ ~Stored(l)'
    BY <1>1, <1>2, <2>1, <2>2, <2>5 DEF Walking, Voting, Claiming, Publishing, Stored, Between
  <2>6. Together'
    BY <2>4, <2>5 DEF IInv, Together
  <2>7. Progress'
    <3>1. batches_per_launch' = batches_per_launch
      BY <1>2 DEF batches_per_launch
    <3>. QED BY <2>1, <2>4, <2>5, <3>1 DEF IInv, Progress
  <2>8. Matches'
    BY <1>2, <2>2, <2>4, <2>5 DEF IInv, Matches
  <2>9. ASSUME NEW l \in Lane, WarpOf(l) = w PROVE OnTrack(l)'
    BY <2>5, <2>9 DEF OnTrack
  <2>. QED BY <2>4, <2>6, <2>7, <2>8, <2>9 DEF IInv
<1>. QED BY <1>4, <1>5

-------------------------------------------------------------------------------
(* The steps of a lane                                                     *)

\* What every step of the publication keeps: the lane stays where its warp votes.
PublishMoves(l) ==
  /\ Voting(l) /\ Voting(l)' /\ pc' \in [Lane -> Places]
  /\ \A m \in Lane : m # l => pc'[m] = pc[m]
  /\ UNCHANGED <<inputs, host, memory, walk, hashed>>
  /\ claimed => claimed'

LEMMA PublishKeeps ==
  ASSUME IInv, NEW l \in Lane, PublishMoves(l)
  PROVE  /\ hostpc = "kernel" /\ Turns' /\ Together' /\ Progress'
         /\ \A m \in Lane : OnTrack(m)'
         /\ \A m \in Lane : UNCHANGED <<KeyOf(m), ScalarOf(m)>>
<1>. USE DEF PublishMoves, inputs, host, memory, walk
<1>1. /\ Walking(l) /\ Walking(l)' /\ pc'[l] \notin {"idle", "ballot", "test", "writeback", "exit"}
      /\ pc[l] \notin {"idle", "ballot", "test", "writeback", "exit"}
  BY DEF Walking, Voting, Claiming, Publishing
<1>2. hostpc = "kernel" /\ left > 0
  BY <1>1 DEF IInv, Turns
<1>3. ASSUME NEW m \in Lane
      PROVE  /\ Walking(m)' = Walking(m) /\ Voting(m)' = Voting(m)
             /\ pc'[m] \in {"ballot", "test"} => m # l
             /\ pc'[m] \notin {"store", "fence", "flag", "claim", "vote"} => pc'[m] = pc[m]
             /\ KeyOf(m)' = KeyOf(m) /\ ScalarOf(m)' = ScalarOf(m)
  <2>1. CASE m = l
    BY <1>1, <2>1 DEF KeyOf, KeyAt, ScalarOf, Voting, Claiming, Publishing
  <2>2. CASE m # l
    BY DEF Walking, Voting, Claiming, Publishing, KeyOf, KeyAt, ScalarOf
  <2>. QED BY <2>1, <2>2
<1>4. Turns'
  BY <1>1 DEF IInv, Turns, Between
<1>5. Together'
  <2>1. ASSUME NEW m \in Lane, pc'[m] \in {"ballot", "test"}, NEW n \in Lane, WarpOf(m) = WarpOf(n)
        PROVE  pc'[n] = pc'[m]
    <3>1. pc'[m] = pc[m] /\ pc[n] = pc[m]
      BY <1>3, <2>1 DEF IInv, Together
    <3>2. n # l
      BY <1>1, <2>1, <3>1
    <3>. QED BY <3>1, <3>2
  <2>. QED BY <1>3, <2>1 DEF IInv, Together
<1>6. Progress'
  <2>1. batches_per_launch' = batches_per_launch
    BY DEF batches_per_launch
  <2>2. \A m \in Lane : /\ pc'[m] = "test" => pc[m] = "test"
                        /\ pc'[m] = "writeback" => pc[m] = "writeback"
    BY <1>3
  <2>. QED BY <1>3, <2>1, <2>2 DEF IInv, Progress
<1>7. ASSUME NEW m \in Lane PROVE OnTrack(m)'
  <2>1. CASE m # l
    <3>1. Alone(m) /\ UNCHANGED <<inputs, hostpc, left>> /\ pc'[m] = pc[m]
      BY <2>1 DEF Alone
    <3>2. hashed \subseteq hashed' /\ (claimed => claimed')
      OBVIOUS
    <3>. HIDE DEF PublishMoves, inputs
    <3>. QED BY <3>1, <3>2, LeftAlone
  <2>2. CASE m = l
    <3>1. /\ Done(l)' = Done(l) /\ Proper' = Proper /\ ~Stored(l)' /\ OnTrack(l)
          /\ \A n : Centre(l, n)' = Centre(l, n) /\ Behind(l, n)' = Behind(l, n)
          /\ \A s : KeyAt(l, s)' = KeyAt(l, s)
      BY <1>1, <1>2 DEF Done, Stored, batches_per_launch, Between, Proper, Centre, Behind, FirstOf,
         KeyAt, IInv
    <3>. QED BY <1>1, <2>2, <3>1 DEF OnTrack
  <2>. QED BY <2>1, <2>2
<1>. QED BY <1>2, <1>3, <1>4, <1>5, <1>6, <1>7

LEMMA ClaimStep == ASSUME IInv, NEW l \in Lane, Claim(l) PROVE IInv'
<1>. USE DEF inputs, host, memory, walk
<1>1. /\ pc[l] = "claim" /\ pc' = [pc EXCEPT ![l] = IF claimed THEN "vote" ELSE "store"]
      /\ claimed' = TRUE /\ UNCHANGED <<inputs, host, memory, walk, found, scalar, sent, hashed>>
  BY DEF Claim
<1>2. PublishMoves(l)
  BY <1>1 DEF PublishMoves, Voting, Claiming, Publishing, IInv, TypeOK, Places
<1>3. /\ hostpc = "kernel" /\ Turns' /\ Together' /\ Progress' /\ \A m \in Lane : OnTrack(m)'
      /\ \A m \in Lane : UNCHANGED <<KeyOf(m), ScalarOf(m)>>
  BY <1>2, PublishKeeps
<1>4. \A m \in Lane : pc'[m] = IF m = l THEN IF claimed THEN "vote" ELSE "store" ELSE pc[m]
  BY <1>1 DEF IInv, TypeOK
<1>5. TypeOK'
  BY <1>1 DEF IInv, TypeOK, Keys, Places
<1>6. Protocol'
  <2>1. \A m \in Lane : Publishing(m)' <=> Publishing(m) \/ (m = l /\ ~claimed)
    BY <1>1, <1>4 DEF Publishing
  <2>. QED BY <1>1, <2>1 DEF IInv, Protocol
<1>7. Content'
  BY <1>1, <1>3 DEF IInv, Content
<1>8. Matches'
  <2>1. KeyOf(l) \in full /\ \A m \in Lane : Claiming(m)' => Claiming(m)
    BY <1>1 DEF IInv, Matches, Claiming, Publishing
  <2>. QED BY <1>1, <1>3, <2>1 DEF IInv, Matches
<1>. QED BY <1>3, <1>5, <1>6, <1>7, <1>8 DEF IInv

LEMMA StoreStep == ASSUME IInv, NEW l \in Lane, Store(l) PROVE IInv'
<1>. USE DEF inputs, host, memory, walk
<1>1. /\ pc[l] = "store" /\ pc' = [pc EXCEPT ![l] = "fence"] /\ sent' = [sent EXCEPT ![l] = 1..Limbs]
      /\ UNCHANGED <<inputs, host, memory, walk, claimed, found, scalar, hashed>>
  BY DEF Store
<1>2. PublishMoves(l)
  BY <1>1 DEF PublishMoves, Voting, Claiming, Publishing, IInv, TypeOK, Places
<1>3. /\ hostpc = "kernel" /\ Turns' /\ Together' /\ Progress' /\ \A m \in Lane : OnTrack(m)'
      /\ \A m \in Lane : UNCHANGED <<KeyOf(m), ScalarOf(m)>>
  BY <1>2, PublishKeeps
<1>4. \A m \in Lane : pc'[m] = IF m = l THEN "fence" ELSE pc[m]
  BY <1>1 DEF IInv, TypeOK
<1>5. TypeOK'
  BY <1>1 DEF IInv, TypeOK, Keys, Places
<1>6. \A m \in Lane : /\ Publishing(m)' = Publishing(m) /\ Claiming(m)' = Claiming(m)
                      /\ pc'[m] = "claim" <=> pc[m] = "claim"
                      /\ pc'[m] = "vote" <=> pc[m] = "vote"
  BY <1>1, <1>4 DEF Publishing, Claiming
<1>7. Protocol'
  BY <1>1, <1>6 DEF IInv, Protocol
<1>8. Content'
  <2>1. \A m \in Lane : sent'[m] = IF m = l THEN 1..Limbs ELSE sent[m]
    BY <1>1 DEF IInv, TypeOK
  <2>2. \A m \in Lane : sent'[m] # {} => pc'[m] = "fence"
    BY <1>4, <2>1 DEF IInv, Content
  <2>3. \A m \in Lane : pc'[m] \in {"fence", "flag"} =>
          \A j \in 1..Limbs : j \in sent'[m] \/ scalar'[j] = ScalarOf(m)'
    <3>1. \A m \in Lane : pc[m] \in {"fence", "flag"} =>
            \A j \in 1..Limbs : j \in sent[m] \/ scalar[j] = ScalarOf(m)
      BY DEF IInv, Content
    <3>2. ASSUME NEW m \in Lane, pc'[m] \in {"fence", "flag"}, NEW j \in 1..Limbs
          PROVE  j \in sent'[m] \/ scalar'[j] = ScalarOf(m)'
      <4>1. CASE m = l
        BY <2>1, <4>1
      <4>2. CASE m # l
        BY <1>1, <1>3, <1>4, <2>1, <3>1, <3>2, <4>2
      <4>. QED BY <4>1, <4>2
    <3>. QED BY <3>2
  <2>. QED BY <1>1, <1>3, <2>2, <2>3 DEF IInv, Content, Whole
<1>9. Matches'
  BY <1>1, <1>3, <1>6 DEF IInv, Matches
<1>. QED BY <1>3, <1>5, <1>7, <1>8, <1>9 DEF IInv

LEMMA LandStep == ASSUME IInv, NEW l \in Lane, Land(l) PROVE IInv'
<1>. USE DEF inputs, host, memory, walk
<1>1. PICK j \in sent[l] :
        sent' = [sent EXCEPT ![l] = @ \ {j}] /\ scalar' = [scalar EXCEPT ![j] = ScalarOf(l)]
  BY DEF Land
<1>2. UNCHANGED <<inputs, host, memory, pc, walk, claimed, found, hashed>>
  BY DEF Land
<1>3. pc[l] = "fence" /\ Publishing(l) /\ Voting(l) /\ j \in 1..Limbs /\ sent[l] \subseteq 1..Limbs
  BY DEF IInv, Content, TypeOK, Publishing, Voting, Claiming
<1>4. PublishMoves(l)
  BY <1>2, <1>3 DEF PublishMoves, Voting, Claiming, Publishing, IInv, TypeOK
<1>5. /\ hostpc = "kernel" /\ Turns' /\ Together' /\ Progress' /\ \A m \in Lane : OnTrack(m)'
      /\ \A m \in Lane : UNCHANGED <<KeyOf(m), ScalarOf(m)>>
  BY <1>4, PublishKeeps
<1>6. ScalarOf(l) \in Int
  BY <1>3, ScalarFacts
<1>7. TypeOK'
  <2>1. scalar' \in [1..Limbs -> Int]
    BY <1>1, <1>6 DEF IInv, TypeOK
  <2>2. sent' \in [Lane -> SUBSET (1..Limbs)]
    BY <1>1, <1>3 DEF IInv, TypeOK
  <2>. QED BY <1>2, <2>1, <2>2 DEF IInv, TypeOK, Keys
<1>8. \A m \in Lane : UNCHANGED <<Publishing(m), Claiming(m)>>
  BY <1>2 DEF Publishing, Claiming
<1>9. Protocol'
  BY <1>2, <1>8 DEF IInv, Protocol
<1>10. Content'
  <2>1. ~found /\ ~found' /\ \A m \in Lane : pc[m] \in {"fence", "flag"} => m = l
    BY <1>2, <1>3 DEF IInv, Protocol, Publishing
  <2>2. \A m \in Lane : sent'[m] = IF m = l THEN sent[l] \ {j} ELSE sent[m]
    BY <1>1 DEF IInv, TypeOK
  <2>3. \A i \in 1..Limbs : scalar'[i] = IF i = j THEN ScalarOf(l) ELSE scalar[i]
    BY <1>1 DEF IInv, TypeOK
  <2>. QED BY <1>2, <1>3, <1>5, <2>1, <2>2, <2>3 DEF IInv, Content
<1>11. Matches'
  BY <1>2, <1>5, <1>8 DEF IInv, Matches
<1>. QED BY <1>5, <1>7, <1>9, <1>10, <1>11 DEF IInv

LEMMA FenceStep == ASSUME IInv, NEW l \in Lane, Fence(l) PROVE IInv'
<1>. USE DEF inputs, host, memory, walk, page
<1>1. /\ pc[l] = "fence" /\ pc' = [pc EXCEPT ![l] = "flag"] /\ sent[l] = {}
      /\ UNCHANGED <<inputs, host, memory, walk, page, hashed>>
  BY DEF Fence, Fenced
<1>2. PublishMoves(l)
  BY <1>1 DEF PublishMoves, Voting, Claiming, Publishing, IInv, TypeOK, Places
<1>3. /\ hostpc = "kernel" /\ Turns' /\ Together' /\ Progress' /\ \A m \in Lane : OnTrack(m)'
      /\ \A m \in Lane : UNCHANGED <<KeyOf(m), ScalarOf(m)>>
  BY <1>2, PublishKeeps
<1>4. \A m \in Lane : pc'[m] = IF m = l THEN "flag" ELSE pc[m]
  BY <1>1 DEF IInv, TypeOK
<1>5. TypeOK'
  BY <1>1 DEF IInv, TypeOK, Keys, Places
<1>6. \A m \in Lane : /\ Publishing(m)' = Publishing(m) /\ Claiming(m)' = Claiming(m)
                      /\ pc'[m] = "claim" <=> pc[m] = "claim"
                      /\ pc'[m] = "vote" <=> pc[m] = "vote"
  BY <1>1, <1>4 DEF Publishing, Claiming
<1>7. Protocol'
  BY <1>1, <1>6 DEF IInv, Protocol
<1>8. Content'
  BY <1>1, <1>3 DEF IInv, Content
<1>9. Matches'
  BY <1>1, <1>3, <1>6 DEF IInv, Matches
<1>. QED BY <1>3, <1>5, <1>7, <1>8, <1>9 DEF IInv

LEMMA FlagStep ==
  ASSUME IInv, NEW l \in Lane, Flag(l)
  PROVE  IInv' /\ ~found /\ found' /\ \E k \in full : scalar' = Whole(k)
<1>. USE DEF inputs, host, memory, walk
<1>1. /\ pc[l] = "flag" /\ pc' = [pc EXCEPT ![l] = "vote"] /\ found' = TRUE
      /\ UNCHANGED <<inputs, host, memory, walk, claimed, scalar, sent, hashed>>
  BY DEF Flag
<1>2. PublishMoves(l) /\ Voting(l) /\ Publishing(l) /\ Claiming(l)
  BY <1>1 DEF PublishMoves, Voting, Claiming, Publishing, IInv, TypeOK, Places
<1>3. /\ hostpc = "kernel" /\ Turns' /\ Together' /\ Progress' /\ \A m \in Lane : OnTrack(m)'
      /\ \A m \in Lane : UNCHANGED <<KeyOf(m), ScalarOf(m)>>
  BY <1>2, PublishKeeps
<1>4. \A m \in Lane : pc'[m] = IF m = l THEN "vote" ELSE pc[m]
  BY <1>1 DEF IInv, TypeOK
<1>5. TypeOK'
  BY <1>1 DEF IInv, TypeOK, Keys, Places
<1>6. claimed /\ ~found /\ \A m \in Lane : ~Publishing(m)'
  BY <1>2, <1>4 DEF IInv, Protocol, Publishing
<1>7. Protocol'
  BY <1>1, <1>6 DEF IInv, Protocol
<1>8. scalar = Whole(KeyOf(l)) /\ KeyOf(l) \in full
  <2>1. KeyOf(l) \in full /\ ScalarOf(l) = KeyOf(l)
    BY <1>2, ScalarFacts DEF IInv, Matches
  <2>2. \A j \in 1..Limbs : scalar[j] = KeyOf(l)
    BY <1>1, <2>1 DEF IInv, Content
  <2>. QED BY <2>1, <2>2 DEF IInv, TypeOK, Whole
<1>9. Content'
  <2>1. \A m \in Lane : sent'[m] # {} => pc'[m] = "fence"
    BY <1>1, <1>4 DEF IInv, Content
  <2>2. \A m \in Lane : pc'[m] \notin {"fence", "flag"}
    BY <1>6 DEF Publishing
  <2>. QED BY <1>1, <1>3, <1>8, <2>1, <2>2 DEF Content, Whole
<1>10. Matches'
  <2>1. \A m \in Lane : Claiming(m)' => Claiming(m)
    BY <1>4 DEF Publishing, Claiming
  <2>. QED BY <1>1, <1>3, <1>6, <2>1 DEF IInv, Matches
<1>. QED BY <1>1, <1>3, <1>5, <1>6, <1>7, <1>8, <1>9, <1>10 DEF IInv

LEMMA WriteBackStep == ASSUME IInv, NEW l \in Lane, WriteBack(l) PROVE IInv'
<1>. USE DEF inputs, host, walk, page
<1>1. /\ pc[l] = "writeback" /\ pc' = [pc EXCEPT ![l] = "exit"]
      /\ Px' = [Px EXCEPT ![l] = x1[l]] /\ UNCHANGED <<inputs, host, walk, page, hashed>>
  BY DEF WriteBack
<1>2. start_scalars' = [start_scalars EXCEPT ![l] = @ + B * batches_done[WarpOf(l)]]
  BY DEF WriteBack, ScalarAfter, WarpOf
<1>3. /\ Walking(l) /\ hostpc = "kernel" /\ left > 0
      /\ \A m \in Lane : pc'[m] = IF m = l THEN "exit" ELSE pc[m]
  BY <1>1 DEF Walking, IInv, TypeOK, Turns
<1>4. ASSUME NEW m \in Lane
      PROVE  /\ UNCHANGED <<Publishing(m), Claiming(m), Voting(m), KeyOf(m)>>
             /\ m # l => ScalarOf(m)' = ScalarOf(m) /\ Walking(m)' = Walking(m)
             /\ ~Walking(l)' /\ ~Voting(l) /\ ~Publishing(l)
             /\ pc'[m] # "idle"
  <2>1. pc[m] # "idle"
    BY <1>3 DEF IInv, Turns
  <2>2. UNCHANGED <<Publishing(m), Claiming(m), Voting(m)>> /\ pc'[m] # "idle"
    BY <1>1, <2>1 DEF Publishing, Claiming, Voting
  <2>3. m # l => start_scalars'[m] = start_scalars[m]
    BY <1>2 DEF IInv, TypeOK
  <2>. QED BY <1>1, <1>3, <2>2, <2>3
    DEF Walking, Publishing, Claiming, Voting, KeyOf, KeyAt, ScalarOf
<1>5. /\ BatchesPerThread - left \in Nat /\ WarpOf(l) \in Warp /\ start \in Nat
      /\ batches_done[WarpOf(l)] = batches_per_launch /\ batches_done[WarpOf(l)] \in Nat
  BY <1>1, DoneFacts, KeyFacts DEF IInv, TypeOK, Progress
<1>6. /\ start_scalars'[l] = Centre(l, BatchesPerThread - left + batches_done[WarpOf(l)])
      /\ start_scalars'[l] \in Int
  <2>1. start_scalars[l] = Centre(l, BatchesPerThread - left)
    BY <1>3 DEF IInv, OnTrack
  <2>2. start_scalars'[l] = start_scalars[l] + B * batches_done[WarpOf(l)]
    BY <1>2 DEF IInv, TypeOK
  <2>3. \A m \in Nat : m*B = B*m
    BY LaunchAssumption
  <2>4. /\ Centre(l, BatchesPerThread - left + batches_done[WarpOf(l)]) =
             Centre(l, BatchesPerThread - left) + batches_done[WarpOf(l)]*B
        /\ Centre(l, BatchesPerThread - left + batches_done[WarpOf(l)]) \in Nat
    <3>1. /\ \A m \in Nat : Centre(l, BatchesPerThread - left + m) = Centre(l, BatchesPerThread - left) + m*B
          /\ \A n \in Nat : Centre(l, n) \in Nat
      BY <1>5, CentreFacts
    <3>. QED BY <1>5, <3>1
  <2>. QED BY <1>5, <2>1, <2>2, <2>3, <2>4
<1>7. TypeOK'
  <2>1. start_scalars' \in [Lane -> Int]
    BY <1>2, <1>6 DEF IInv, TypeOK
  <2>2. pc' \in [Lane -> Places] /\ Px' \in [Lane -> Int]
    BY <1>1 DEF IInv, TypeOK, Places
  <2>. QED BY <1>1, <2>1, <2>2 DEF IInv, TypeOK, Keys
<1>8. Turns'
  BY <1>1, <1>4 DEF IInv, Turns, Between
<1>9. Together'
  BY <1>1, <1>4 DEF IInv, Together
<1>10. Progress'
  <2>1. batches_per_launch' = batches_per_launch
    BY <1>1 DEF batches_per_launch
  <2>. QED BY <1>1, <1>3, <1>4, <2>1 DEF IInv, Progress
<1>11. Protocol'
  BY <1>1, <1>4 DEF IInv, Protocol
<1>12. Content'
  <2>1. \A m \in Lane : pc'[m] \in {"fence", "flag"} => m # l
    BY <1>3
  <2>2. sent[l] = {}
    BY <1>1 DEF IInv, Content
  <2>. QED BY <1>1, <1>3, <1>4, <2>1, <2>2 DEF IInv, Content, Whole
<1>13. Matches'
  BY <1>1, <1>4 DEF IInv, Matches
<1>14. ASSUME NEW m \in Lane PROVE OnTrack(m)'
  <2>1. CASE m # l
    <3>1. Alone(m) /\ UNCHANGED <<inputs, hostpc, left, claimed, hashed>> /\ pc'[m] = pc[m]
      BY <1>1, <1>2, <2>1 DEF Alone
    <3>. HIDE DEF inputs
    <3>. QED BY <3>1, LeftAlone
  <2>2. CASE m = l
    <3>1. /\ Done(l) = BatchesPerThread - left + batches_done[WarpOf(l)]
          /\ Done(l)' = Done(l) /\ Proper' = Proper /\ OnTrack(l) /\ pc'[l] = "exit"
      BY <1>1, <1>3, <1>5 DEF Done, batches_per_launch, Proper, IInv
    <3>2. \A n : Centre(l, n)' = Centre(l, n) /\ Behind(l, n)' = Behind(l, n)
      BY <1>1 DEF Centre, Behind, FirstOf
    <3>3. Px'[l] = x1[l]
      BY <1>1 DEF IInv, TypeOK
    <3>4. x1[l] = Centre(l, Done(l)) \/ (x1[l] = Garbage /\ ~Proper)
      BY <1>3 DEF IInv, OnTrack
    <3>5. Proper => Behind(l, Done(l)) \subseteq hashed'
      BY <1>1, <1>3 DEF IInv, OnTrack
    <3>. QED BY <1>4, <1>6, <2>2, <3>1, <3>2, <3>3, <3>4, <3>5 DEF OnTrack, Voting, Claiming, Publishing
  <2>. QED BY <2>1, <2>2
<1>. QED BY <1>7, <1>8, <1>9, <1>10, <1>11, <1>12, <1>13, <1>14 DEF IInv

-------------------------------------------------------------------------------
(* The steps of the host                                                   *)

LEMMA InitIsInductive == Init => IInv
<1>. SUFFICES ASSUME Init PROVE IInv
  OBVIOUS
<1>1. /\ start \in Nat /\ start \in Starts /\ full \subseteq Keys /\ full \subseteq pref
      /\ hostpc = "launch" /\ left = BatchesPerThread /\ pc = [l \in Lane |-> "idle"]
      /\ claimed = FALSE /\ found = FALSE /\ hashed = {} /\ sent = [l \in Lane |-> {}]
  BY RangeAssumption DEF Init
<1>2. ASSUME NEW l \in Lane
      PROVE  /\ Px[l] = Centre(l, 0) /\ start_scalars[l] = Centre(l, 0) /\ Centre(l, 0) \in Int
             /\ Behind(l, 0) = {} /\ Done(l) = 0
  <2>1. Px[l] = Centre(l, 0) /\ start_scalars[l] = Px[l] /\ Centre(l, 0) \in Nat
    BY <1>1, CentreFacts DEF Init
  <2>2. Behind(l, 0) = {}
    BY <1>1, BehindFacts
  <2>3. Done(l) = 0
    BY <1>1, LaunchAssumption DEF Done
  <2>. QED BY <2>1, <2>2, <2>3
<1>3. \A l \in Lane : ~Walking(l) /\ ~Voting(l) /\ ~Claiming(l) /\ ~Publishing(l) /\ Stored(l)
  BY <1>1 DEF Walking, Voting, Claiming, Publishing, Stored, Between
<1>4. TypeOK
  <2>1. Px \in [Lane -> Int] /\ start_scalars \in [Lane -> Int] /\ x1 \in [Lane -> Int]
    <3>1. /\ Px = [l \in Lane |-> start + l*BatchesPerThread*B + half]
          /\ start_scalars = Px /\ x1 = Px
      BY DEF Init
    <3>. QED BY <1>2, <3>1
  <2>2. scalar \in [1..Limbs -> Int]
    BY DEF Init, Empty, Nothing
  <2>3. mask \in [Warp -> SUBSET Lane] /\ batches_done \in [Warp -> Nat] /\ step \in [Warp -> 0..B-1]
    BY HalfFacts DEF Init
  <2>4. left \in 0..BatchesPerThread /\ pc \in [Lane -> Places] /\ sent \in [Lane -> SUBSET (1..Limbs)]
    BY <1>1, LaunchAssumption DEF Places
  <2>. QED BY <1>1, <2>1, <2>2, <2>3, <2>4 DEF TypeOK
<1>5. Turns /\ Protocol /\ Together /\ Progress
  BY <1>1, <1>3 DEF Turns, Protocol, Together, Progress
<1>6. Content /\ Matches
  BY <1>1, <1>3 DEF Content, Matches
<1>7. \A l \in Lane : OnTrack(l)
  BY <1>1, <1>2, <1>3 DEF OnTrack
<1>. QED BY <1>4, <1>5, <1>6, <1>7 DEF IInv

LEMMA LaunchStep == ASSUME IInv, LaunchKernel PROVE IInv'
<1>. USE DEF inputs, memory, page
<1>1. /\ hostpc = "launch" /\ left > 0 /\ hostpc' = "kernel" /\ pc' = [l \in Lane |-> "ballot"]
      /\ mask' = [w \in Warp |-> LanesOf(w)] /\ batches_done' = [w \in Warp |-> 0] /\ x1' = Px
      /\ UNCHANGED <<inputs, left, reported, memory, step, page, hashed>>
  BY DEF LaunchKernel
<1>2. \A l \in Lane : /\ ~Walking(l) /\ ~Claiming(l) /\ ~Publishing(l)
                      /\ Walking(l)' /\ ~Claiming(l)' /\ ~Publishing(l)' /\ ~Voting(l)'
                      /\ pc[l] \notin {"claim", "fence"} /\ pc'[l] = "ballot"
  BY <1>1 DEF IInv, Turns, Walking, Voting, Claiming, Publishing
<1>3. ~found /\ ~claimed
  BY <1>1, <1>2 DEF IInv, Turns, Protocol, Between
<1>4. TypeOK'
  <2>1. mask' \in [Warp -> SUBSET Lane]
    BY <1>1 DEF LanesOf
  <2>2. pc' \in [Lane -> Places] /\ batches_done' \in [Warp -> Nat]
    BY <1>1 DEF Places
  <2>. QED BY <1>1, <2>1, <2>2 DEF IInv, TypeOK, Keys
<1>5. Turns'
  BY <1>1 DEF Turns, Between
<1>6. Together' /\ Progress'
  <2>1. batches_per_launch' \in Nat
    BY <1>1, LaunchFacts DEF batches_per_launch, IInv, TypeOK
  <2>2. Together'
    BY <1>2 DEF Together
  <2>. QED BY <1>1, <1>2, <2>1, <2>2, WarpFacts DEF Progress
<1>7. Protocol'
  BY <1>1, <1>2, <1>3 DEF Protocol
<1>8. Content'
  BY <1>1, <1>2 DEF IInv, Content
<1>9. Matches'
  BY <1>1, <1>2 DEF IInv, Matches
<1>10. ASSUME NEW l \in Lane PROVE OnTrack(l)'
  <2>1. Stored(l) /\ ~Stored(l)' /\ OnTrack(l)
    BY <1>1 DEF Stored, Between, IInv
  <2>2. /\ Done(l) = BatchesPerThread - left /\ Done(l)' = Done(l) /\ Proper' = Proper
        /\ \A n : Centre(l, n)' = Centre(l, n) /\ Behind(l, n)' = Behind(l, n)
    <3>1. BatchesPerThread - left \in Nat
      BY DoneFacts
    <3>2. batches_done'[WarpOf(l)] = 0
      BY <1>1, WarpFacts
    <3>. QED BY <1>1, <1>2, <3>1, <3>2 DEF Done, Proper, Centre, Behind, FirstOf
  <2>. QED BY <1>1, <1>2, <2>1, <2>2 DEF OnTrack
<1>. QED BY <1>4, <1>5, <1>6, <1>7, <1>8, <1>9, <1>10 DEF IInv

LEMMA SynchronizeStep == ASSUME IInv, Synchronize PROVE IInv'
<1>. USE DEF inputs, memory, page, walk
<1>1. /\ hostpc = "kernel" /\ left' = left - batches_per_launch
      /\ UNCHANGED <<inputs, memory, pc, walk, page, hashed>>
      /\ IF found THEN hostpc' = "found" /\ reported' = scalar
                  ELSE hostpc' = "launch" /\ reported' = reported
  BY DEF Synchronize
<1>2. \A l \in Lane : /\ pc[l] = "exit" /\ pc'[l] = "exit"
                      /\ ~Walking(l) /\ ~Claiming(l) /\ ~Publishing(l) /\ ~Voting(l)
                      /\ ~Walking(l)' /\ ~Claiming(l)' /\ ~Publishing(l)' /\ ~Voting(l)'
  BY DEF Synchronize, Walking, Voting, Claiming, Publishing
<1>3. claimed <=> found
  BY <1>2 DEF IInv, Protocol
<1>4. /\ left \in 0..BatchesPerThread /\ left' \in 0..BatchesPerThread
      /\ batches_per_launch \in Nat /\ BatchesPerThread \in Nat
  BY <1>1, LaunchFacts, LaunchAssumption DEF IInv, TypeOK
<1>5. TypeOK'
  BY <1>1, <1>4 DEF IInv, TypeOK, Keys
<1>6. Turns'
  BY <1>1, <1>2 DEF Turns, Between
<1>7. Together' /\ Progress'
  BY <1>2 DEF Together, Progress
<1>8. Protocol'
  BY <1>1, <1>2, <1>3 DEF Protocol
<1>9. Content'
  BY <1>1, <1>2 DEF IInv, Content
<1>10. Matches'
  BY <1>1, <1>2 DEF IInv, Matches
<1>11. ASSUME NEW l \in Lane PROVE OnTrack(l)'
  <2>1. CASE found
    BY <1>1, <1>2, <2>1 DEF OnTrack, Stored, Between
  <2>2. CASE ~found
    <3>1. /\ Stored(l) /\ OnTrack(l) /\ Done(l)' = Done(l) /\ Proper' = Proper
          /\ \A n : Centre(l, n)' = Centre(l, n) /\ Behind(l, n)' = Behind(l, n)
      BY <1>1, <1>2, <1>3, <1>4, <2>2 DEF Stored, Done, Proper, Centre, Behind, FirstOf, IInv
    <3>. QED BY <1>1, <1>2, <3>1 DEF OnTrack
  <2>. QED BY <2>1, <2>2
<1>. QED BY <1>5, <1>6, <1>7, <1>8, <1>9, <1>10, <1>11 DEF IInv

LEMMA GiveUpStep == ASSUME IInv, GiveUp PROVE IInv'
<1>. USE DEF inputs, memory, page, walk
<1>1. /\ hostpc = "launch" /\ left = 0 /\ hostpc' = "exhausted"
      /\ UNCHANGED <<inputs, left, reported, memory, pc, walk, page, hashed>>
  BY DEF GiveUp
<1>2. \A l \in Lane : /\ ~Walking(l) /\ ~Walking(l)'
                      /\ UNCHANGED <<Voting(l), Claiming(l), Publishing(l), KeyOf(l), ScalarOf(l)>>
  BY <1>1 DEF IInv, Turns, Walking, Voting, Claiming, Publishing, KeyOf, KeyAt, ScalarOf
<1>3. TypeOK'
  BY <1>1 DEF IInv, TypeOK, Keys
<1>4. Turns'
  BY <1>1, <1>2 DEF IInv, Turns, Between
<1>5. Together' /\ Progress'
  <2>1. batches_per_launch' = batches_per_launch
    BY <1>1 DEF batches_per_launch
  <2>. QED BY <1>1, <1>2, <2>1 DEF IInv, Together, Progress
<1>6. Protocol'
  BY <1>1, <1>2 DEF IInv, Protocol
<1>7. Content'
  BY <1>1, <1>2 DEF IInv, Content
<1>8. Matches'
  BY <1>1, <1>2 DEF IInv, Matches
<1>9. ASSUME NEW l \in Lane PROVE OnTrack(l)'
  <2>1. /\ Stored(l) /\ OnTrack(l) /\ Done(l)' = Done(l) /\ Proper' = Proper
        /\ \A n : Centre(l, n)' = Centre(l, n) /\ Behind(l, n)' = Behind(l, n)
        /\ \A s : KeyAt(l, s)' = KeyAt(l, s)
    BY <1>1 DEF Stored, Between, Done, Proper, Centre, Behind, FirstOf, KeyAt, IInv
  <2>2. /\ pc[l] \in {"idle", "exit"} /\ ~Voting(l) /\ ~Voting(l)'
    BY <1>2 DEF Walking, Voting, Claiming, Publishing
  <2>. QED BY <1>1, <1>2, <2>1, <2>2 DEF OnTrack
<1>. QED BY <1>3, <1>4, <1>5, <1>6, <1>7, <1>8, <1>9 DEF IInv

LEMMA StutterStep == ASSUME IInv, UNCHANGED vars PROVE IInv'
<1>. USE DEF vars, inputs, host, memory, walk, page
<1>1. ASSUME NEW l \in Lane PROVE OnTrack(l)'
  <2>1. Alone(l) /\ UNCHANGED <<inputs, hostpc, left, claimed, hashed, pc>>
    BY DEF Alone
  <2>. QED BY <2>1, LeftAlone
<1>2. TypeOK' /\ Turns' /\ Together'
  BY DEF IInv, TypeOK, Keys, Turns, Between, Walking, Together, Voting, Claiming, Publishing
<1>3. Progress' /\ Protocol'
  BY DEF IInv, Progress, Protocol, Walking, Voting, Claiming, Publishing, batches_per_launch
<1>4. Content'
  BY DEF IInv, Content, Whole, ScalarOf
<1>5. Matches'
  BY DEF IInv, Matches, Claiming, Publishing, KeyOf, KeyAt
<1>. QED BY <1>1, <1>2, <1>3, <1>4, <1>5 DEF IInv

-------------------------------------------------------------------------------
(* The theorems                                                            *)

LEMMA NextKeeps == IInv /\ [Next]_vars => IInv'
BY InitIsInductive, BallotStep, TestStep, VoteStep, WriteBackStep, ClaimStep, StoreStep, LandStep,
   FenceStep, FlagStep, LaunchStep, SynchronizeStep, GiveUpStep, StutterStep
   DEF Next, Host, OfWarp, OfLane, Over

\* The invariant of the search: types, the turns of host and kernel, the lanes of a warp together, and for
\* every lane the scalar, the point and the keys it has behind it.
THEOREM Inductive == Spec => []IInv
<1>. QED BY InitIsInductive, NextKeeps, PTL DEF Spec

LEMMA FoundIsWhole == IInv /\ found => \E k \in full : k \in Nat /\ scalar = Whole(k)
<1>1. ASSUME IInv, NEW k \in full PROVE k \in Nat
  <2>1. start \in Nat /\ k \in Keys
    BY <1>1, RangeAssumption DEF IInv, TypeOK
  <2>. QED BY <2>1, LaunchAssumption DEF Keys
<1>. QED BY <1>1 DEF IInv, Content

\* Whoever sees "found" sees all limbs of one finder's scalar, for any number of warps and limbs: only
\* one lane is ever between its claim and its flag, and its fence waits for what it stored.
THEOREM NeverTornCorrect == Spec => []NeverTorn
<1>1. IInv => NeverTorn
  <2>. SUFFICES ASSUME IInv, found PROVE \A j \in 1..Limbs : scalar[j] # Nothing /\ scalar[j] = scalar[1]
    BY DEF NeverTorn
  <2>1. PICK k \in Nat : scalar = [j \in 1..Limbs |-> k]
    BY FoundIsWhole DEF Whole
  <2>2. 1 \in 1..Limbs /\ k # Nothing
    BY LaunchAssumption DEF Nothing
  <2>. QED BY <2>1, <2>2
<1>. QED BY <1>1, Inductive, PTL

\* The printed key hashes to the target: start scalar, batch count and signed offset put together are the
\* key whose point was hashed, in every launch and for every layout of the threads.
THEOREM ReportedCorrect == Spec => []ReportedKeyMatches
<1>1. IInv => ReportedKeyMatches
  BY DEF IInv, Content, ReportedKeyMatches
<1>. QED BY <1>1, Inductive, PTL

\* The stored points follow the stored scalars over any number of launches, unless the range starts at
\* 0 or at half a batch.
THEOREM PointCorrect == Spec => [](Proper => PointMatchesScalar)
<1>1. IInv => (Proper => PointMatchesScalar)
  <2>. SUFFICES ASSUME IInv, Proper, \A l \in Lane : pc[l] = "exit", ~found
                PROVE  Px = start_scalars
    BY DEF PointMatchesScalar
  <2>1. ~claimed /\ hostpc # "found"
    BY DEF IInv, Protocol, Content, Publishing
  <2>2. \A l \in Lane : Stored(l)
    BY <2>1 DEF Stored, Between, IInv, TypeOK
  <2>3. \A l \in Lane : Px[l] = start_scalars[l]
    BY <2>2 DEF IInv, OnTrack
  <2>. QED BY <2>3 DEF IInv, TypeOK
<1>. QED BY <1>1, Inductive, PTL

\* "Exhausted" means that every key of the range was hashed and none matched, for any layout of the
\* threads and any number of batches, unless the range starts at 0 or at half a batch.
THEOREM ExhaustedCorrect == Spec => [](Proper => ExhaustedMeansHashed)
<1>1. IInv => (Proper => ExhaustedMeansHashed)
  <2>. SUFFICES ASSUME IInv, Proper, hostpc = "exhausted" PROVE Keys \subseteq hashed /\ full = {}
    BY DEF ExhaustedMeansHashed
  <2>1. left = 0 /\ ~found /\ \A l \in Lane : ~Walking(l)
    BY DEF IInv, Turns, Between
  <2>2. \A l \in Lane : Done(l) = BatchesPerThread /\ Stored(l)
    BY <2>1, LaunchAssumption DEF Done, Stored, Between
  <2>3. \A l \in Lane : Behind(l, BatchesPerThread) \subseteq hashed
    BY <2>2 DEF IInv, OnTrack
  <2>4. start \in Nat /\ full \subseteq Keys
    BY RangeAssumption DEF IInv, TypeOK
  <2>5. Keys \subseteq hashed
    BY <2>3, <2>4, SharesCover
  <2>6. ~claimed /\ \A l \in Lane : pc[l] # "claim"
    BY <2>1 DEF IInv, Protocol, Walking, Publishing
  <2>7. full = {}
    BY <2>4, <2>5, <2>6 DEF IInv, Matches
  <2>. QED BY <2>5, <2>7
<1>. QED BY <1>1, Inductive, PTL

-------------------------------------------------------------------------------
(* The result page keeps the promise of FindResult                         *)

\* Only the flag changes what a host that believes "found" reads.
LEMMA OnlyFlagPublishes ==
  ASSUME IInv, [Next]_vars
  PROVE  \/ full' = full /\ PageContent' = PageContent
         \/ \E l \in Lane : Flag(l)
<1>. USE DEF PageContent, Empty, inputs, page
<1>1. CASE UNCHANGED vars
  BY <1>1 DEF vars
<1>2. CASE LaunchKernel \/ Synchronize \/ GiveUp
  BY <1>2 DEF LaunchKernel, Synchronize, GiveUp
<1>3. ASSUME NEW w \in Warp, Ballot(w) \/ Test(w) \/ Vote(w)
      PROVE  full' = full /\ PageContent' = PageContent
  BY <1>3 DEF Ballot, Test, Vote
<1>4. ASSUME NEW l \in Lane, WriteBack(l) \/ Claim(l) \/ Store(l) \/ Fence(l)
      PROVE  full' = full /\ PageContent' = PageContent
  BY <1>4 DEF WriteBack, Claim, Store, Fence
<1>5. ASSUME NEW l \in Lane, Land(l)
      PROVE  full' = full /\ PageContent' = PageContent
  <2>1. pc[l] = "fence"
    BY <1>5 DEF Land, IInv, Content
  <2>2. ~found
    BY <2>1 DEF IInv, Protocol, Publishing
  <2>. QED BY <1>5, <2>2 DEF Land
<1>. QED BY <1>1, <1>2, <1>3, <1>4, <1>5 DEF Next, Host, OfWarp, OfLane, Over

\* The flag publishes one match: the page is empty until then, holds that match whole, and never
\* changes again, whatever other finders do and in whatever order the stores land.
THEOREM PageCorrect == Spec => ImplementsFindResult
<1>1. Init => Page!Init
  BY DEF Init, Page!Init, PageContent
<1>2. IInv /\ [Next]_vars => [Page!Publish]_Page!vars
  <2>. SUFFICES ASSUME IInv, [Next]_vars PROVE [Page!Publish]_Page!vars
    OBVIOUS
  <2>1. CASE full' = full /\ PageContent' = PageContent
    BY <2>1 DEF Page!vars, Whole
  <2>2. ASSUME NEW l \in Lane, Flag(l) PROVE Page!Publish
    <3>1. ~found /\ found' /\ \E k \in full : scalar' = Whole(k)
      BY <2>2, FlagStep
    <3>2. full' = full
      BY <2>2 DEF Flag, inputs
    <3>3. PageContent = Empty /\ PageContent' \in {Whole(k) : k \in full}
      BY <3>1 DEF PageContent
    <3>4. {Whole(k) : k \in full}' = {Whole(k) : k \in full}
      BY <3>2 DEF Whole
    <3>. QED BY <3>3, <3>4 DEF Page!Publish
  <2>. QED BY <2>1, <2>2, OnlyFlagPublishes
<1>. QED BY <1>1, <1>2, Inductive, PTL DEF Spec, ImplementsFindResult, Page!Spec
==============================================================================

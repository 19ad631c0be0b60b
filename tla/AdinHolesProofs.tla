-------------------------- MODULE AdinHolesProofs ---------------------------
(***************************************************************************)
(* What adintool sends between two ends of segment is speech without a     *)
(* hole, except after what was in the buffer when the segment began: if    *)
(* what one read of the microphone can make it store fits into an empty    *)
(* buffer (Room).  And the swap buffer holds a silence of any length.      *)
(*                                                                         *)
(* The argument: while somebody speaks the capture thread stores one       *)
(* sample after the other, the next one is always known (next), and the    *)
(* buffer ends where it begins (GoesOn) unless it holds what was there at  *)
(* the start.  A sample that did not fit is not passed over, because the   *)
(* main thread sends no more than it has read before (FlowInv); and         *)
(* nothing that is stored between two segments fails to fit.               *)
(***************************************************************************)
EXTENDS AdinOrderProofs

(* What a read brings besides its first step, at most.                      *)
Rest == MaxRead - 1

(* What adin_cut stores of one read, at most: with the first step the        *)
(* silence that is kept back, or the head margin, and the rest of the read.  *)
Room ==
  /\ Rest + Steps(nc_max - 1) <= MaxSpeech
  /\ Rest + c_length <= MaxSpeech

Consecutive(s) == \A i \in 1..Len(s) : s[i] = s[1] + (i - 1)
Newest(s) == s[Len(s)]

(* While somebody speaks: the newest sample stored, once the step is, and   *)
(* the one that is stored next.                                            *)
Edge == IF nc = 0 THEN cut ELSE cut - Len(swapbuf)
next == IF pending = <<>> THEN Edge + 1 ELSE pending[1][1]

(* What a silence keeps back: the newest samples, after the tail margin.    *)
SwapInv ==
  /\ Len(swapbuf) <= Steps(nc_max - 1)
  /\ speaking /\ nc # 0 =>
       /\ \A i \in 1..Len(swapbuf) : swapbuf[i] = cut - Len(swapbuf) + i
       /\ rest_tail # 0 => swapbuf = <<>>
       /\ Len(swapbuf) <= Steps(nc - 1)

(* Where the threads are. *)
WhereInv ==
  /\ capture \in {"read", "cut", "ended"} => pending = <<>>
  /\ pending # <<>> => speaking /\ local
  /\ process \in {"waitEnd", "reopen"} => capture = "ended"
  /\ process \in {"start", "wait"} => ~online
  /\ process = "drop" => stop_at_next

(* What is still to be stored of a step is one run, up to Edge, of which no *)
(* more is behind the microphone than fits into the buffer.                *)
PendingInv ==
  /\ \A k \in 1..Len(pending) :
       /\ pending[k] # <<>> /\ Consecutive(pending[k])
       /\ Newest(pending[k]) <= cut
       /\ IF k < Len(pending) THEN pending[k + 1][1] = Newest(pending[k]) + 1
          ELSE Newest(pending[k]) = Edge
  /\ pending # <<>> => next > heard - MaxSpeech

WindowInv ==
  /\ capture = "cut" => heard - cut - wstep <= Rest
  /\ capture \in {"check", "store", "full"} => heard - cut <= Rest

(* What is stored next follows on the buffer. *)
GoesOn == local /\ speaking /\ Newest(speech) = next - 1

(* Between two segments. *)
OutInv ==
  process \in {"start", "wait"} =>
    /\ Consecutive(speech)
    /\ capture = "full" => speech = <<>>
    /\ local /\ speech # <<>> => GoesOn /\ speech[1] > heard - MaxSpeech

(* Within one: what of the buffer may still be sent of it, and how much was *)
(* sent that is not in the buffer any more.                                *)
Sending == process \in {"poll", "command", "process", "rehash"}
sendable == IF overflowed THEN nowlen ELSE Len(speech)
gone == Len(segment) - unsent

FlowInv ==
  /\ HolesWhereStale
  /\ process \in Outside => segment = <<>>
  /\ Sending =>
       /\ segment # <<>> => unsent # 0 /\ Newest(segment) = speech[unsent]
       /\ \A i \in 1..(sendable - 1) : speech[i + 1] = speech[i] + 1 \/ gone + i = stale

(* Where the buffer ends. *)
JoinInv ==
  Sending /\ ~overflowed /\ online => gone + Len(speech) = stale \/ GoesOn

HInv == WhereInv /\ PendingInv /\ WindowInv /\ OutInv /\ FlowInv /\ JoinInv

-----------------------------------------------------------------------------
(* Lengths and pieces. *)

LEMMA WithinSwap ==
  /\ Steps(0) = 0
  /\ \A n \in Nat \ {0} :
       /\ Steps(n - 1) \in Int /\ Steps(n) = Steps(n - 1) + chunk_size
       /\ Steps(n - 1) >= 0
       /\ n <= nc_max => Steps(n - 1) <= Steps(nc_max - 1)
<1>1. Steps(0) = 0
  BY StepsAdd
<1> SUFFICES ASSUME NEW n \in Nat \ {0}
             PROVE  /\ Steps(n - 1) \in Int /\ Steps(n) = Steps(n - 1) + chunk_size
                    /\ Steps(n - 1) >= 0
                    /\ n <= nc_max => Steps(n - 1) <= Steps(nc_max - 1)
  BY <1>1
<1>2. n - 1 \in Int /\ 0 <= n - 1 /\ nc_max - 1 \in Int /\ (n - 1) + 1 = n
  BY Constants
<1>3. Steps(n - 1) \in Int /\ Steps((n - 1) + 1) = Steps(n - 1) + chunk_size
  BY <1>2, StepsAdd
<1>4. Steps(0) <= Steps(n - 1)
  BY <1>2, StepsGrow
<1>5. n <= nc_max => Steps(n - 1) <= Steps(nc_max - 1)
  <2> SUFFICES ASSUME n <= nc_max PROVE Steps(n - 1) <= Steps(nc_max - 1)
    OBVIOUS
  <2>1. n - 1 <= nc_max - 1
    BY Constants
  <2> QED
    BY <1>2, <2>1, StepsGrow
<1> QED
  BY <1>1, <1>2, <1>3, <1>4, <1>5

LEMMA NotEmpty ==
  ASSUME NEW s \in Seq(Captures), s # <<>>
  PROVE  Len(s) \in Nat \ {0} /\ 1 \in 1..Len(s) /\ Len(s) \in 1..Len(s)
         /\ s[1] \in Nat /\ Newest(s) \in Nat
<1>1. Len(s) \in Nat \ {0}
  BY EmptySeq, LenProperties
<1>2. 1 \in 1..Len(s) /\ Len(s) \in 1..Len(s)
  BY <1>1
<1>3. \A i \in 1..Len(s) : s[i] \in Nat
  BY ElementOfSeq, Constants DEF Captures
<1> QED
  BY <1>1, <1>2, <1>3 DEF Newest

LEMMA NoRun == Consecutive(<<>>)
BY EmptySeq DEF Consecutive

LEMMA RunIs ==
  ASSUME NEW s \in Seq(Captures), s # <<>>, Consecutive(s)
  PROVE  Newest(s) = s[1] + (Len(s) - 1)
BY NotEmpty DEF Consecutive, Newest

(* A run that goes on where another one ends. *)
LEMMA RunGoesOn ==
  ASSUME NEW s \in Seq(Captures), NEW t \in Seq(Captures), t # <<>>,
         Consecutive(s), Consecutive(t), s # <<>> => t[1] = Newest(s) + 1
  PROVE  /\ Consecutive(s \o t) /\ Newest(s \o t) = Newest(t)
         /\ (s \o t)[1] = IF s = <<>> THEN t[1] ELSE s[1]
<1>1. /\ Len(s) \in Nat /\ Len(t) \in Nat \ {0} /\ t[1] \in Nat
      /\ Len(s \o t) = Len(s) + Len(t)
      /\ \A i \in 1..(Len(s) + Len(t)) :
           (s \o t)[i] = IF i <= Len(s) THEN s[i] ELSE t[i - Len(s)]
  BY LenProperties, NotEmpty, ConcatProperties
<1>2. Newest(s \o t) = Newest(t)
  BY <1>1 DEF Newest
<1>3. CASE s = <<>>
  <2>1. Len(s) = 0
    BY <1>3, EmptySeq
  <2>2. \A i \in 1..Len(s \o t) : (s \o t)[i] = t[i] /\ i \in 1..Len(t)
    BY <1>1, <2>1
  <2> QED
    BY <1>1, <1>2, <1>3, <2>1, <2>2 DEF Consecutive
<1>4. CASE s # <<>>
  <2>1. /\ Len(s) \in Nat \ {0} /\ s[1] \in Nat
        /\ t[1] = s[1] + Len(s)
    BY <1>4, NotEmpty, RunIs
  <2>2. (s \o t)[1] = s[1]
    BY <1>1, <2>1
  <2>3. ASSUME NEW i \in 1..Len(s \o t)
        PROVE  (s \o t)[i] = s[1] + (i - 1)
    <3>1. CASE i <= Len(s)
      BY <1>1, <2>1, <3>1 DEF Consecutive
    <3>2. CASE i > Len(s)
      <4>1. i - Len(s) \in 1..Len(t) /\ (s \o t)[i] = t[i - Len(s)]
        BY <1>1, <3>2
      <4>2. t[i - Len(s)] = t[1] + (i - Len(s) - 1)
        BY <4>1 DEF Consecutive
      <4>3. i \in Int /\ Len(s) \in Int /\ s[1] \in Int
        BY <1>1, <2>1
      <4>4. t[1] + (i - Len(s) - 1) = s[1] + (i - 1)
        BY <2>1, <4>3
      <4> QED
        BY <4>1, <4>2, <4>4
    <3> QED
      BY <1>1, <3>1, <3>2
  <2> QED
    BY <1>2, <1>4, <2>2, <2>3 DEF Consecutive
<1> QED
  BY <1>3, <1>4

LEMMA SamplesRun ==
  ASSUME NEW from \in Nat \ {0}, NEW to \in 0..MaxSamples, from <= to
  PROVE  /\ Samples(from, to) # <<>> /\ Consecutive(Samples(from, to))
         /\ Samples(from, to)[1] = from /\ Newest(Samples(from, to)) = to
<1>1. to \in Nat /\ Len(Samples(from, to)) = to + 1 - from
      /\ \A i \in 1..Len(Samples(from, to)) : Samples(from, to)[i] = from + i - 1
  <2>1. to \in Nat /\ from <= to + 1
    BY Constants
  <2> QED
    BY <2>1, SamplesAre, SamplesAscend
<1>2. Len(Samples(from, to)) \in Nat \ {0}
  BY <1>1
<1>3. Samples(from, to)[1] = from
  BY <1>1, <1>2
<1>4. Samples(from, to) # <<>>
  BY <1>2, EmptySeq
<1> QED
  BY <1>1, <1>2, <1>3, <1>4 DEF Consecutive, Newest

LEMMA EdgeIs ==
  ASSUME IInv
  PROVE  Edge \in Int /\ Edge <= cut
BY Typed DEF Edge

(* The pieces of pending. *)
LEMMA PiecesAre ==
  ASSUME IInv
  PROVE  /\ Len(pending) \in Nat
         /\ \A k \in 1..Len(pending) : pending[k] \in Seq(Captures)
         /\ pending # <<>> => Len(pending) \in Nat \ {0} /\ Head(pending) = pending[1]
<1>1. pending \in Seq(Seq(Captures)) /\ Len(pending) \in Nat
  BY Typed
<1>2. \A k \in 1..Len(pending) : pending[k] \in Seq(Captures)
  BY <1>1, ElementOfSeq
<1>3. pending # <<>> => Len(pending) \in Nat \ {0} /\ Head(pending) = pending[1]
  BY <1>1, EmptySeq, HeadTailProperties
<1> QED
  BY <1>1, <1>2, <1>3

(* The piece that is stored next, and what is left after it. *)
LEMMA FirstPiece ==
  ASSUME IInv, HInv, pending # <<>>
  PROVE  /\ Head(pending) \in Seq(Captures) /\ Head(pending) # <<>>
         /\ Consecutive(Head(pending)) /\ Head(pending)[1] = next
         /\ next \in Nat /\ Newest(Head(pending)) \in Nat
         /\ Newest(Head(pending)) <= cut /\ next > heard - MaxSpeech
         /\ local /\ speaking
<1>1. /\ 1 \in 1..Len(pending) /\ Head(pending) = pending[1]
      /\ pending[1] \in Seq(Captures)
  BY PiecesAre
<1>2. /\ pending[1] # <<>> /\ Consecutive(pending[1]) /\ Newest(pending[1]) <= cut
      /\ next > heard - MaxSpeech /\ local /\ speaking
  BY <1>1 DEF HInv, PendingInv, WhereInv
<1>3. next = pending[1][1]
  BY DEF next
<1>4. pending[1][1] \in Nat /\ Newest(pending[1]) \in Nat
  BY <1>1, <1>2, NotEmpty
<1> QED
  BY <1>1, <1>2, <1>3, <1>4

LEMMA OtherPieces ==
  ASSUME IInv, HInv, pending # <<>>, pending' = Tail(pending),
         UNCHANGED <<heard, cut, nc, swapbuf>>
  PROVE  PendingInv' /\ next' = Newest(Head(pending)) + 1
<1>1. /\ Len(pending) \in Nat \ {0} /\ Len(pending') = Len(pending) - 1
      /\ \A k \in 1..Len(pending') : pending'[k] = pending[k + 1]
  BY PiecesAre, Typed, HeadTailProperties
<1>2. Edge' = Edge /\ Edge \in Int
  BY EdgeIs DEF Edge
<1>3. Head(pending) = pending[1] /\ 1 \in 1..Len(pending)
  BY <1>1, PiecesAre
<1>4. ASSUME NEW k \in 1..Len(pending')
      PROVE  /\ pending'[k] # <<>> /\ Consecutive(pending'[k])
             /\ Newest(pending'[k]) <= cut'
             /\ IF k < Len(pending') THEN pending'[k + 1][1] = Newest(pending'[k]) + 1
                ELSE Newest(pending'[k]) = Edge'
  <2>1. k + 1 \in 1..Len(pending) /\ pending'[k] = pending[k + 1]
        /\ (k < Len(pending') <=> k + 1 < Len(pending))
    BY <1>1
  <2>2. k < Len(pending') => pending'[k + 1] = pending[(k + 1) + 1]
    BY <1>1
  <2> QED
    BY <1>2, <2>1, <2>2 DEF HInv, PendingInv
<1>5. CASE pending' = <<>>
  <2>1. Len(pending') = 0
    BY <1>5, EmptySeq
  <2>2. ~(1 < Len(pending))
    BY <1>1, <2>1
  <2>3. Newest(pending[1]) = Edge
    BY <1>3, <2>2 DEF HInv, PendingInv
  <2>4. next' = Newest(pending[1]) + 1
    BY <1>2, <1>5, <2>3 DEF next
  <2> QED
    BY <1>3, <1>4, <1>5, <2>4 DEF PendingInv
<1>6. CASE pending' # <<>>
  <2>1. 1 \in 1..Len(pending') /\ 1 < Len(pending)
    <3>1. Len(pending') # 0
      BY <1>6, Typed, HeadTailProperties, EmptySeq
    <3> QED
      BY <1>1, <3>1
  <2>2. next' = pending[2][1]
    BY <1>1, <1>6, <2>1 DEF next
  <2>3. pending[1 + 1][1] = Newest(pending[1]) + 1
    BY <1>3, <2>1 DEF HInv, PendingInv
  <2>4. next' = Newest(pending[1]) + 1
    BY <2>2, <2>3
  <2>5. next' > heard' - MaxSpeech
    <3>1. /\ next > heard - MaxSpeech /\ next \in Nat /\ heard \in Nat
          /\ MaxSpeech \in Nat /\ Head(pending) \in Seq(Captures)
          /\ Head(pending) # <<>> /\ Consecutive(Head(pending))
          /\ Head(pending)[1] = next
      BY FirstPiece, Typed, Constants
    <3>2. Newest(pending[1]) = next + (Len(pending[1]) - 1)
          /\ Len(pending[1]) \in Nat \ {0}
      BY <1>3, <3>1, RunIs, NotEmpty
    <3> QED
      BY <2>4, <3>1, <3>2
  <2> QED
    BY <1>3, <1>4, <2>4, <2>5 DEF PendingInv
<1> QED
  BY <1>5, <1>6

-----------------------------------------------------------------------------
(* The swap buffer. *)

(* A step of silence after the tail margin, and one that belongs to it.     *)
LEMMA KeptSteps ==
  ASSUME IInv, capture = "cut", TrailingSilence, nc # 0, rest_tail = 0
  PROVE  /\ swapbuf' = swapbuf \o Step /\ Len(swapbuf') = Len(swapbuf) + wstep
         /\ \A i \in 1..(Len(swapbuf) + wstep) :
              swapbuf'[i] = IF i <= Len(swapbuf) THEN swapbuf[i]
                            ELSE cut + (i - Len(swapbuf))
<1>1. /\ Step \in Seq(Captures) /\ Len(Step) = wstep /\ wstep \in Nat
      /\ \A i \in 1..wstep : Step[i] = cut + i
      /\ swapbuf \in Seq(Captures) /\ Len(swapbuf) \in Nat
  BY StepIsNew, Typed
<1>2. swapbuf' = swapbuf \o Step
  BY DEF TrailingSilence
<1>3. /\ Len(swapbuf') = Len(swapbuf) + wstep
      /\ \A i \in 1..(Len(swapbuf) + wstep) :
           swapbuf'[i] = IF i <= Len(swapbuf) THEN swapbuf[i]
                         ELSE Step[i - Len(swapbuf)]
  BY <1>1, <1>2, ConcatProperties
<1>4. ASSUME NEW i \in 1..(Len(swapbuf) + wstep), ~(i <= Len(swapbuf))
      PROVE  swapbuf'[i] = cut + (i - Len(swapbuf))
  <2>1. i - Len(swapbuf) \in 1..wstep
    BY <1>1, <1>4
  <2> QED
    BY <1>1, <1>3, <1>4, <2>1
<1> QED
  BY <1>2, <1>3, <1>4

LEMMA TailStored ==
  ASSUME IInv, SwapInv, capture = "cut", TrailingSilence, nc = 0 \/ rest_tail # 0
  PROVE  swapbuf' = <<>> /\ pending' = stores(<<>>)
<1>1. speaking /\ TailMargin \in Nat \ {0}
  BY Constants DEF TrailingSilence
<1>2. nc # 0 => swapbuf = <<>>
  BY <1>1 DEF SwapInv
<1> QED
  BY <1>1, <1>2 DEF TrailingSilence

LEMMA CutSwap ==
  ASSUME IInv, SwapInv, Cut
  PROVE  SwapInv'
<1>1. capture = "cut" /\ cut' = cut + wstep
  BY DEF Cut
<1>2. /\ cut \in Nat /\ wstep \in Nat /\ wstep <= chunk_size /\ chunk_size \in Nat
      /\ nc \in Nat /\ nc_max \in Nat \ {0}
      /\ rest_tail \in Nat /\ Len(swapbuf) \in Nat /\ Len(swapbuf) <= Steps(nc_max - 1)
  BY Typed, Constants DEF SwapInv
<1>3. wstep > 0 /\ (speaking => nc < nc_max)
  BY <1>1 DEF IInv, StepInv
<1>4. Steps(nc_max - 1) \in Int /\ Steps(nc_max - 1) >= 0
  BY <1>2, WithinSwap
<1>5. CASE Trigger
  <2>1. nc' = 0 /\ (swapbuf' = swapbuf \/ swapbuf' = <<>>)
    BY <1>5 DEF Trigger
  <2>2. Len(swapbuf') <= Steps(nc_max - 1)
    BY <1>2, <1>4, <2>1, EmptySeq
  <2> QED
    BY <2>1, <2>2 DEF SwapInv
<1>6. CASE TrailingSilence
  <2>1. speaking /\ nc' = nc + 1 /\ nc' # 0 /\ nc' - 1 = nc
    BY <1>2, <1>6 DEF TrailingSilence
  <2>2. Steps(nc) \in Int /\ Steps(nc) >= 0 /\ Steps(nc) <= Steps(nc_max - 1)
    <3>1. nc + 1 \in Nat \ {0} /\ nc + 1 <= nc_max /\ (nc + 1) - 1 = nc
      BY <1>2, <1>3, <2>1
    <3> QED
      BY <3>1, WithinSwap
  <2>3. CASE nc # 0 /\ rest_tail = 0
    <3>1. /\ Len(swapbuf') = Len(swapbuf) + wstep
          /\ \A i \in 1..(Len(swapbuf) + wstep) :
               swapbuf'[i] = IF i <= Len(swapbuf) THEN swapbuf[i]
                             ELSE cut + (i - Len(swapbuf))
      BY <1>1, <1>6, <2>3, KeptSteps
    <3>2. rest_tail' = 0
      BY <1>2, <1>3, <1>6, <2>3 DEF TrailingSilence
    <3>3. Len(swapbuf') <= Steps(nc)
      <4>1. Steps(nc) = Steps(nc - 1) + chunk_size /\ Steps(nc - 1) \in Int
            /\ Len(swapbuf) <= Steps(nc - 1)
        BY <1>2, <2>1, <2>3, WithinSwap DEF SwapInv
      <4> QED
        BY <1>2, <3>1, <4>1
    <3>4. ASSUME NEW i \in 1..Len(swapbuf')
          PROVE  swapbuf'[i] = cut' - Len(swapbuf') + i
      <4>1. cut' - Len(swapbuf') = cut - Len(swapbuf) /\ i \in 1..(Len(swapbuf) + wstep)
        BY <1>1, <1>2, <3>1
      <4>2. CASE i <= Len(swapbuf)
        <5>1. swapbuf'[i] = swapbuf[i] /\ i \in 1..Len(swapbuf)
          BY <1>2, <3>1, <4>1, <4>2
        <5>2. swapbuf[i] = cut - Len(swapbuf) + i
          BY <2>1, <2>3, <5>1 DEF SwapInv
        <5> QED
          BY <4>1, <5>1, <5>2
      <4>3. CASE ~(i <= Len(swapbuf))
        <5>1. swapbuf'[i] = cut + (i - Len(swapbuf))
          BY <3>1, <4>1, <4>3
        <5> QED
          BY <1>2, <4>1, <5>1
      <4> QED
        BY <4>2, <4>3
    <3>5. Len(swapbuf') <= Steps(nc_max - 1) /\ Len(swapbuf') <= Steps(nc' - 1)
      BY <1>2, <1>4, <2>1, <2>2, <3>1, <3>3
    <3> QED
      BY <3>2, <3>4, <3>5 DEF SwapInv
  <2>4. CASE nc = 0 \/ rest_tail # 0
    <3>1. swapbuf' = <<>>
      BY <1>1, <1>6, <2>4, TailStored
    <3>2. Len(swapbuf') = 0
      BY <3>1, EmptySeq
    <3>3. Len(swapbuf') <= Steps(nc_max - 1) /\ Len(swapbuf') <= Steps(nc' - 1)
      BY <1>4, <2>1, <2>2, <3>2
    <3>4. \A i \in 1..Len(swapbuf') : FALSE
      BY <3>2
    <3> QED
      BY <3>1, <3>3, <3>4 DEF SwapInv
  <2> QED
    BY <2>3, <2>4
<1>7. CASE Silence
  BY <1>7 DEF Silence, SwapInv
<1> QED
  BY <1>5, <1>6, <1>7 DEF Cut

LEMMA NextSwap ==
  ASSUME IInv, SwapInv, [Next]_vars
  PROVE  SwapInv'
<1>1. CASE UNCHANGED <<cut, speaking, nc, rest_tail, swapbuf>>
  BY <1>1 DEF SwapInv
<1>2. CASE Cut
  BY <1>2, CutSwap
<1>3. CASE UNCHANGED <<cut, nc, rest_tail>> /\ (speaking' => speaking /\ swapbuf' = swapbuf)
           /\ (swapbuf' = swapbuf \/ swapbuf' = <<>>)
  <2>1. Len(swapbuf') <= Steps(nc_max - 1)
    <3>1. Len(<<>>) = 0 /\ Steps(nc_max - 1) >= 0
      BY EmptySeq, WithinSwap, Constants
    <3> QED
      BY <1>3, <3>1 DEF SwapInv
  <2> QED
    BY <1>3, <2>1 DEF SwapInv
<1>4. CASE ~speaking' /\ swapbuf' = <<>>
  <2>1. Len(swapbuf') = 0 /\ Steps(nc_max - 1) >= 0
    BY <1>4, EmptySeq, WithinSwap, Constants
  <2> QED
    BY <1>4, <2>1 DEF SwapInv
<1>5. CASE UNCHANGED vars \/ Read \/ Fails \/ Wait
  <2>1. UNCHANGED <<cut, speaking, nc, rest_tail, swapbuf>>
    BY <1>5 DEF vars, Read, Fails, Wait, thread, detector
  <2> QED
    BY <1>1, <2>1
<1>6. CASE Capture
  <2>1. CASE Check \/ Overflow \/ Store
    <3>1. UNCHANGED <<cut, speaking, nc, rest_tail, swapbuf>>
      BY <2>1 DEF Check, Overflow, Store, detector
    <3> QED
      BY <1>1, <3>1
  <2>2. CASE EndStep
    <3>1. /\ UNCHANGED <<cut, nc, rest_tail>>
          /\ speaking' => speaking /\ swapbuf' = swapbuf
          /\ swapbuf' = swapbuf \/ swapbuf' = <<>>
      BY <2>2 DEF EndStep, EndsAfter
    <3> QED
      BY <1>3, <3>1
  <2> QED
    BY <1>2, <1>6, <2>1, <2>2 DEF Capture
<1>7. CASE Process
  <2>1. CASE Reopen
    <3>1. \/ ~speaking' /\ swapbuf' = <<>>
          \/ UNCHANGED <<cut, speaking, nc, rest_tail, swapbuf>>
      BY <2>1 DEF Reopen
    <3> QED
      BY <1>1, <1>4, <3>1
  <2>2. CASE ~Reopen
    <3>1. UNCHANGED thread
      BY <1>7, <2>2 DEF Process, Start, Poll, CheckCommand, Send, Idle, Rehash, Empty
    <3> QED
      BY <1>1, <3>1 DEF thread, detector
  <2> QED
    BY <2>1, <2>2
<1> QED
  BY <1>5, <1>6, <1>7 DEF Next

LEMMA InitSwap == Init => SwapInv
<1>1. Len(<<>>) = 0 /\ Steps(nc_max - 1) >= 0
  BY EmptySeq, WithinSwap, Constants
<1> QED
  BY <1>1 DEF Init, SwapInv

(* The swap buffer is never too short for what a silence keeps back, which   *)
(* adin_cut only says when it copies: with a head margin of 300 ms and a     *)
(* tail margin of 1200, 20 steps of 1000 samples and 20640 of room.          *)
THEOREM SwapBufferHolds ==
  ASSUME Steps(nc_max - 1) <= TailMargin + c_length
  PROVE  Spec => []SwapFits
<1>1. Init => IInv /\ SwapInv
  BY InitIInv, InitSwap
<1>2. IInv /\ SwapInv /\ [Next]_vars => (IInv /\ SwapInv)'
  BY NextKeeps, NextSwap
<1>3. IInv /\ SwapInv => SwapFits
  <2> SUFFICES ASSUME IInv, SwapInv PROVE SwapFits
    OBVIOUS
  <2>1. Len(swapbuf) \in Nat /\ Len(swapbuf) <= Steps(nc_max - 1)
        /\ Steps(nc_max - 1) \in Int /\ TailMargin \in Nat /\ c_length \in Nat
    BY Typed, WithinSwap, Constants DEF SwapInv
  <2> QED
    BY <2>1 DEF SwapFits
<1> QED
  BY <1>1, <1>2, <1>3, PTL DEF Spec

-----------------------------------------------------------------------------
(* The capture thread: a step. *)

(* A step that is stored, with the run before it. *)
LEMMA StoresRun ==
  ASSUME IInv, capture = "cut", cut' = cut + wstep, heard' = heard, Edge' = cut',
         NEW before \in Seq(Captures), Consecutive(before),
         before # <<>> => Newest(before) = cut,
         NEW first \in Int, first = IF before = <<>> THEN cut + 1 ELSE before[1],
         first > heard - MaxSpeech, pending' = stores(before)
  PROVE  /\ PendingInv'
         /\ local => pending' # <<>> /\ next' = first
         /\ ~local => pending' = <<>>
<1>1. /\ cut \in Nat /\ wstep \in Nat \ {0} /\ cut + wstep \in 0..MaxSamples
  <2>1. wstep > 0 /\ cut + wstep <= heard
    BY DEF IInv, StepInv
  <2>2. cut \in Nat /\ wstep \in Nat /\ heard \in Nat /\ heard <= MaxSamples
        /\ MaxSamples \in Nat
    BY Typed, Constants
  <2> QED
    BY <2>1, <2>2
<1>2. Step # <<>> /\ Consecutive(Step) /\ Step[1] = cut + 1 /\ Newest(Step) = cut + wstep
  <2>1. cut + 1 \in Nat \ {0} /\ cut + 1 <= cut + wstep
    BY <1>1
  <2>2. LET s == Samples(cut + 1, cut + wstep)
        IN s # <<>> /\ Consecutive(s) /\ s[1] = cut + 1 /\ Newest(s) = cut + wstep
    BY <1>1, <2>1, SamplesRun
  <2> QED
    BY <2>2 DEF Step
<1>3. CASE ~local
  <2>1. pending' = <<>> /\ Len(pending') = 0
    BY <1>3, EmptySeq DEF stores
  <2> QED
    BY <1>3, <2>1 DEF PendingInv
<1>4. CASE local /\ before = <<>>
  <2>1. pending' = <<Step>>
    BY <1>4 DEF stores
  <2>2. pending' # <<>> /\ Len(pending') = 1 /\ pending'[1] = Step
    BY <2>1
  <2>3. next' = first
    BY <1>2, <1>4, <2>2 DEF next
  <2>4. PendingInv'
    <3>1. \A k \in 1..Len(pending') : k = 1 /\ ~(k < Len(pending'))
      BY <2>2
    <3> QED
      BY <1>1, <1>2, <2>2, <2>3, <3>1 DEF PendingInv
  <2> QED
    BY <1>4, <2>2, <2>3, <2>4
<1>5. CASE local /\ before # <<>>
  <2>1. pending' = <<before, Step>>
    BY <1>5 DEF stores
  <2>2. pending' # <<>> /\ Len(pending') = 2 /\ pending'[1] = before
        /\ pending'[2] = Step
    BY <2>1
  <2>3. next' = first
    BY <1>5, <2>2 DEF next
  <2>4. PendingInv'
    <3>1. \A k \in 1..Len(pending') :
            (k = 1 /\ k < Len(pending')) \/ (k = 2 /\ ~(k < Len(pending')))
      BY <2>2
    <3>2. Newest(before) <= cut' /\ Newest(Step) <= cut'
      BY <1>1, <1>2, <1>5
    <3>3. \A k \in 1..Len(pending') :
            /\ pending'[k] # <<>> /\ Consecutive(pending'[k])
            /\ Newest(pending'[k]) <= cut'
            /\ IF k < Len(pending')
               THEN pending'[k + 1][1] = Newest(pending'[k]) + 1
               ELSE Newest(pending'[k]) = Edge'
      <4> SUFFICES ASSUME NEW k \in 1..Len(pending')
                   PROVE  /\ pending'[k] # <<>> /\ Consecutive(pending'[k])
                          /\ Newest(pending'[k]) <= cut'
                          /\ IF k < Len(pending')
                             THEN pending'[k + 1][1] = Newest(pending'[k]) + 1
                             ELSE Newest(pending'[k]) = Edge'
        OBVIOUS
      <4>1. CASE k = 1 /\ k < Len(pending')
        <5>1. pending'[k] = before /\ pending'[k + 1] = Step
          BY <2>2, <4>1
        <5> QED
          BY <1>2, <1>5, <3>2, <4>1, <5>1
      <4>2. CASE k = 2 /\ ~(k < Len(pending'))
        <5>1. pending'[k] = Step
          BY <2>2, <4>2
        <5> QED
          BY <1>2, <3>2, <4>2, <5>1
      <4> QED
        BY <3>1, <4>1, <4>2
    <3> QED
      BY <2>3, <3>3 DEF PendingInv
  <2> QED
    BY <1>5, <2>2, <2>3, <2>4
<1> QED
  BY <1>3, <1>4, <1>5

(* The head margin, and what a silence has kept back. *)
LEMMA HeadRuns ==
  ASSUME IInv, capture = "cut"
  PROVE  /\ head \in Seq(Captures) /\ Consecutive(head)
         /\ head # <<>> => /\ Newest(head) = cut
                           /\ head[1] \in Int /\ head[1] > cut + wstep - c_length
<1> DEFINE from == cut + wstep - c_length
           first == IF from > since THEN from + 1 ELSE since + 1
<1>1. wstep > 0
  BY DEF IInv, StepInv
<1>2. /\ cut \in Nat /\ since \in Nat /\ since <= cut /\ wstep \in Nat
      /\ heard \in Nat /\ cut <= heard /\ heard <= MaxSamples /\ MaxSamples \in Nat
      /\ wstep <= chunk_size /\ chunk_size <= c_length /\ c_length \in Nat
      /\ chunk_size \in Nat
  BY Typed, Constants
<1>3. /\ first \in Nat \ {0} /\ first <= cut + 1 /\ cut \in 0..MaxSamples
      /\ first > from
  BY <1>1, <1>2
<1>4. head = Samples(first, cut)
  BY DEF head
<1> HIDE DEF first
<1>5. head \in Seq(Captures) /\ Len(head) = cut + 1 - first
  BY <1>3, <1>4, SamplesAre
<1>6. CASE first <= cut
  <2>1. Consecutive(head) /\ Newest(head) = cut /\ head[1] = first
    BY <1>3, <1>4, <1>6, SamplesRun
  <2> QED
    BY <1>3, <1>5, <2>1
<1>7. CASE ~(first <= cut)
  <2>1. Len(head) = 0
    BY <1>2, <1>3, <1>5, <1>7
  <2>2. head = <<>>
    BY <1>5, <2>1, EmptySeq
  <2> QED
    BY <1>5, <2>2, NoRun
<1> QED
  BY <1>6, <1>7

LEMMA SwapRuns ==
  ASSUME IInv, SwapInv, speaking, nc # 0
  PROVE  /\ Consecutive(swapbuf)
         /\ swapbuf # <<>> => /\ Newest(swapbuf) = cut /\ swapbuf[1] \in Int
                              /\ swapbuf[1] = cut - Len(swapbuf) + 1
<1>1. cut \in Nat /\ swapbuf \in Seq(Captures) /\ Len(swapbuf) \in Nat
      /\ \A i \in 1..Len(swapbuf) : swapbuf[i] = cut - Len(swapbuf) + i
  BY Typed DEF SwapInv
<1>2. CASE swapbuf = <<>>
  BY <1>2, NoRun
<1>3. CASE swapbuf # <<>>
  <2>1. Len(swapbuf) \in Nat \ {0} /\ 1 \in 1..Len(swapbuf)
        /\ Len(swapbuf) \in 1..Len(swapbuf)
    BY <1>1, <1>3, NotEmpty
  <2>2. swapbuf[1] = cut - Len(swapbuf) + 1
    BY <1>1, <2>1
  <2>3. \A i \in 1..Len(swapbuf) : swapbuf[i] = swapbuf[1] + (i - 1)
    BY <1>1, <2>2
  <2>4. Newest(swapbuf) = cut
    BY <1>1, <2>1 DEF Newest
  <2> QED
    BY <1>1, <2>2, <2>3, <2>4 DEF Consecutive
<1> QED
  BY <1>2, <1>3

(* What a step does to what is stored next. *)
StepGoesOn ==
  /\ PendingInv'
  /\ pending' # <<>> => speaking' /\ local
  /\ speaking /\ local => speaking' /\ next' = next

(* The step at hand. *)
LEMMA CutIs ==
  ASSUME Room, IInv, HInv, Cut
  PROVE  /\ capture = "cut" /\ capture' = "check" /\ cut' = cut + wstep
         /\ heard' = heard /\ local' = local
         /\ pending = <<>> /\ next = Edge + 1
         /\ cut \in Nat /\ heard \in Nat /\ wstep \in Nat \ {0} /\ nc \in Nat
         /\ wstep <= chunk_size /\ chunk_size \in Nat
         /\ heard - cut - wstep <= Rest
         /\ Rest \in Nat /\ MaxSpeech \in Nat /\ c_length \in Nat
         /\ Rest + c_length <= MaxSpeech
         /\ Steps(nc_max - 1) \in Nat /\ chunk_size <= Steps(nc_max - 1)
         /\ Rest + Steps(nc_max - 1) <= MaxSpeech
         /\ speaking => nc < nc_max
<1>1. /\ capture = "cut" /\ capture' = "check" /\ cut' = cut + wstep
      /\ heard' = heard /\ local' = local
  BY DEF Cut
<1>2. pending = <<>> /\ next = Edge + 1
  BY <1>1 DEF HInv, WhereInv, next
<1>3. /\ cut \in Nat /\ heard \in Nat /\ wstep \in Nat /\ nc \in Nat
      /\ wstep <= chunk_size /\ chunk_size \in Nat \ {0}
      /\ Rest \in Nat /\ MaxSpeech \in Nat /\ c_length \in Nat
      /\ nc_max \in Nat \ {0}
  BY Typed, Constants DEF Rest
<1>4. wstep > 0 /\ (speaking => nc < nc_max) /\ heard - cut - wstep <= Rest
  BY <1>1 DEF IInv, StepInv, HInv, WindowInv
<1>5. Steps(nc_max - 1) \in Nat /\ chunk_size <= Steps(nc_max - 1)
  <2>1. nc_max - 1 \in Int /\ nc_max - 1 >= 1
    BY Constants
  <2>2. Steps(1) <= Steps(nc_max - 1) /\ Steps(nc_max - 1) \in Int
    BY <2>1, StepsGrow, StepsAdd
  <2>3. Steps(1) = chunk_size
    BY <1>3 DEF Steps
  <2> QED
    BY <1>3, <2>2, <2>3
<1>6. Rest + c_length <= MaxSpeech /\ Rest + Steps(nc_max - 1) <= MaxSpeech
  BY DEF Room
<1> QED
  BY <1>1, <1>2, <1>3, <1>4, <1>5, <1>6

LEMMA TriggerGoesOn ==
  ASSUME Room, IInv, SwapInv, HInv, Cut, Trigger
  PROVE  StepGoesOn
<1> DEFINE before == IF ~speaking THEN head ELSE IF nc > 0 THEN swapbuf ELSE <<>>
           first == IF before = <<>> THEN cut + 1 ELSE before[1]
<1>1. /\ capture = "cut" /\ cut' = cut + wstep /\ heard' = heard /\ local' = local
      /\ pending = <<>> /\ next = Edge + 1
      /\ cut \in Nat /\ heard \in Nat /\ wstep \in Nat \ {0} /\ nc \in Nat
      /\ wstep <= chunk_size /\ chunk_size \in Nat
      /\ heard - cut - wstep <= Rest
      /\ Rest \in Nat /\ MaxSpeech \in Nat /\ c_length \in Nat
      /\ Rest + c_length <= MaxSpeech
      /\ Steps(nc_max - 1) \in Nat /\ chunk_size <= Steps(nc_max - 1)
      /\ Rest + Steps(nc_max - 1) <= MaxSpeech
      /\ speaking => nc < nc_max
  BY CutIs
<1>2. speaking' /\ nc' = 0 /\ pending' = stores(before)
  BY DEF Trigger
<1>3. Edge' = cut'
  BY <1>2 DEF Edge
<1>4. /\ Len(swapbuf) \in Nat /\ swapbuf \in Seq(Captures)
      /\ Len(swapbuf) <= Steps(nc_max - 1)
  BY Typed DEF SwapInv
<1>6. cut + 1 > heard - MaxSpeech
  BY <1>1
<1>7. /\ before \in Seq(Captures) /\ Consecutive(before)
      /\ before # <<>> => Newest(before) = cut
      /\ first \in Int /\ first > heard - MaxSpeech
      /\ speaking => first = next
  <2>1. CASE ~speaking
    <3>1. /\ head \in Seq(Captures) /\ Consecutive(head)
          /\ head # <<>> => /\ Newest(head) = cut
                            /\ head[1] \in Int /\ head[1] > cut + wstep - c_length
      BY <1>1, HeadRuns
    <3>2. before = head
      BY <2>1
    <3>3. first \in Int /\ first > heard - MaxSpeech
      <4>1. CASE head = <<>>
        BY <1>1, <1>6, <3>2, <4>1
      <4>2. CASE head # <<>>
        <5>1. first = head[1]
          BY <3>2, <4>2
        <5>2. cut + wstep - c_length >= heard - MaxSpeech
          BY <1>1
        <5> QED
          BY <1>1, <3>1, <4>2, <5>1, <5>2
      <4> QED
        BY <4>1, <4>2
    <3> QED
      BY <2>1, <3>1, <3>2, <3>3
  <2>2. CASE speaking /\ nc = 0
    <3>1. before = <<>> /\ Edge = cut
      BY <2>2, <1>1 DEF Edge
    <3>2. first = cut + 1
      BY <3>1
    <3> HIDE DEF before, first
    <3>3. first \in Int /\ first > heard - MaxSpeech /\ first = next
      BY <1>1, <1>6, <3>1, <3>2
    <3>4. before \in Seq(Captures) /\ Consecutive(before)
      BY <3>1, NoRun, EmptySeq
    <3> QED
      BY <3>1, <3>3, <3>4
  <2>3. CASE speaking /\ nc # 0
    <3>1. before = swapbuf /\ Edge = cut - Len(swapbuf)
      BY <1>1, <2>3 DEF Edge
    <3>2. /\ Consecutive(swapbuf)
          /\ swapbuf # <<>> => /\ Newest(swapbuf) = cut /\ swapbuf[1] \in Int
                               /\ swapbuf[1] = cut - Len(swapbuf) + 1
      BY <1>4, <2>3, SwapRuns
    <3>3. Len(swapbuf) + chunk_size <= Steps(nc_max - 1)
      <4>1. nc \in Nat \ {0} /\ nc + 1 \in Nat \ {0} /\ nc + 1 <= nc_max
        BY <1>1, <2>3, Constants
      <4>2. /\ Len(swapbuf) <= Steps(nc - 1) /\ Steps(nc - 1) \in Int
            /\ Steps(nc) = Steps(nc - 1) + chunk_size
        BY <1>4, <2>3, <4>1, WithinSwap DEF SwapInv
      <4>3. Steps((nc + 1) - 1) <= Steps(nc_max - 1) /\ (nc + 1) - 1 = nc
        BY <4>1, WithinSwap
      <4>4. Steps(nc) <= Steps(nc_max - 1)
        BY <4>3
      <4> QED
        BY <1>1, <1>4, <4>2, <4>4
    <3>4. CASE swapbuf = <<>>
      <4>1. Len(swapbuf) = 0
        BY <3>4, EmptySeq
      <4>2. first = cut + 1
        BY <3>1, <3>4
      <4>3. before = <<>> /\ Edge = cut
        BY <1>1, <3>1, <3>4, <4>1
      <4> HIDE DEF before, first
      <4>4. first \in Int /\ first > heard - MaxSpeech /\ first = next
        BY <1>1, <1>6, <4>2, <4>3
      <4>5. before \in Seq(Captures) /\ Consecutive(before)
        BY <4>3, NoRun, EmptySeq
      <4> QED
        BY <4>3, <4>4, <4>5
    <3>5. CASE swapbuf # <<>>
      <4>1. first = cut - Len(swapbuf) + 1
        BY <3>1, <3>2, <3>5
      <4>2. first > heard - MaxSpeech /\ first \in Int
        BY <1>1, <1>4, <3>3, <4>1
      <4>3. first = next
        BY <1>1, <1>4, <3>1, <4>1
      <4> QED
        BY <1>4, <3>1, <3>2, <3>5, <4>2, <4>3
    <3> QED
      BY <3>4, <3>5
  <2> QED
    BY <2>1, <2>2, <2>3
<1>8. /\ PendingInv'
      /\ local => pending' # <<>> /\ next' = first
      /\ ~local => pending' = <<>>
  <2>1. first = IF before = <<>> THEN cut + 1 ELSE before[1]
    OBVIOUS
  <2> HIDE DEF before, first
  <2> QED
    BY <1>1, <1>2, <1>3, <1>7, <2>1, StoresRun
<1> HIDE DEF before, first
<1> QED
  BY <1>2, <1>7, <1>8 DEF StepGoesOn

LEMMA SilenceGoesOn ==
  ASSUME Room, IInv, HInv, Cut, Silence
  PROVE  StepGoesOn
<1>1. ~speaking /\ ~speaking' /\ pending' = <<>> /\ UNCHANGED <<nc, swapbuf>>
  BY DEF Silence
<1>2. Len(pending') = 0
  BY <1>1, EmptySeq
<1> QED
  BY <1>1, <1>2 DEF StepGoesOn, PendingInv

LEMMA TrailingGoesOn ==
  ASSUME Room, IInv, SwapInv, HInv, Cut, TrailingSilence
  PROVE  StepGoesOn
<1>1. /\ capture = "cut" /\ cut' = cut + wstep /\ heard' = heard /\ local' = local
      /\ pending = <<>> /\ next = Edge + 1
      /\ cut \in Nat /\ heard \in Nat /\ wstep \in Nat \ {0} /\ nc \in Nat
      /\ wstep <= chunk_size /\ chunk_size \in Nat
      /\ heard - cut - wstep <= Rest
      /\ Rest \in Nat /\ MaxSpeech \in Nat
      /\ Steps(nc_max - 1) \in Nat /\ chunk_size <= Steps(nc_max - 1)
      /\ Rest + Steps(nc_max - 1) <= MaxSpeech
  BY CutIs
<1>2. speaking /\ speaking' /\ nc' = nc + 1 /\ nc' # 0
  BY <1>1 DEF TrailingSilence
<1>3. Len(swapbuf) \in Nat
  BY Typed
<1>4. CASE nc # 0 /\ rest_tail = 0
  <2>1. pending' = <<>>
    BY <1>4 DEF TrailingSilence
  <2>2. Len(swapbuf') = Len(swapbuf) + wstep
    BY <1>1, <1>4, KeptSteps
  <2>3. Edge = cut - Len(swapbuf) /\ Edge' = cut' - Len(swapbuf')
    BY <1>2, <1>4 DEF Edge
  <2>4. Edge' = Edge
    BY <1>1, <1>3, <2>2, <2>3
  <2>5. next' = next
    BY <1>1, <2>1, <2>4 DEF next
  <2>6. PendingInv'
    BY <2>1, EmptySeq DEF PendingInv
  <2> QED
    BY <1>2, <2>1, <2>5, <2>6 DEF StepGoesOn
<1>5. CASE nc = 0 \/ rest_tail # 0
  <2>1. swapbuf' = <<>> /\ pending' = stores(<<>>)
    BY <1>1, <1>5, TailStored
  <2>2. Len(swapbuf') = 0
    BY <2>1, EmptySeq
  <2>3. Edge = cut
    <3>1. CASE nc = 0
      BY <3>1 DEF Edge
    <3>2. CASE nc # 0
      <4>1. Len(swapbuf) = 0
        BY <1>2, <1>5, <3>2, EmptySeq DEF SwapInv
      <4> QED
        BY <1>1, <3>2, <4>1 DEF Edge
    <3> QED
      BY <3>1, <3>2
  <2>4. Edge' = cut'
    BY <1>1, <1>2, <2>2 DEF Edge
  <2>5. /\ PendingInv'
        /\ local => pending' # <<>> /\ next' = cut + 1
        /\ ~local => pending' = <<>>
    <3>1. <<>> \in Seq(Captures) /\ Consecutive(<<>>)
          /\ cut + 1 \in Int /\ cut + 1 > heard - MaxSpeech
      BY <1>1, EmptySeq, NoRun
    <3> QED
      BY <1>1, <2>1, <2>4, <3>1, StoresRun
  <2> QED
    BY <1>1, <1>2, <2>3, <2>5 DEF StepGoesOn
<1> QED
  BY <1>4, <1>5

LEMMA CutGoesOn ==
  ASSUME Room, IInv, SwapInv, HInv, Cut
  PROVE  StepGoesOn
<1>1. Trigger \/ TrailingSilence \/ Silence
  BY DEF Cut
<1> QED
  BY <1>1, TriggerGoesOn, TrailingGoesOn, SilenceGoesOn

-----------------------------------------------------------------------------
(* The capture thread leaves alone what was sent, and the buffer but for    *)
(* Store and Overflow.                                                      *)
LEMMA SameFlow ==
  ASSUME HInv, UNCHANGED <<segment, stale, process, prev_len, nowlen, speech, overflowed>>
  PROVE  FlowInv'
<1>1. unsent' = unsent /\ sendable' = sendable /\ (Sending' <=> Sending)
  BY DEF unsent, sendable, Sending
<1>2. gone' = gone
  BY <1>1 DEF gone
<1>3. HolesWhereStale'
  BY DEF HInv, FlowInv, HolesWhereStale
<1> QED
  BY <1>1, <1>2, <1>3 DEF HInv, FlowInv

LEMMA SameJoin ==
  ASSUME HInv, UNCHANGED <<segment, stale, process, prev_len, nowlen, speech, overflowed>>,
         online' => online, online' /\ GoesOn => GoesOn'
  PROVE  JoinInv'
<1>1. unsent' = unsent /\ (Sending' <=> Sending)
  BY DEF unsent, Sending
<1>2. gone' = gone
  BY <1>1 DEF gone
<1> QED
  BY <1>1, <1>2 DEF HInv, JoinInv

LEMMA CutHoles ==
  ASSUME Room, IInv, SwapInv, HInv, Cut
  PROVE  HInv'
<1>1. /\ capture = "cut" /\ capture' = "check" /\ cut' = cut + wstep /\ heard' = heard
      /\ local' = local /\ cut \in Nat /\ heard \in Nat /\ wstep \in Nat
      /\ heard - cut - wstep <= Rest /\ Rest \in Nat
  BY CutIs
<1>2. UNCHANGED <<segment, stale, process, prev_len, nowlen, speech, overflowed,
                  online, stop_at_next>>
  BY DEF Cut, shared, main, history
<1>3. StepGoesOn
  BY CutGoesOn
<1>4. PendingInv'
  BY <1>3 DEF StepGoesOn
<1>5. WhereInv'
  BY <1>1, <1>2, <1>3 DEF HInv, WhereInv, StepGoesOn
<1>6. WindowInv'
  <2>1. heard' - cut' <= Rest
    BY <1>1
  <2> QED
    BY <1>1, <2>1 DEF WindowInv
<1>7. GoesOn => GoesOn'
  BY <1>1, <1>2, <1>3 DEF GoesOn, StepGoesOn, Newest
<1>8. OutInv'
  BY <1>1, <1>2, <1>7 DEF HInv, OutInv, Consecutive
<1>9. FlowInv' /\ JoinInv'
  BY <1>2, <1>7, SameFlow, SameJoin
<1> QED
  BY <1>4, <1>5, <1>6, <1>8, <1>9 DEF HInv

(* Nothing of the detector changes, nor what is still to be stored. *)
LEMMA SameDetector ==
  ASSUME HInv, UNCHANGED <<heard, cut, speaking, nc, rest_tail, swapbuf, pending>>
  PROVE  /\ PendingInv' /\ Edge' = Edge /\ next' = next
         /\ (local' <=> local) /\ speech' = speech => (GoesOn' <=> GoesOn)
<1>1. Edge' = Edge
  BY DEF Edge
<1>2. next' = next
  BY <1>1 DEF next
<1>3. PendingInv'
  BY <1>1, <1>2 DEF HInv, PendingInv
<1>4. (local' <=> local) /\ speech' = speech => (GoesOn' <=> GoesOn)
  BY <1>2 DEF GoesOn, Newest
<1> QED
  BY <1>1, <1>2, <1>3, <1>4

(* Between two segments there is always room. *)
LEMMA CheckHoles ==
  ASSUME IInv, HInv, Check
  PROVE  HInv'
<1>1. /\ capture = "check" /\ pending # <<>>
      /\ capture' = IF Len(speech) + Len(Head(pending)) > MaxSpeech
                    THEN "full" ELSE "store"
      /\ UNCHANGED <<heard, cut, speaking, nc, rest_tail, swapbuf, pending, local,
                     segment, stale, process, prev_len, nowlen, speech, overflowed,
                     online, stop_at_next>>
  BY DEF Check, detector, shared, main, history
<1>2. PendingInv' /\ (GoesOn' <=> GoesOn)
  BY <1>1, SameDetector
<1>3. WhereInv' /\ WindowInv'
  BY <1>1 DEF HInv, WhereInv, WindowInv
<1>4. FlowInv' /\ JoinInv'
  BY <1>1, <1>2, SameFlow, SameJoin
<1>5. OutInv'
  <2>1. ASSUME process \in {"start", "wait"}, speech # <<>>
        PROVE  ~(Len(speech) + Len(Head(pending)) > MaxSpeech)
    <3> DEFINE new == Head(pending)
    <3>1. /\ new \in Seq(Captures) /\ new # <<>> /\ Consecutive(new) /\ new[1] = next
          /\ next \in Nat /\ Newest(new) \in Nat /\ Newest(new) <= cut /\ local
      BY <1>1, FirstPiece
    <3>2. /\ Consecutive(speech) /\ Newest(speech) = next - 1
          /\ speech[1] > heard - MaxSpeech /\ speech \in Seq(Captures)
      BY <2>1, <3>1, Typed DEF HInv, OutInv, GoesOn
    <3>3. Newest(new) = next + (Len(new) - 1) /\ Len(new) \in Nat
      BY <3>1, RunIs, NotEmpty
    <3>4. Newest(speech) = speech[1] + (Len(speech) - 1) /\ Len(speech) \in Nat
          /\ speech[1] \in Nat
      BY <2>1, <3>2, RunIs, NotEmpty
    <3>5. cut \in Nat /\ heard \in Nat /\ cut <= heard /\ MaxSpeech \in Nat
      BY Typed, Constants
    <3> HIDE DEF new
    <3>6. ~(Len(speech) + Len(new) > MaxSpeech)
      BY <3>1, <3>2, <3>3, <3>4, <3>5
    <3> QED
      BY <3>6 DEF new
  <2>2. process \in {"start", "wait"} /\ speech # <<>> => capture' = "store"
    BY <1>1, <2>1
  <2> QED
    BY <1>1, <1>2, <2>2 DEF HInv, OutInv, Consecutive
<1> QED
  BY <1>2, <1>3, <1>4, <1>5 DEF HInv

LEMMA ReadHoles ==
  ASSUME IInv, HInv, Read
  PROVE  HInv'
<1>1. /\ capture = "read" /\ capture' = "cut" /\ local' = online /\ pending = <<>>
      /\ UNCHANGED <<cut, speaking, nc, rest_tail, swapbuf, pending,
                     segment, stale, process, prev_len, nowlen, speech, overflowed,
                     online, stop_at_next>>
  BY DEF Read, shared, main, history, HInv, WhereInv
<1>2. Edge' = Edge /\ next' = next
  BY <1>1 DEF Edge, next
<1>3. PendingInv' /\ WhereInv'
  BY <1>1, EmptySeq DEF HInv, PendingInv, WhereInv
<1>4. WindowInv'
  <2>1. cut \in Nat /\ heard \in Nat /\ heard - cut < chunk_size
        /\ cut <= heard /\ chunk_size \in Nat /\ MinRead \in Nat
        /\ MaxRead \in Nat /\ Rest \in Nat /\ MaxRead = Rest + 1
    BY <1>1, Typed, Constants DEF IInv, StepInv, Rest
  <2>2. \E n \in MinRead..MaxRead : heard' = heard + n
    BY DEF Read
  <2>3. wstep' = IF chunk_size <= heard' - cut THEN chunk_size ELSE heard' - cut
    BY DEF Read
  <2>4. heard' - cut' - wstep' <= Rest
    BY <1>1, <2>1, <2>2, <2>3
  <2> QED
    BY <1>1, <2>4 DEF WindowInv
<1>5. online' /\ GoesOn => GoesOn'
  BY <1>1, <1>2 DEF GoesOn, Newest
<1>6. FlowInv' /\ JoinInv'
  BY <1>1, <1>5, SameFlow, SameJoin
<1>7. OutInv'
  <2>1. process \in {"start", "wait"} => ~local'
    BY <1>1 DEF HInv, WhereInv
  <2> QED
    BY <1>1, <2>1 DEF HInv, OutInv, Consecutive
<1> QED
  BY <1>3, <1>4, <1>6, <1>7 DEF HInv

LEMMA FailsHoles ==
  ASSUME IInv, HInv, Fails
  PROVE  HInv'
<1>1. /\ capture = "read" /\ capture' \in {"cut", "ended"}
      /\ (capture' = "cut" => wstep' = heard - cut)
      /\ (local' = local \/ local' = online) /\ pending = <<>>
      /\ UNCHANGED <<heard, cut, speaking, nc, rest_tail, swapbuf, pending,
                     segment, stale, process, prev_len, nowlen, speech, overflowed,
                     online, stop_at_next>>
  BY DEF Fails, shared, main, history, HInv, WhereInv
<1>2. PendingInv' /\ next' = next
  BY <1>1, SameDetector
<1>3. WhereInv'
  BY <1>1 DEF HInv, WhereInv
<1>4. WindowInv'
  <2>1. cut \in Nat /\ heard \in Nat /\ Rest \in Nat
    BY Typed, Constants DEF Rest
  <2> QED
    BY <1>1, <2>1 DEF WindowInv
<1>5. online' /\ GoesOn => GoesOn'
  BY <1>1, <1>2 DEF GoesOn, Newest
<1>6. FlowInv' /\ JoinInv'
  BY <1>1, <1>5, SameFlow, SameJoin
<1>7. OutInv'
  <2>1. process \in {"start", "wait"} => (local' => local)
    BY <1>1 DEF HInv, WhereInv
  <2>2. local /\ local' /\ GoesOn => GoesOn'
    BY <1>1, <1>2 DEF GoesOn, Newest
  <2> QED
    BY <1>1, <2>1, <2>2 DEF HInv, OutInv, Consecutive
<1> QED
  BY <1>2, <1>3, <1>4, <1>6, <1>7 DEF HInv

LEMMA EndStepHoles ==
  ASSUME IInv, HInv, EndStep
  PROVE  HInv'
<1> DEFINE over == speaking /\ nc >= nc_max
<1>1. /\ capture = "check" /\ pending = <<>>
      /\ speaking' = (speaking /\ ~over)
      /\ swapbuf' = IF over THEN <<>> ELSE swapbuf
      /\ online' = (online /\ ~over) /\ local' = (local /\ ~over)
      /\ capture' = CASE cut + wstep <= heard -> "cut"
                      [] end_of_stream -> "ended"
                      [] OTHER -> "read"
      /\ UNCHANGED <<heard, cut, wstep, nc, rest_tail, pending,
                     segment, stale, process, prev_len, nowlen, speech, overflowed,
                     stop_at_next>>
  BY DEF EndStep, EndsAfter, main, history
<1>2. capture' \in {"read", "cut", "ended"}
  BY <1>1
<1>3. (process' \in {"waitEnd", "reopen"} => capture = "ended")
  BY <1>1 DEF HInv, WhereInv
<1>4. WhereInv'
  BY <1>1, <1>2, <1>3 DEF HInv, WhereInv
<1>5. WindowInv'
  <2>1. heard - cut <= Rest /\ wstep \in Nat /\ heard \in Nat /\ cut \in Nat
    BY <1>1, Typed DEF HInv, WindowInv
  <2>2. Rest \in Nat
    BY Constants DEF Rest
  <2>3. heard' - cut' - wstep' <= Rest
    BY <1>1, <2>1, <2>2
  <2> QED
    BY <1>2, <2>3 DEF WindowInv
<1>6. CASE ~over
  <2>1. /\ UNCHANGED <<heard, cut, nc, rest_tail, swapbuf, pending>>
        /\ (speaking' <=> speaking) /\ (local' <=> local) /\ (online' <=> online)
    BY <1>1, <1>6
  <2>2. PendingInv' /\ (GoesOn' <=> GoesOn)
    <3>1. speaking' = speaking
      BY <1>1, <1>6, Typed
    <3> QED
      BY <1>1, <2>1, <3>1, SameDetector
  <2>3. FlowInv' /\ JoinInv'
    BY <1>1, <2>1, <2>2, SameFlow, SameJoin
  <2>4. OutInv'
    BY <1>1, <1>2, <2>1, <2>2 DEF HInv, OutInv, Consecutive
  <2> QED
    BY <1>4, <1>5, <2>2, <2>3, <2>4 DEF HInv
<1>7. CASE over
  <2>1. ~speaking' /\ ~online' /\ ~local' /\ swapbuf' = <<>>
    BY <1>1, <1>7
  <2>2. PendingInv'
    BY <1>1, EmptySeq DEF PendingInv
  <2>3. FlowInv' /\ JoinInv'
    BY <1>1, <2>1, SameFlow, SameJoin
  <2>4. OutInv'
    BY <1>1, <1>2, <2>1 DEF HInv, OutInv, Consecutive
  <2> QED
    BY <1>4, <1>5, <2>2, <2>3, <2>4 DEF HInv
<1> QED
  BY <1>6, <1>7

(* What did not fit is not passed over: the main thread sends no more than  *)
(* it has looked at.                                                       *)
LEMMA OverflowHoles ==
  ASSUME IInv, HInv, Overflow
  PROVE  HInv'
<1>1. /\ capture = "full" /\ capture' = "check" /\ overflowed' = TRUE
      /\ pending # <<>> /\ pending' = Tail(pending)
      /\ UNCHANGED <<heard, cut, speaking, nc, rest_tail, swapbuf, local,
                     segment, stale, process, prev_len, nowlen, speech,
                     online, stop_at_next>>
  BY DEF Overflow, detector, main, history, IInv, StoreInv
<1>2. PendingInv'
  BY <1>1, OtherPieces
<1>3. WhereInv' /\ WindowInv'
  BY <1>1, FirstPiece DEF HInv, WhereInv, WindowInv
<1>4. OutInv'
  BY <1>1 DEF HInv, OutInv, Consecutive
<1>5. JoinInv'
  BY <1>1 DEF JoinInv
<1>6. FlowInv'
  <2>1. unsent' = unsent /\ (Sending' <=> Sending)
    BY <1>1 DEF unsent, Sending
  <2>2. gone' = gone
    BY <1>1, <2>1 DEF gone
  <2>3. sendable' = nowlen /\ nowlen <= sendable /\ sendable \in Nat /\ nowlen \in Nat
    <3>1. nowlen <= Len(speech) /\ nowlen \in Nat /\ Len(speech) \in Nat
      BY Typed
    <3> QED
      BY <1>1, <3>1 DEF sendable
  <2>4. HolesWhereStale'
    BY <1>1 DEF HInv, FlowInv, HolesWhereStale
  <2>5. \A i \in 1..(sendable' - 1) : i \in 1..(sendable - 1)
    BY <2>3
  <2> QED
    BY <1>1, <2>1, <2>2, <2>4, <2>5 DEF HInv, FlowInv
<1> QED
  BY <1>2, <1>3, <1>4, <1>5, <1>6 DEF HInv

LEMMA StoreHoles ==
  ASSUME IInv, HInv, Store
  PROVE  HInv'
<1> DEFINE new == Head(pending)
<1>1. /\ capture = "store" /\ capture' = "check" /\ speech' = speech \o new
      /\ pending # <<>> /\ pending' = Tail(pending)
      /\ UNCHANGED <<heard, cut, speaking, nc, rest_tail, swapbuf, local,
                     segment, stale, process, prev_len, nowlen, overflowed,
                     online, stop_at_next>>
  BY DEF Store, detector, main, history, IInv, StoreInv
<1>2. /\ new \in Seq(Captures) /\ new # <<>> /\ Consecutive(new) /\ new[1] = next
      /\ next \in Nat /\ Newest(new) \in Nat /\ next > heard - MaxSpeech
      /\ local /\ speaking
  BY <1>1, FirstPiece
<1>3. PendingInv' /\ next' = Newest(new) + 1
  BY <1>1, OtherPieces
<1> HIDE DEF new
<1>4. WhereInv' /\ WindowInv'
  BY <1>1, <1>2 DEF HInv, WhereInv, WindowInv
<1>5. /\ speech \in Seq(Captures) /\ Len(speech) \in Nat /\ Len(new) \in Nat \ {0}
      /\ Len(speech') = Len(speech) + Len(new)
      /\ \A i \in 1..Len(speech') :
           speech'[i] = IF i <= Len(speech) THEN speech[i] ELSE new[i - Len(speech)]
      /\ prev_len \in Nat /\ nowlen \in Nat
      /\ prev_len <= Len(speech) /\ nowlen <= Len(speech)
  BY <1>1, <1>2, Typed, NotEmpty, ConcatProperties
<1>6. GoesOn'
  <2>1. Newest(speech') = Newest(new)
    BY <1>5 DEF Newest
  <2> QED
    BY <1>1, <1>2, <1>3, <2>1 DEF GoesOn
<1>7. OutInv'
  <2> SUFFICES ASSUME process \in {"start", "wait"}
               PROVE  Consecutive(speech') /\ speech'[1] > heard - MaxSpeech
    BY <1>1, <1>6 DEF OutInv
  <2>1. /\ Consecutive(speech)
        /\ speech # <<>> => Newest(speech) = next - 1 /\ speech[1] > heard - MaxSpeech
    BY <1>2 DEF HInv, OutInv, GoesOn
  <2>2. speech # <<>> => new[1] = Newest(speech) + 1
    BY <1>2, <2>1
  <2>3. /\ Consecutive(speech \o new)
        /\ (speech \o new)[1] = IF speech = <<>> THEN new[1] ELSE speech[1]
    BY <1>2, <1>5, <2>1, <2>2, RunGoesOn
  <2> QED
    BY <1>1, <1>2, <2>1, <2>3
<1>8. unsent' = unsent /\ (Sending' <=> Sending) /\ unsent \in Nat
      /\ unsent <= Len(speech)
  BY <1>1, <1>5 DEF unsent, Sending
<1>9. gone' = gone /\ gone \in Int
  <2>1. Len(segment) \in Nat
    BY Typed, LenProperties
  <2> QED
    BY <1>1, <1>8, <2>1 DEF gone
<1>10. FlowInv'
  <2>1. HolesWhereStale'
    BY <1>1 DEF HInv, FlowInv, HolesWhereStale
  <2>2. process' \in Outside => segment' = <<>>
    BY <1>1 DEF HInv, FlowInv
  <2>3. ASSUME Sending, segment # <<>>
        PROVE  unsent # 0 /\ Newest(segment) = speech'[unsent]
    <3>1. unsent # 0 /\ Newest(segment) = speech[unsent]
      BY <2>3 DEF HInv, FlowInv
    <3>2. unsent \in 1..Len(speech') /\ unsent <= Len(speech)
      BY <1>5, <1>8, <3>1
    <3> QED
      BY <1>5, <3>1, <3>2
  <2>4. ASSUME Sending, NEW i \in 1..(sendable' - 1)
        PROVE  speech'[i + 1] = speech'[i] + 1 \/ gone + i = stale
    <3>1. sendable' = IF overflowed THEN nowlen ELSE Len(speech) + Len(new)
      BY <1>1, <1>5 DEF sendable
    <3>2. i \in Nat \ {0} /\ i \in 1..Len(speech') /\ i + 1 \in 1..Len(speech')
      BY <1>5, <3>1
    <3>3. CASE i < Len(speech)
      <4>1. i \in 1..(sendable - 1)
        BY <1>5, <3>1, <3>2, <3>3 DEF sendable
      <4>2. speech[i + 1] = speech[i] + 1 \/ gone + i = stale
        BY <2>4, <4>1 DEF HInv, FlowInv
      <4>3. speech'[i] = speech[i] /\ speech'[i + 1] = speech[i + 1]
        BY <1>5, <3>2, <3>3
      <4> QED
        BY <4>2, <4>3
    <3>4. CASE i = Len(speech)
      <4>1. ~overflowed
        BY <1>5, <3>1, <3>2, <3>4
      <4>2. online
        <5>1. process \notin Outside
          BY <2>4 DEF Sending, Outside
        <5> QED
          BY <1>1, <5>1 DEF IInv, OfflineInv
      <4>3. gone + Len(speech) = stale \/ GoesOn
        BY <2>4, <4>1, <4>2 DEF HInv, JoinInv
      <4>4. speech'[i] = Newest(speech) /\ speech'[i + 1] = new[1]
        <5>1. (i + 1) - Len(speech) = 1 /\ ~(i + 1 <= Len(speech))
          BY <1>5, <3>4
        <5> QED
          BY <1>5, <3>2, <3>4, <5>1 DEF Newest
      <4>5. GoesOn => new[1] = Newest(speech) + 1
        BY <1>2 DEF GoesOn
      <4> QED
        BY <3>4, <4>3, <4>4, <4>5
    <3>5. CASE i > Len(speech)
      <4>1. /\ i - Len(speech) \in 1..Len(new)
            /\ (i + 1) - Len(speech) \in 1..Len(new)
        BY <1>5, <3>2, <3>5
      <4>2. /\ speech'[i] = new[i - Len(speech)]
            /\ speech'[i + 1] = new[(i + 1) - Len(speech)]
        BY <1>5, <3>2, <3>5
      <4>3. /\ new[i - Len(speech)] = new[1] + ((i - Len(speech)) - 1)
            /\ new[(i + 1) - Len(speech)] = new[1] + (((i + 1) - Len(speech)) - 1)
        BY <1>2, <4>1 DEF Consecutive
      <4> QED
        BY <1>2, <1>5, <3>2, <4>2, <4>3
    <3> QED
      BY <1>5, <3>2, <3>3, <3>4, <3>5
  <2> QED
    BY <1>1, <1>8, <1>9, <2>1, <2>2, <2>3, <2>4 DEF FlowInv
<1>11. JoinInv'
  BY <1>6 DEF JoinInv
<1> QED
  BY <1>3, <1>4, <1>7, <1>10, <1>11 DEF HInv

-----------------------------------------------------------------------------
(* The main thread. *)

LEMMA SameCapture ==
  ASSUME HInv, UNCHANGED thread
  PROVE  /\ PendingInv' /\ WindowInv' /\ next' = next
         /\ speech' = speech => (GoesOn' <=> GoesOn)
<1>1. UNCHANGED <<heard, cut, wstep, speaking, nc, rest_tail, swapbuf, pending, local,
                  capture>>
  BY DEF thread, detector
<1>2. WindowInv'
  BY <1>1 DEF HInv, WindowInv
<1> QED
  BY <1>1, <1>2, SameDetector

(* A segment begins after what is in the buffer. *)
LEMMA StartHoles ==
  ASSUME IInv, HInv, Start
  PROVE  HInv'
<1>1. /\ process = "start" /\ process' = "poll" /\ overflowed' = FALSE
      /\ stale' = Len(speech)
      /\ UNCHANGED <<thread, speech, prev_len, nowlen, segment>>
      /\ UNCHANGED <<pending, local, capture, speaking>>
  BY DEF Start, thread, detector
<1>2. PendingInv' /\ WindowInv'
  BY <1>1, SameCapture
<1>3. WhereInv' /\ OutInv'
  BY <1>1 DEF HInv, WhereInv, OutInv
<1>4. /\ segment = <<>> /\ Len(segment) = 0 /\ prev_len = 0 /\ Consecutive(speech)
      /\ Len(speech) \in Nat
  BY <1>1, EmptySeq, Typed DEF HInv, FlowInv, OutInv, IInv, LengthInv, Outside
<1>5. unsent' = 0 /\ gone' = 0 /\ sendable' = Len(speech)
  <2>1. unsent' = 0
    BY <1>1, <1>4 DEF unsent
  <2> QED
    BY <1>1, <1>4, <2>1 DEF gone, sendable
<1>6. FlowInv'
  <2>1. HolesWhereStale'
    BY <1>1, <1>4 DEF HolesWhereStale
  <2>2. ASSUME NEW i \in 1..(Len(speech) - 1)
        PROVE  speech[i + 1] = speech[i] + 1
    <3>1. /\ i \in 1..Len(speech) /\ i + 1 \in 1..Len(speech)
          /\ speech[i] = speech[1] + (i - 1) /\ speech[i + 1] = speech[1] + ((i + 1) - 1)
      BY <1>4 DEF Consecutive
    <3>2. speech[1] \in Nat
      <4>1. 1 \in 1..Len(speech)
        BY <1>4, <3>1
      <4>2. speech[1] \in Captures
        BY <4>1, Typed, ElementOfSeq
      <4> QED
        BY <4>2, Constants DEF Captures
    <3> QED
      BY <3>1, <3>2
  <2> QED
    BY <1>1, <1>4, <1>5, <2>1, <2>2 DEF FlowInv, Outside
<1>7. JoinInv'
  BY <1>1, <1>4, <1>5 DEF JoinInv
<1> QED
  BY <1>2, <1>3, <1>6, <1>7 DEF HInv

(* The steps in which adin_thread_process goes on, but for those that send  *)
(* or move the buffer.                                                     *)
LEMMA StillHoles ==
  ASSUME IInv, HInv, UNCHANGED <<thread, shared, segment, stale, prev_len>>,
         process \in {"poll", "command", "process"},
         \/ process' = "poll" /\ nowlen' = nowlen
         \/ /\ process' \in {"command", "process"}
            /\ (nowlen' = nowlen \/ (nowlen' = Len(speech) /\ ~overflowed))
         \/ process' \in {"overflow", "clear"}
         \/ process' = "drop" /\ stop_at_next'
  PROVE  HInv'
<1>1. UNCHANGED <<speech, online, overflowed, pending, local, capture, speaking>>
  BY DEF thread, shared, detector
<1>2. PendingInv' /\ WindowInv' /\ (GoesOn' <=> GoesOn)
  BY <1>1, SameCapture
<1>3. WhereInv' /\ OutInv'
  BY <1>1 DEF HInv, WhereInv, OutInv
<1>4. /\ process' \notin Outside /\ process' # "rehash" /\ Sending
      /\ unsent = prev_len /\ unsent' = prev_len
  BY DEF Outside, Sending, unsent
<1>5. gone' = gone
  BY <1>4 DEF gone
<1>6. Sending' => sendable' = sendable
  BY <1>1 DEF sendable, Sending
<1>7. FlowInv'
  <2>1. HolesWhereStale'
    BY DEF HInv, FlowInv, HolesWhereStale
  <2> QED
    BY <1>1, <1>4, <1>5, <1>6, <2>1 DEF HInv, FlowInv
<1>8. JoinInv'
  BY <1>1, <1>2, <1>4, <1>5 DEF HInv, JoinInv
<1> QED
  BY <1>2, <1>3, <1>7, <1>8 DEF HInv

(* The end of adin_thread_process. *)
LEMMA ReturnHoles ==
  ASSUME IInv, HInv, UNCHANGED <<thread, stop_at_next>>,
         NEW result \in {0, 1, -2}, Return(result),
         result = -2 => stop_at_next, result = 0 => capture = "ended",
         result # 0 => ~online' /\ speech' = <<>>
  PROVE  HInv'
<1>1. UNCHANGED <<pending, local, capture, speaking>>
  BY DEF thread, detector
<1>2. segment' = <<>> /\ Len(segment') = 0
  BY EmptySeq DEF Return
<1>3. \/ result # 0 /\ process' \in {"wait", "start"}
      \/ result = 0 /\ process' \in {"waitEnd", "reopen"}
  BY DEF Return
<1>4. PendingInv' /\ WindowInv'
  BY SameCapture
<1>5. WhereInv'
  BY <1>1, <1>3 DEF HInv, WhereInv
<1>6. OutInv'
  <2>1. process' \in {"start", "wait"} => speech' = <<>> /\ Consecutive(speech')
    BY <1>3, NoRun
  <2> QED
    BY <2>1 DEF OutInv
<1>7. FlowInv' /\ JoinInv'
  BY <1>2, <1>3 DEF FlowInv, JoinInv, HolesWhereStale, Sending
<1> QED
  BY <1>4, <1>5, <1>6, <1>7 DEF HInv

LEMMA PollHoles ==
  ASSUME IInv, HInv, Poll
  PROVE  HInv'
<1>1. process = "poll" /\ UNCHANGED <<thread, shared, stop_at_next>>
  BY DEF Poll
<1>2. CASE capture = "ended"
  <2>1. Return(0)
    BY <1>2 DEF Poll
  <2> QED
    BY <1>1, <1>2, <2>1, ReturnHoles
<1>3. CASE capture # "ended"
  <2>1. /\ process' = IF overflowed THEN "overflow" ELSE "command"
        /\ nowlen' = Len(speech) /\ UNCHANGED <<prev_len, segment, stale>>
    BY <1>3 DEF Poll
  <2> QED
    BY <1>1, <2>1, StillHoles
<1> QED
  BY <1>2, <1>3

LEMMA EmptyHoles ==
  ASSUME IInv, HInv,
         NEW at, NEW result, Empty(at, result),
         <<at, result>> \in {<<"overflow", 1>>, <<"drop", -2>>, <<"clear", 1>>}
  PROVE  HInv'
<1>1. /\ process = at /\ speech' = <<>> /\ Return(result)
      /\ UNCHANGED <<thread, stop_at_next>>
  BY DEF Empty
<1>2. \/ at = "overflow" /\ result = 1
      \/ at = "drop" /\ result = -2
      \/ at = "clear" /\ result = 1
  OBVIOUS
<1>3. ~online'
  <2>1. CASE at = "clear"
    <3>1. ~online
      BY <1>1, <2>1 DEF IInv, OfflineInv, Outside
    <3> QED
      BY <3>1 DEF Empty
  <2> QED
    BY <2>1 DEF Empty
<1>4. result = -2 => stop_at_next
  BY <1>1, <1>2 DEF HInv, WhereInv
<1>5. result \in {0, 1, -2} /\ result # 0
  BY <1>2
<1> QED
  BY <1>1, <1>3, <1>4, <1>5, ReturnHoles

LEMMA WaitHoles ==
  ASSUME IInv, HInv, Wait
  PROVE  HInv'
<1>1. /\ process \in {"wait", "waitEnd"}
      /\ process' = process \/ (process = "wait" /\ process' = "start")
         \/ (process = "waitEnd" /\ process' = "reopen")
      /\ UNCHANGED <<thread, shared, segment, stale, stop_at_next>>
  BY DEF Wait
<1>2. UNCHANGED <<speech, online, overflowed, pending, local, capture, speaking, heard>>
  BY <1>1 DEF thread, shared, detector
<1>3. PendingInv' /\ WindowInv' /\ (GoesOn' <=> GoesOn)
  BY <1>1, <1>2, SameCapture
<1>4. WhereInv' /\ OutInv'
  BY <1>1, <1>2, <1>3 DEF HInv, WhereInv, OutInv, Consecutive
<1>5. FlowInv' /\ JoinInv'
  BY <1>1 DEF HInv, FlowInv, JoinInv, HolesWhereStale, Sending, Outside
<1> QED
  BY <1>3, <1>4, <1>5 DEF HInv

LEMMA ReopenHoles ==
  ASSUME IInv, HInv, Reopen
  PROVE  HInv'
<1>1. /\ process = "reopen" /\ capture = "ended" /\ pending = <<>> /\ segment = <<>>
      /\ UNCHANGED <<heard, wstep, rest_tail, local, pending, segment, stop_at_next>>
  BY DEF Reopen, HInv, WhereInv, FlowInv, Outside
<1>2. CASE process' = "start"
  <2>1. /\ capture' = "read" /\ cut' = heard /\ speaking' = FALSE /\ nc' = 0
        /\ speech' = <<>> /\ online' = FALSE
    BY <1>2 DEF Reopen
  <2>2. PendingInv' /\ WindowInv' /\ WhereInv'
    BY <1>1, <1>2, <2>1, EmptySeq DEF PendingInv, WindowInv, WhereInv
  <2>3. OutInv'
    BY <2>1, NoRun DEF OutInv
  <2> QED
    BY <1>1, <1>2, <2>2, <2>3, EmptySeq
    DEF HInv, FlowInv, JoinInv, HolesWhereStale, Sending
<1>3. CASE process' = "exit"
  <2>1. UNCHANGED <<capture, since, cut, end_of_stream, speaking, nc, swapbuf, shared>>
    BY <1>3 DEF Reopen
  <2>2. UNCHANGED thread
    BY <1>1, <2>1 DEF thread, detector, Reopen
  <2>3. PendingInv' /\ WindowInv'
    BY <2>2, SameCapture
  <2>4. WhereInv' /\ OutInv'
    BY <1>1, <1>3 DEF HInv, WhereInv, OutInv
  <2> QED
    BY <1>1, <1>3, <2>3, <2>4, EmptySeq
    DEF HInv, FlowInv, JoinInv, HolesWhereStale, Sending
<1> QED
  BY <1>2, <1>3 DEF Reopen

(* What is sent goes on where the last one of the segment was in the buffer.*)
LEMMA SendHoles ==
  ASSUME IInv, HInv, Send
  PROVE  HInv'
<1> DEFINE new == SubSeq(speech, prev_len + 1, nowlen)
<1>1. /\ process = "process" /\ prev_len < nowlen /\ segment' = segment \o new
      /\ UNCHANGED <<thread, speech, online, overflowed, nowlen, stop_at_next, stale>>
      /\ UNCHANGED <<pending, local, capture, speaking>>
      /\ \/ process' = "rehash"
         \/ process' = "poll" /\ prev_len' = nowlen
  BY DEF Send, thread, shared, detector
<1>2. PendingInv' /\ WindowInv' /\ (GoesOn' <=> GoesOn)
  BY <1>1, SameCapture
<1>3. WhereInv' /\ OutInv'
  BY <1>1 DEF HInv, WhereInv, OutInv
<1>4. /\ speech \in Seq(Captures) /\ Len(speech) \in Nat
      /\ prev_len \in Nat /\ nowlen \in Nat \ {0} /\ nowlen <= Len(speech)
      /\ segment \in Seq(Captures) /\ Len(segment) \in Nat
  BY <1>1, Typed, LenProperties
<1>5. /\ new \in Seq(Captures) /\ Len(new) = nowlen - prev_len
      /\ \A j \in 1..(nowlen - prev_len) : new[j] = speech[prev_len + j]
  <2>1. \A j \in (prev_len + 1)..nowlen : speech[j] \in Captures
    <3> SUFFICES ASSUME NEW j \in (prev_len + 1)..nowlen PROVE speech[j] \in Captures
      OBVIOUS
    <3>1. j \in 1..Len(speech)
      BY <1>4
    <3> QED
      BY <1>4, <3>1, ElementOfSeq
  <2>2. prev_len + 1 \in Int /\ nowlen \in Int /\ prev_len + 1 <= nowlen
    BY <1>1, <1>4
  <2>3. /\ new \in Seq(Captures) /\ Len(new) = nowlen - (prev_len + 1) + 1
        /\ \A j \in 1..(nowlen - (prev_len + 1) + 1) :
             new[j] = speech[(prev_len + 1) + j - 1]
    BY <2>1, <2>2, SubSeqProperties
  <2>4. ASSUME NEW j \in 1..(nowlen - prev_len)
        PROVE  new[j] = speech[prev_len + j]
    <3>1. j \in 1..(nowlen - (prev_len + 1) + 1)
          /\ (prev_len + 1) + j - 1 = prev_len + j
      BY <1>4
    <3> QED
      BY <2>3, <3>1
  <2> QED
    BY <1>4, <2>3, <2>4
<1> HIDE DEF new
<1>6. /\ Len(segment') = Len(segment) + (nowlen - prev_len)
      /\ \A j \in 1..Len(segment') :
           segment'[j] = IF j <= Len(segment) THEN segment[j]
                         ELSE speech[prev_len + (j - Len(segment))]
  <2>1. /\ Len(segment') = Len(segment) + Len(new)
        /\ \A j \in 1..(Len(segment) + Len(new)) :
             segment'[j] = IF j <= Len(segment) THEN segment[j]
                           ELSE new[j - Len(segment)]
    BY <1>1, <1>4, <1>5, ConcatProperties
  <2>2. ASSUME NEW j \in 1..Len(segment'), ~(j <= Len(segment))
        PROVE  segment'[j] = speech[prev_len + (j - Len(segment))]
    <3>1. j - Len(segment) \in 1..(nowlen - prev_len)
      BY <1>4, <1>5, <2>1, <2>2
    <3> QED
      BY <1>5, <2>1, <2>2, <3>1
  <2> QED
    BY <1>5, <2>1, <2>2
<1>7. unsent = prev_len /\ unsent' = nowlen /\ Sending /\ Sending'
  BY <1>1 DEF unsent, Sending
<1>8. gone' = gone /\ gone = Len(segment) - prev_len
  BY <1>4, <1>6, <1>7 DEF gone
<1>9. sendable' = sendable /\ sendable \in Nat /\ nowlen <= sendable
  BY <1>1, <1>4 DEF sendable
<1>10. \A i \in 1..(sendable - 1) : speech[i + 1] = speech[i] + 1 \/ gone + i = stale
  BY <1>7 DEF HInv, FlowInv
<1>11. HolesWhereStale'
  <2> SUFFICES ASSUME NEW i \in 1..(Len(segment') - 1)
               PROVE  segment'[i + 1] = segment'[i] + 1 \/ i = stale
    BY <1>1 DEF HolesWhereStale
  <2>1. i \in 1..Len(segment') /\ i + 1 \in 1..Len(segment') /\ i \in Nat \ {0}
    BY <1>1, <1>4, <1>6
  <2>2. CASE i < Len(segment)
    <3>1. segment'[i] = segment[i] /\ segment'[i + 1] = segment[i + 1]
      <4>1. i <= Len(segment) /\ i + 1 <= Len(segment)
        BY <1>4, <2>1, <2>2
      <4> QED
        BY <1>6, <2>1, <4>1
    <3>2. i \in 1..(Len(segment) - 1)
      BY <1>4, <2>1, <2>2
    <3> QED
      BY <3>1, <3>2 DEF HInv, FlowInv, HolesWhereStale
  <2>3. CASE i >= Len(segment)
    <3> DEFINE j == prev_len + (i - Len(segment))
    <3>1. segment'[i + 1] = speech[j + 1]
      <4>1. ~(i + 1 <= Len(segment))
            /\ prev_len + ((i + 1) - Len(segment)) = j + 1
        BY <1>4, <2>1, <2>3
      <4> QED
        BY <1>6, <2>1, <4>1
    <3>2. segment'[i] = speech[j] /\ j # 0
      <4>1. CASE i = Len(segment)
        <5>1. segment # <<>>
          BY <2>1, <4>1, EmptySeq
        <5>2. prev_len # 0 /\ Newest(segment) = speech[prev_len]
          BY <1>7, <5>1 DEF HInv, FlowInv
        <5>3. j = prev_len /\ segment'[i] = Newest(segment)
          BY <1>4, <1>6, <2>1, <4>1 DEF Newest
        <5> QED
          BY <5>2, <5>3
      <4>2. CASE i > Len(segment)
        BY <1>4, <1>6, <2>1, <4>2
      <4> QED
        BY <1>4, <2>1, <2>3, <4>1, <4>2
    <3>3. j \in 1..(sendable - 1) /\ gone + j = i
      BY <1>1, <1>4, <1>6, <1>8, <1>9, <2>1, <2>3, <3>2
    <3> HIDE DEF j
    <3> QED
      BY <1>10, <3>1, <3>2, <3>3
  <2> QED
    BY <1>4, <2>1, <2>2, <2>3
<1>12. Newest(segment') = speech[nowlen]
  <2>1. /\ Len(segment') \in 1..Len(segment') /\ ~(Len(segment') <= Len(segment))
        /\ prev_len + (Len(segment') - Len(segment)) = nowlen
    BY <1>1, <1>4, <1>6
  <2> QED
    BY <1>6, <2>1 DEF Newest
<1>13. FlowInv'
  <2>1. process' \notin Outside
    BY <1>1 DEF Outside
  <2> QED
    BY <1>1, <1>4, <1>7, <1>8, <1>9, <1>10, <1>11, <1>12, <2>1 DEF FlowInv
<1>14. JoinInv'
  BY <1>1, <1>2, <1>7, <1>8 DEF HInv, JoinInv
<1> QED
  BY <1>2, <1>3, <1>13, <1>14 DEF HInv

LEMMA RehashHoles ==
  ASSUME IInv, HInv, Rehash
  PROVE  HInv'
<1>1. /\ process = "rehash" /\ process' = "poll"
      /\ speech' = SubSeq(speech, prev_len + 1, Len(speech))
      /\ nowlen' = nowlen - prev_len /\ prev_len' = nowlen'
      /\ UNCHANGED <<thread, online, overflowed, segment, stop_at_next, stale>>
      /\ UNCHANGED <<pending, local, capture, speaking>>
  BY DEF Rehash, thread, detector, history
<1>2. PendingInv' /\ WindowInv' /\ next' = next
  BY <1>1, SameCapture
<1>3. WhereInv' /\ OutInv'
  BY <1>1 DEF HInv, WhereInv, OutInv
<1>4. /\ speech \in Seq(Captures) /\ Len(speech) \in Nat
      /\ prev_len \in Nat /\ nowlen \in Nat \ {0}
      /\ nowlen <= Len(speech) /\ prev_len < nowlen
      /\ Len(segment) \in Nat
  <2>1. prev_len < nowlen
    BY <1>1 DEF IInv, LengthInv
  <2> QED
    BY <2>1, Typed, LenProperties
<1>5. /\ Len(speech') = Len(speech) - prev_len
      /\ \A i \in 1..Len(speech') : speech'[i] = speech[prev_len + i]
  <2>1. \A i \in (prev_len + 1)..Len(speech) : speech[i] \in Captures
    <3> SUFFICES ASSUME NEW i \in (prev_len + 1)..Len(speech)
                 PROVE  speech[i] \in Captures
      OBVIOUS
    <3>1. i \in 1..Len(speech)
      BY <1>4
    <3> QED
      BY <1>4, <3>1, ElementOfSeq
  <2>2. prev_len + 1 \in Int /\ Len(speech) \in Int /\ prev_len + 1 <= Len(speech)
    BY <1>4
  <2>3. /\ Len(speech') = Len(speech) - (prev_len + 1) + 1
        /\ \A i \in 1..(Len(speech) - (prev_len + 1) + 1) :
             speech'[i] = speech[(prev_len + 1) + i - 1]
    BY <1>1, <2>1, <2>2, SubSeqProperties
  <2>4. Len(speech') = Len(speech) - prev_len
    BY <1>4, <2>3
  <2>5. ASSUME NEW i \in 1..Len(speech') PROVE speech'[i] = speech[prev_len + i]
    <3>1. i \in 1..(Len(speech) - (prev_len + 1) + 1)
          /\ (prev_len + 1) + i - 1 = prev_len + i
      BY <1>4, <2>4
    <3> QED
      BY <2>3, <3>1
  <2> QED
    BY <2>4, <2>5
<1>6. /\ unsent = nowlen /\ unsent' = nowlen - prev_len /\ Sending /\ Sending'
      /\ unsent' \in 1..Len(speech')
  BY <1>1, <1>4, <1>5 DEF unsent, Sending
<1>7. gone' = gone + prev_len /\ gone \in Int
  BY <1>1, <1>4, <1>6 DEF gone
<1>8. sendable' = sendable - prev_len /\ sendable \in Nat /\ sendable <= Len(speech)
  BY <1>1, <1>4, <1>5 DEF sendable
<1>9. FlowInv'
  <2>1. HolesWhereStale'
    BY <1>1 DEF HInv, FlowInv, HolesWhereStale
  <2>2. ASSUME segment # <<>>
        PROVE  Newest(segment) = speech'[unsent']
    <3>1. Newest(segment) = speech[nowlen]
      BY <1>6, <2>2 DEF HInv, FlowInv
    <3>2. speech'[unsent'] = speech[prev_len + unsent'] /\ prev_len + unsent' = nowlen
      BY <1>4, <1>5, <1>6
    <3> QED
      BY <3>1, <3>2
  <2>3. ASSUME NEW i \in 1..(sendable' - 1)
        PROVE  speech'[i + 1] = speech'[i] + 1 \/ gone' + i = stale
    <3>1. /\ prev_len + i \in 1..(sendable - 1)
          /\ i \in 1..Len(speech') /\ i + 1 \in 1..Len(speech')
          /\ prev_len + (i + 1) = (prev_len + i) + 1
      BY <1>4, <1>5, <1>8
    <3>2. \/ speech[(prev_len + i) + 1] = speech[prev_len + i] + 1
          \/ gone + (prev_len + i) = stale
      BY <1>6, <3>1 DEF HInv, FlowInv
    <3>3. speech'[i] = speech[prev_len + i] /\ speech'[i + 1] = speech[(prev_len + i) + 1]
      BY <1>5, <3>1
    <3>4. gone' + i = gone + (prev_len + i)
      BY <1>4, <1>7, <3>1
    <3> QED
      BY <3>2, <3>3, <3>4
  <2>4. process' \notin Outside /\ unsent' # 0 /\ stale' = stale /\ segment' = segment
    BY <1>1, <1>6 DEF Outside
  <2>5. \A i \in 1..(sendable' - 1) :
          speech'[i + 1] = speech'[i] + 1 \/ gone' + i = stale'
    BY <2>3, <2>4
  <2>6. segment' # <<>> => unsent' # 0 /\ Newest(segment') = speech'[unsent']
    BY <2>2, <2>4
  <2> QED
    BY <2>1, <2>4, <2>5, <2>6 DEF FlowInv
<1>10. JoinInv'
  <2>1. gone' + Len(speech') = gone + Len(speech)
    BY <1>4, <1>5, <1>7
  <2>2. Newest(speech') = Newest(speech)
    <3>1. Len(speech') \in 1..Len(speech') /\ prev_len + Len(speech') = Len(speech)
      BY <1>4, <1>5
    <3> QED
      BY <1>5, <3>1 DEF Newest
  <2>3. GoesOn => GoesOn'
    BY <1>1, <1>2, <2>2 DEF GoesOn
  <2> QED
    BY <1>1, <1>6, <2>1, <2>3 DEF HInv, JoinInv
<1> QED
  BY <1>2, <1>3, <1>9, <1>10 DEF HInv

LEMMA SameHoles ==
  ASSUME HInv, UNCHANGED <<thread, shared, main, history>>
  PROVE  HInv'
<1>1. UNCHANGED <<speech, online, overflowed, process, prev_len, nowlen, segment, stale,
                  stop_at_next, heard, pending, local, capture, speaking>>
  BY DEF thread, detector, shared, main, history
<1>2. PendingInv' /\ WindowInv' /\ (GoesOn' <=> GoesOn)
  BY <1>1, SameCapture
<1>3. WhereInv' /\ OutInv'
  BY <1>1, <1>2 DEF HInv, WhereInv, OutInv, Consecutive
<1>4. FlowInv' /\ JoinInv'
  BY <1>1, <1>2, SameFlow, SameJoin
<1> QED
  BY <1>2, <1>3, <1>4 DEF HInv

-----------------------------------------------------------------------------
LEMMA InitHInv == Init => HInv
<1> SUFFICES ASSUME Init PROVE HInv
  OBVIOUS
<1>1. Len(<<>>) = 0
  BY EmptySeq
<1>2. WhereInv /\ PendingInv /\ WindowInv
  BY <1>1 DEF Init, WhereInv, PendingInv, WindowInv
<1>3. OutInv
  BY NoRun DEF Init, OutInv
<1>4. FlowInv /\ JoinInv
  BY <1>1 DEF Init, FlowInv, JoinInv, HolesWhereStale, Sending
<1> QED
  BY <1>2, <1>3, <1>4 DEF HInv

LEMMA NextHoles ==
  ASSUME Room, IInv, SwapInv, HInv, [Next]_vars
  PROVE  HInv'
<1>1. CASE UNCHANGED vars
  <2>1. UNCHANGED <<thread, shared, main, history>>
    BY <1>1 DEF vars
  <2> QED
    BY <2>1, SameHoles
<1>2. CASE Read \/ Capture \/ Fails
  BY <1>2, ReadHoles, CutHoles, CheckHoles, OverflowHoles, StoreHoles,
     EndStepHoles, FailsHoles DEF Capture
<1>3. CASE Process \/ Wait
  <2>1. CASE Empty("overflow", 1) \/ Empty("drop", -2) \/ Empty("clear", 1)
    BY <2>1, EmptyHoles
  <2>2. CASE CheckCommand
    <3>1. /\ UNCHANGED <<thread, shared, segment, stale, prev_len, nowlen>>
          /\ process = "command"
          /\ process' = "process" \/ (process' = "drop" /\ stop_at_next')
      BY <2>2 DEF CheckCommand, Told
    <3> QED
      BY <3>1, StillHoles
  <2>3. CASE Idle
    <3>1. /\ UNCHANGED <<thread, shared, segment, stale, prev_len, nowlen>>
          /\ process = "process" /\ process' \in {"clear", "poll"}
      BY <2>3 DEF Idle, history
    <3> QED
      BY <3>1, StillHoles
  <2> QED
    BY <1>3, <2>1, <2>2, <2>3, StartHoles, PollHoles, SendHoles, RehashHoles,
       WaitHoles, ReopenHoles DEF Process
<1> QED
  BY <1>1, <1>2, <1>3 DEF Next

(* A segment that adintool sends is gapless speech but for what the buffer  *)
(* held when it began, however reads, steps, pauses, overflows, moves of    *)
(* the buffer and ends of utterance come together (adin_cut,                *)
(* adin_store_buffer, adin_thread_process).                                *)
THEOREM SegmentsHaveNoHoles ==
  ASSUME Room
  PROVE  Spec => []HolesWhereStale
<1>1. Init => IInv /\ SwapInv /\ HInv
  BY InitIInv, InitSwap, InitHInv
<1>2. IInv /\ SwapInv /\ HInv /\ [Next]_vars => (IInv /\ SwapInv /\ HInv)'
  BY NextKeeps, NextSwap, NextHoles
<1>3. HInv => HolesWhereStale
  BY DEF HInv, FlowInv
<1> QED
  BY <1>1, <1>2, <1>3, PTL DEF Spec

=============================================================================

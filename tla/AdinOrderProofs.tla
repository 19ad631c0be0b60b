-------------------------- MODULE AdinOrderProofs ---------------------------
(***************************************************************************)
(* The order in which adintool sends the samples.  The head margin of an   *)
(* utterance reaches back into what was captured before it, a silence is   *)
(* kept back until somebody speaks again, and both are measured in samples *)
(* while the end of an utterance is counted in steps, which are as long as *)
(* what the microphone returns.  However short the reads are, no more than *)
(* the last Overlap samples sent are sent again.                           *)
(*                                                                         *)
(* The argument: what is stored next is all beyond Reach, and everything   *)
(* that is stored or sent is at most Bound, which a step never takes back  *)
(* and which is never more than Overlap beyond Reach: the silence that     *)
(* ended an utterance has kept back at least KeptBack samples (KeptInv).   *)
(***************************************************************************)
EXTENDS AdinToolProofs

Steps(n) == n * chunk_size
Least(n) == n * MinStep

(* The samples that are left when the microphone has failed are gone through. *)
Late == end_of_stream /\ capture # "cut"

(* What is stored next is newer. *)
Reach ==
  CASE speaking /\ nc = 0 -> cut
    [] speaking /\ nc # 0 -> cut - Len(swapbuf)
    [] ~speaking /\ Late -> cut
    [] OTHER -> IF since > cut + 1 - c_length THEN since ELSE cut + 1 - c_length

(* The newest sample that may have been stored. *)
Bound ==
  IF speaking THEN Reach
  ELSE IF Reach + Overlap < cut THEN Reach + Overlap ELSE cut

Elements(s) == {s[i] : i \in 1..Len(s)}
Ascending(s) == \A i, j \in 1..Len(s) : i < j => s[i] < s[j] + Overlap

(* Everything is at most Bound. *)
ReachInv ==
  /\ last <= Bound
  /\ \A x \in Elements(speech) : x <= Bound
  /\ \A k \in 1..Len(pending) : \A x \in Elements(pending[k]) : x <= Bound

(* From what was sent, through the buffer, to what is still to be stored.  *)
unsent == IF process = "rehash" THEN nowlen ELSE prev_len

OrderInv ==
  /\ Ascending(speech)
  /\ process \notin {"waitEnd", "reopen", "exit"} =>
       \A i \in (unsent + 1)..Len(speech) : last < speech[i] + Overlap
  /\ \A k \in 1..Len(pending) :
       /\ Ascending(pending[k])
       /\ \A x \in Elements(pending[k]) :
            last < x + Overlap /\ \A y \in Elements(speech) : y < x + Overlap
  /\ \A k, l \in 1..Len(pending) :
       k < l => \A x \in Elements(pending[k]), y \in Elements(pending[l]) :
                  x < y + Overlap

(* Where the capture thread is, and how long its steps are.                *)
ThreadInv ==
  /\ capture \in {"read", "cut", "ended"} => pending = <<>>
  /\ process \in {"waitEnd", "reopen"} => capture = "ended"
  /\ capture = "read" => ~end_of_stream
  /\ end_of_stream => heard = IF capture = "cut" THEN cut + wstep ELSE cut
  /\ ~end_of_stream /\ capture \in {"cut", "check", "store", "full"}
       => wstep >= MinStep

(* What a silence keeps back: the newest samples, after the tail margin.    *)
KeptInv ==
  speaking /\ nc # 0 =>
    /\ \A i \in 1..Len(swapbuf) : swapbuf[i] = cut - Len(swapbuf) + i
    /\ rest_tail # 0 => swapbuf = <<>>
    /\ ~Late => IF rest_tail # 0 THEN rest_tail + Least(nc) <= TailMargin
                ELSE Len(swapbuf) + Least(TailSteps) >= Least(nc)

OInv == ReachInv /\ OrderInv /\ ThreadInv /\ KeptInv

-----------------------------------------------------------------------------
(* The margins, in steps. *)

LEMMA StepsAdd ==
  /\ \A n \in Int : Steps(n) \in Int /\ Steps(n + 1) = Steps(n) + chunk_size
  /\ \A m, n \in Int : Steps(m - n) = Steps(m) - Steps(n)
  /\ Steps(0) = 0
BY Constants DEF Steps

LEMMA StepsGrow ==
  ASSUME NEW m \in Int, NEW n \in Int, m <= n
  PROVE  Steps(m) <= Steps(n)
<1>1. (n - m) * chunk_size >= 0
  BY Constants
<1>2. (n - m) * chunk_size = n * chunk_size - m * chunk_size
  BY Constants
<1> QED
  BY <1>1, <1>2, Constants DEF Steps

LEMMA MinStepIs ==
  /\ MinStep \in Nat \ {0} /\ MinStep <= chunk_size
  /\ MinRead # 0 => MinStep <= MinRead
BY Constants DEF MinStep

LEMMA LeastAdd ==
  /\ \A n \in Int : Least(n) \in Int /\ Least(n + 1) = Least(n) + MinStep
  /\ \A m, n \in Int : Least(m - n) = Least(m) - Least(n)
  /\ Least(0) = 0
<1> DEFINE k == MinStep
<1>1. k \in Int
  BY MinStepIs
<1> HIDE DEF k
<1>2. /\ \A n \in Int : n * k \in Int /\ (n + 1) * k = n * k + k
      /\ \A m, n \in Int : (m - n) * k = m * k - n * k
      /\ 0 * k = 0
  BY <1>1
<1> QED
  BY <1>2 DEF Least, k

LEMMA LeastGrows ==
  ASSUME NEW m \in Int, NEW n \in Int, m <= n
  PROVE  Least(m) <= Least(n)
<1> DEFINE k == MinStep
<1>1. k \in Nat
  BY MinStepIs
<1> HIDE DEF k
<1>2. (n - m) * k >= 0
  BY <1>1
<1>3. (n - m) * k = n * k - m * k
  BY <1>1
<1>4. m * k \in Int /\ n * k \in Int
  BY <1>1
<1> QED
  BY <1>2, <1>3, <1>4 DEF Least, k

(* The tail margin in the shortest steps, rounded up.                      *)
LEMMA TailStepsAre == TailSteps \in Nat /\ Least(TailSteps) >= TailMargin
<1> DEFINE k == MinStep
           t == TailMargin
           q == (t + k - 1) \div k
<1>1. k \in Nat \ {0} /\ t \in Nat
  BY MinStepIs, Constants
<1> HIDE DEF k, t
<1>2. t + k - 1 \in Nat
  BY <1>1
<1>3. q \in Nat /\ q * k >= t
  BY <1>1, <1>2
<1> QED
  BY <1>3 DEF TailSteps, Least, k, t

LEMMA OverlapIs ==
  /\ KeptBack \in Nat /\ Overlap \in Nat
  /\ KeptBack + 1 + Overlap >= c_length
  /\ nc_max > TailSteps => KeptBack = Least(nc_max) - Least(TailSteps)
  /\ nc_max <= TailSteps => KeptBack = 0
<1>1. TailSteps \in Int /\ nc_max \in Int /\ c_length \in Int
  BY TailStepsAre, Constants
<1>2. nc_max > TailSteps => KeptBack = Least(nc_max) - Least(TailSteps)
  <2>1. Least(nc_max - TailSteps) = Least(nc_max) - Least(TailSteps)
    BY <1>1, LeastAdd
  <2> QED
    BY <2>1 DEF KeptBack, Least
<1>3. nc_max <= TailSteps => KeptBack = 0
  BY <1>1 DEF KeptBack
<1>4. KeptBack \in Nat
  <2>1. CASE nc_max > TailSteps
    <3>1. Least(nc_max) \in Int /\ Least(TailSteps) \in Int
      BY <1>1, LeastAdd
    <3>2. Least(TailSteps) <= Least(nc_max)
      BY <1>1, <2>1, LeastGrows
    <3> QED
      BY <1>2, <2>1, <3>1, <3>2
  <2> QED
    BY <1>1, <1>3, <2>1
<1> QED
  BY <1>1, <1>2, <1>3, <1>4 DEF Overlap

-----------------------------------------------------------------------------
(* Sequences. *)

LEMMA ConcatElements ==
  ASSUME NEW s \in Seq(Captures), NEW t \in Seq(Captures)
  PROVE  Elements(s \o t) = Elements(s) \cup Elements(t)
<1>1. Len(s) \in Nat /\ Len(t) \in Nat /\ Len(s \o t) = Len(s) + Len(t)
  BY LenProperties, ConcatProperties
<1>2. ASSUME NEW i \in 1..Len(s \o t)
      PROVE  (s \o t)[i] \in Elements(s) \cup Elements(t)
  <2>1. CASE i <= Len(s)
    <3>1. (s \o t)[i] = s[i] /\ i \in 1..Len(s)
      BY <1>1, <2>1, ConcatProperties
    <3> QED
      BY <3>1 DEF Elements
  <2>2. CASE i > Len(s)
    <3>1. (s \o t)[i] = t[i - Len(s)] /\ i - Len(s) \in 1..Len(t)
      BY <1>1, <2>2, ConcatProperties
    <3> QED
      BY <3>1 DEF Elements
  <2> QED
    BY <1>1, <2>1, <2>2
<1>3. ASSUME NEW i \in 1..Len(s) PROVE s[i] \in Elements(s \o t)
  <2>1. (s \o t)[i] = s[i] /\ i \in 1..Len(s \o t)
    BY <1>1, ConcatProperties
  <2> QED
    BY <2>1 DEF Elements
<1>4. ASSUME NEW i \in 1..Len(t) PROVE t[i] \in Elements(s \o t)
  <2>1. i + Len(s) \in 1..Len(s \o t)
    BY <1>1
  <2>2. (s \o t)[i + Len(s)] = t[i]
    BY <1>1, ConcatProperties
  <2> QED
    BY <2>1, <2>2 DEF Elements
<1> QED
  BY <1>2, <1>3, <1>4 DEF Elements

LEMMA ConcatAscending ==
  ASSUME NEW s \in Seq(Captures), NEW t \in Seq(Captures),
         Ascending(s), Ascending(t),
         \A x \in Elements(s), y \in Elements(t) : x < y + Overlap
  PROVE  Ascending(s \o t)
<1>1. Len(s) \in Nat /\ Len(t) \in Nat /\ Len(s \o t) = Len(s) + Len(t)
  BY LenProperties, ConcatProperties
<1> SUFFICES ASSUME NEW i \in 1..Len(s \o t), NEW j \in 1..Len(s \o t), i < j
             PROVE  (s \o t)[i] < (s \o t)[j] + Overlap
  BY DEF Ascending
<1>2. CASE j <= Len(s)
  <2>1. (s \o t)[i] = s[i] /\ (s \o t)[j] = s[j] /\ i \in 1..Len(s) /\ j \in 1..Len(s)
    BY <1>1, <1>2, ConcatProperties
  <2> QED
    BY <2>1 DEF Ascending
<1>3. CASE i > Len(s)
  <2>1. /\ (s \o t)[i] = t[i - Len(s)] /\ (s \o t)[j] = t[j - Len(s)]
        /\ i - Len(s) \in 1..Len(t) /\ j - Len(s) \in 1..Len(t)
        /\ i - Len(s) < j - Len(s)
    BY <1>1, <1>3, ConcatProperties
  <2> QED
    BY <2>1 DEF Ascending
<1>4. CASE i <= Len(s) /\ j > Len(s)
  <2>1. /\ (s \o t)[i] = s[i] /\ (s \o t)[j] = t[j - Len(s)]
        /\ i \in 1..Len(s) /\ j - Len(s) \in 1..Len(t)
    BY <1>1, <1>4, ConcatProperties
  <2> QED
    BY <2>1 DEF Elements
<1> QED
  BY <1>1, <1>2, <1>3, <1>4

LEMMA SamplesAscend ==
  ASSUME NEW from \in Nat \ {0}, NEW to \in 0..MaxSamples, from <= to + 1
  PROVE  /\ \A i \in 1..Len(Samples(from, to)) : Samples(from, to)[i] = from + i - 1
         /\ Ascending(Samples(from, to))
         /\ \A x \in Elements(Samples(from, to)) : x \in Int /\ from <= x /\ x <= to
<1>1. to \in Nat /\ Len(Samples(from, to)) = to + 1 - from
  BY Constants, SamplesAre
<1>2. \A i \in 1..Len(Samples(from, to)) : Samples(from, to)[i] = from + i - 1
  BY <1>1 DEF Samples
<1>3. Ascending(Samples(from, to))
  BY <1>1, <1>2, OverlapIs DEF Ascending
<1>4. \A x \in Elements(Samples(from, to)) : x \in Int /\ from <= x /\ x <= to
  BY <1>1, <1>2 DEF Elements
<1> QED
  BY <1>2, <1>3, <1>4

LEMMA NoElements == Elements(<<>>) = {} /\ Ascending(<<>>)
BY DEF Elements, Ascending

LEMMA ElementsAreCaptures ==
  ASSUME NEW s \in Seq(Captures)
  PROVE  \A x \in Elements(s) : x \in Int /\ x > 0
<1>1. \A i \in 1..Len(s) : s[i] \in Captures
  BY ElementOfSeq
<1> QED
  BY <1>1, Constants DEF Elements, Captures

-----------------------------------------------------------------------------
LEMMA Typed ==
  ASSUME IInv
  PROVE  /\ heard \in Nat /\ cut \in Nat /\ since \in Nat /\ wstep \in Nat
         /\ cut <= heard /\ since <= cut /\ heard <= MaxSamples
         /\ nc \in Nat /\ rest_tail \in Nat /\ last \in Nat
         /\ wstep <= chunk_size
         /\ speaking \in BOOLEAN /\ end_of_stream \in BOOLEAN
         /\ swapbuf \in Seq(Captures) /\ speech \in Seq(Captures)
         /\ segment \in Seq(Captures) /\ pending \in Seq(Seq(Captures))
         /\ Len(swapbuf) \in Nat /\ Len(speech) \in Nat /\ Len(pending) \in Nat
         /\ prev_len \in Nat /\ nowlen \in Nat
         /\ prev_len <= Len(speech) /\ nowlen <= Len(speech)
<1>1. TypeOK /\ LengthInv
  BY DEF IInv
<1>2. /\ swapbuf \in Seq(Captures) /\ speech \in Seq(Captures)
      /\ segment \in Seq(Captures) /\ pending \in Seq(Seq(Captures))
  BY <1>1 DEF TypeOK
<1>3. Len(swapbuf) \in Nat /\ Len(speech) \in Nat /\ Len(pending) \in Nat
  BY <1>2, LenProperties
<1>4. /\ heard \in Nat /\ cut \in Nat /\ since \in Nat /\ wstep \in Nat
      /\ cut <= heard /\ since <= cut /\ heard <= MaxSamples
      /\ nc \in Nat /\ rest_tail \in Nat /\ last \in Nat
      /\ wstep <= chunk_size
      /\ speaking \in BOOLEAN /\ end_of_stream \in BOOLEAN
      /\ prev_len \in Nat /\ nowlen \in Nat
  BY <1>1, Constants DEF TypeOK
<1> QED
  BY <1>1, <1>2, <1>3, <1>4 DEF LengthInv

LEMMA ReachIs ==
  ASSUME IInv
  PROVE  Reach \in Int /\ Reach <= cut
<1>1. /\ cut \in Nat /\ since \in Nat /\ since <= cut /\ c_length \in Nat \ {0}
      /\ Len(swapbuf) \in Nat
  BY Typed, Constants
<1>2. CASE speaking /\ nc = 0
  BY <1>1, <1>2 DEF Reach
<1>3. CASE speaking /\ nc # 0
  BY <1>1, <1>3 DEF Reach
<1>4. CASE ~speaking /\ Late
  BY <1>1, <1>4 DEF Reach
<1>5. CASE ~speaking /\ ~Late
  BY <1>1, <1>5 DEF Reach
<1> QED
  BY <1>2, <1>3, <1>4, <1>5

(* What is stored next is not much older than what was. *)
LEMMA BoundIs ==
  ASSUME IInv
  PROVE  Bound \in Int /\ Reach <= Bound /\ Bound <= Reach + Overlap /\ Bound <= cut
<1>1. Reach \in Int /\ Reach <= cut /\ Overlap \in Nat /\ cut \in Nat
  BY ReachIs, OverlapIs, Typed
<1> QED
  BY <1>1 DEF Bound

(* The head margin begins after Reach. *)
LEMMA HeadIsNew ==
  ASSUME IInv, capture = "cut", ~speaking
  PROVE  /\ head \in Seq(Captures) /\ Ascending(head)
         /\ \A x \in Elements(head) : x \in Int /\ Reach < x /\ x <= cut
<1> DEFINE from == cut + wstep - c_length
<1>1. /\ cut \in 0..MaxSamples /\ since \in Nat /\ since <= cut /\ wstep \in Nat
      /\ wstep > 0 /\ wstep <= c_length
  BY Typed, Constants DEF IInv, StepInv
<1>2. Reach = IF since > cut + 1 - c_length THEN since ELSE cut + 1 - c_length
  BY DEF Reach, Late
<1>3. CASE from > since
  <2>1. head = Samples(from + 1, cut)
    BY <1>3 DEF head
  <2>2. from + 1 \in Nat \ {0} /\ from + 1 <= cut + 1 /\ Reach <= from
    BY <1>1, <1>2, <1>3, Constants
  <2>3. /\ Samples(from + 1, cut) \in Seq(Captures)
        /\ Ascending(Samples(from + 1, cut))
        /\ \A x \in Elements(Samples(from + 1, cut)) :
             x \in Int /\ from + 1 <= x /\ x <= cut
    BY <1>1, <2>2, SamplesAre, SamplesAscend
  <2> QED
    BY <1>1, <2>1, <2>2, <2>3, Constants, ReachIs
<1>4. CASE ~(from > since)
  <2>1. head = Samples(since + 1, cut)
    BY <1>4 DEF head
  <2>2. since + 1 \in Nat \ {0} /\ since + 1 <= cut + 1 /\ Reach <= since
    BY <1>1, <1>2, <1>4, Constants
  <2>3. /\ Samples(since + 1, cut) \in Seq(Captures)
        /\ Ascending(Samples(since + 1, cut))
        /\ \A x \in Elements(Samples(since + 1, cut)) :
             x \in Int /\ since + 1 <= x /\ x <= cut
    BY <1>1, <2>2, SamplesAre, SamplesAscend
  <2> QED
    BY <1>1, <2>1, <2>2, <2>3, ReachIs
<1> QED
  BY <1>3, <1>4

(* What a silence has kept back is newer than Reach. *)
LEMMA SwapIsNew ==
  ASSUME IInv, KeptInv, speaking, nc # 0
  PROVE  /\ Ascending(swapbuf)
         /\ \A x \in Elements(swapbuf) : x \in Int /\ Reach < x /\ x <= cut
<1>1. cut \in Nat /\ Len(swapbuf) \in Nat
  BY Typed
<1>2. \A i \in 1..Len(swapbuf) : swapbuf[i] = cut - Len(swapbuf) + i
  BY DEF KeptInv
<1>3. Reach = cut - Len(swapbuf)
  BY DEF Reach
<1>4. Ascending(swapbuf)
  BY <1>1, <1>2, OverlapIs DEF Ascending
<1>5. \A x \in Elements(swapbuf) : x \in Int /\ Reach < x /\ x <= cut
  BY <1>1, <1>2, <1>3 DEF Elements
<1> QED
  BY <1>4, <1>5

LEMMA StepIsNew ==
  ASSUME IInv, capture = "cut"
  PROVE  /\ Step \in Seq(Captures) /\ Ascending(Step) /\ Len(Step) = wstep
         /\ \A i \in 1..wstep : Step[i] = cut + i
         /\ \A x \in Elements(Step) : x \in Int /\ cut < x /\ x <= cut + wstep
<1>1. cut \in Nat /\ wstep \in Nat /\ cut + wstep \in 0..MaxSamples
  BY Typed, Constants DEF IInv, StepInv
<1>2. cut + 1 \in Nat \ {0} /\ cut + 1 <= cut + wstep + 1
  BY <1>1
<1> DEFINE s == Samples(cut + 1, cut + wstep)
<1>3. s \in Seq(Captures) /\ Len(s) = cut + wstep + 1 - (cut + 1)
  BY <1>1, <1>2, SamplesAre
<1>4. /\ \A i \in 1..Len(s) : s[i] = cut + 1 + i - 1
      /\ Ascending(s)
      /\ \A x \in Elements(s) : x \in Int /\ cut + 1 <= x /\ x <= cut + wstep
  BY <1>1, <1>2, SamplesAscend
<1>5. Len(s) = wstep
  BY <1>1, <1>3
<1> HIDE DEF s
<1>6. s = Step
  BY DEF s, Step
<1> QED
  BY <1>1, <1>3, <1>4, <1>5, <1>6

-----------------------------------------------------------------------------
(* The capture thread. *)

(* A step that is stored, with what comes before it.                       *)
LEMMA StoresAreNew ==
  ASSUME IInv, OInv, capture = "cut",
         NEW before \in Seq(Captures), Ascending(before),
         \A x \in Elements(before) : Reach < x /\ x <= cut,
         pending' = stores(before)
  PROVE  /\ \A k \in 1..Len(pending') :
              /\ Ascending(pending'[k])
              /\ \A x \in Elements(pending'[k]) :
                   x \in Int /\ Reach < x /\ x <= cut + wstep
         /\ \A k, l \in 1..Len(pending') :
              k < l => \A x \in Elements(pending'[k]), y \in Elements(pending'[l]) :
                         x < y + Overlap
<1>1. /\ Step \in Seq(Captures) /\ Ascending(Step)
      /\ \A x \in Elements(Step) : x \in Int /\ cut < x /\ x <= cut + wstep
  BY StepIsNew
<1>2. Reach \in Int /\ Reach <= cut /\ cut \in Nat /\ wstep \in Nat
  BY ReachIs, Typed
<1>3. \A x \in Elements(before) : x \in Int
  BY ElementsAreCaptures
<1>4. CASE pending' = <<>>
  BY <1>4
<1>5. CASE pending' = <<Step>>
  <2>1. \A k \in 1..Len(pending') : k = 1 /\ pending'[k] = Step
    BY <1>5
  <2> QED
    BY <1>1, <1>2, <2>1
<1>6. CASE pending' = <<before, Step>>
  <2>1. \A k \in 1..Len(pending') :
          (k = 1 /\ pending'[k] = before) \/ (k = 2 /\ pending'[k] = Step)
    BY <1>6
  <2>2. \A k \in 1..Len(pending') :
          /\ Ascending(pending'[k])
          /\ \A x \in Elements(pending'[k]) :
               x \in Int /\ Reach < x /\ x <= cut + wstep
    BY <1>1, <1>2, <1>3, <2>1
  <2>3. \A k, l \in 1..Len(pending') :
          k < l => pending'[k] = before /\ pending'[l] = Step
    BY <2>1
  <2>4. \A x \in Elements(before), y \in Elements(Step) : x < y + Overlap
    BY <1>1, <1>2, <1>3, OverlapIs
  <2> QED
    BY <2>2, <2>3, <2>4
<1> QED
  BY <1>4, <1>5, <1>6 DEF stores

(* Storing what is newer than Reach, and at most the next one, keeps order. *)
LEMMA NewKeepsOrder ==
  ASSUME IInv, OInv,
         UNCHANGED <<speech, last, process, prev_len, nowlen>>,
         Bound' \in Int, Bound <= Bound',
         \A k \in 1..Len(pending') :
           /\ Ascending(pending'[k])
           /\ \A x \in Elements(pending'[k]) :
                x \in Int /\ Reach < x /\ x <= Bound',
         \A k, l \in 1..Len(pending') :
           k < l => \A x \in Elements(pending'[k]), y \in Elements(pending'[l]) :
                      x < y + Overlap
  PROVE  ReachInv' /\ OrderInv'
<1>1. /\ Reach \in Int /\ last \in Int /\ speech \in Seq(Captures)
      /\ Bound \in Int /\ Bound <= Reach + Overlap /\ Overlap \in Nat
  BY ReachIs, BoundIs, OverlapIs, Typed
<1>2. \A y \in Elements(speech) : y \in Int /\ y <= Bound
  BY <1>1, ElementsAreCaptures DEF OInv, ReachInv
<1>3. last <= Bound
  BY DEF OInv, ReachInv
<1>4. ReachInv'
  BY <1>1, <1>2, <1>3 DEF ReachInv
<1>5. \A k \in 1..Len(pending') : \A x \in Elements(pending'[k]) :
        last' < x + Overlap /\ \A y \in Elements(speech') : y < x + Overlap
  <2> SUFFICES ASSUME NEW k \in 1..Len(pending'), NEW x \in Elements(pending'[k])
               PROVE  /\ last < x + Overlap
                      /\ \A y \in Elements(speech) : y < x + Overlap
    OBVIOUS
  <2>1. x \in Int /\ Reach < x
    OBVIOUS
  <2> QED
    BY <1>1, <1>2, <1>3, <2>1
<1>6. OrderInv'
  BY <1>5 DEF OInv, OrderInv, unsent
<1> QED
  BY <1>4, <1>6

(* A step keeps order when what it stores comes from after Reach and before *)
(* the step itself, and Reach moves to its end.                             *)
LEMMA StoringKeepsOrder ==
  ASSUME IInv, OInv, Cut,
         NEW before \in Seq(Captures), Ascending(before),
         \A x \in Elements(before) : Reach < x /\ x <= cut,
         pending' = stores(before), speaking', Reach' = cut'
  PROVE  ReachInv' /\ OrderInv'
<1>1. capture = "cut" /\ cut' = cut + wstep
      /\ UNCHANGED <<speech, last, process, prev_len, nowlen>>
  BY DEF Cut, shared, main, history
<1>2. Reach \in Int /\ Reach <= cut /\ cut \in Nat /\ wstep \in Nat
  BY ReachIs, Typed
<1>3. /\ \A k \in 1..Len(pending') :
           /\ Ascending(pending'[k])
           /\ \A x \in Elements(pending'[k]) :
                x \in Int /\ Reach < x /\ x <= cut + wstep
      /\ \A k, l \in 1..Len(pending') :
           k < l => \A x \in Elements(pending'[k]), y \in Elements(pending'[l]) :
                      x < y + Overlap
  BY <1>1, StoresAreNew
<1>4. Bound' \in Int /\ Bound <= Bound' /\ Bound' = cut + wstep
  <2>1. Bound' = cut + wstep
    BY <1>1 DEF Bound
  <2> QED
    BY <1>2, <2>1, BoundIs
<1> QED
  BY <1>1, <1>3, <1>4, NewKeepsOrder

LEMMA TriggerKeeps ==
  ASSUME IInv, OInv, Cut, Trigger
  PROVE  ReachInv' /\ OrderInv' /\ KeptInv'
<1> DEFINE before == IF ~speaking THEN head ELSE IF nc > 0 THEN swapbuf ELSE <<>>
<1>1. capture = "cut" /\ speaking' = TRUE /\ nc' = 0
  BY DEF Cut, Trigger
<1>2. before \in Seq(Captures) /\ Ascending(before)
      /\ \A x \in Elements(before) : Reach < x /\ x <= cut
  <2>1. CASE ~speaking
    BY <1>1, <2>1, HeadIsNew
  <2>2. CASE speaking /\ nc > 0
    <3>1. nc # 0 /\ swapbuf \in Seq(Captures)
      BY <2>2, Typed
    <3> QED
      BY <2>2, <3>1, SwapIsNew DEF OInv
  <2>3. CASE speaking /\ ~(nc > 0)
    BY <2>3, NoElements, EmptySeq
  <2> QED
    BY <2>1, <2>2, <2>3
<1>3. pending' = stores(before)
  BY DEF Trigger
<1>4. Reach' = cut'
  BY <1>1 DEF Reach
<1> HIDE DEF before
<1>5. ReachInv' /\ OrderInv'
  BY <1>1, <1>2, <1>3, <1>4, StoringKeepsOrder
<1>6. KeptInv'
  BY <1>1 DEF KeptInv
<1> QED
  BY <1>5, <1>6

LEMMA InitOInv == Init => OInv
<1> SUFFICES ASSUME Init PROVE OInv
  OBVIOUS
<1>1. Len(speech) = 0 /\ Len(pending) = 0 /\ Elements(speech) = {}
      /\ Ascending(speech)
  BY NoElements, EmptySeq DEF Init
<1>2. Bound = 0
  <2>1. Reach = 0
    BY Constants DEF Init, Reach, Late
  <2> QED
    BY <2>1, OverlapIs DEF Bound, Init
<1>3. ReachInv
  BY <1>1, <1>2 DEF ReachInv, Init
<1>4. OrderInv
  BY <1>1 DEF OrderInv, Init, unsent
<1>5. ThreadInv /\ KeptInv
  BY DEF ThreadInv, KeptInv, Init
<1> QED
  BY <1>3, <1>4, <1>5 DEF OInv

(* The tail margin is stored. *)
LEMMA TailMarginKeeps ==
  ASSUME IInv, OInv, Cut, TrailingSilence, nc = 0 \/ rest_tail # 0
  PROVE  ReachInv' /\ OrderInv' /\ KeptInv'
<1> DEFINE rest == IF nc = 0 THEN TailMargin ELSE rest_tail
<1>1. /\ capture = "cut" /\ capture' = "check" /\ cut' = cut + wstep
      /\ speaking /\ speaking' = speaking /\ nc' = nc + 1
      /\ end_of_stream' = end_of_stream
  BY DEF Cut, TrailingSilence
<1>2. /\ nc \in Nat /\ rest_tail \in Nat /\ wstep \in Nat /\ cut \in Nat
      /\ TailMargin \in Nat \ {0} /\ chunk_size \in Nat
  BY Typed, Constants
<1>3. rest # 0 /\ rest \in Nat
  BY <1>2
<1>4. nc # 0 => swapbuf = <<>>
  BY <1>1 DEF OInv, KeptInv
<1>5. swapbuf' = <<>> /\ pending' = stores(<<>>)
      /\ rest_tail' = IF rest < wstep THEN 0 ELSE rest - wstep
  BY <1>3, <1>4 DEF TrailingSilence
<1>6. Len(swapbuf') = 0 /\ nc' # 0
  BY <1>1, <1>2, <1>5, EmptySeq
<1>7. Reach' = cut'
  BY <1>1, <1>2, <1>6 DEF Reach
<1>8. ReachInv' /\ OrderInv'
  BY <1>1, <1>5, <1>7, NoElements, EmptySeq, StoringKeepsOrder
<1>9. ASSUME ~end_of_stream
      PROVE  IF rest_tail' # 0 THEN rest_tail' + Least(nc') <= TailMargin
             ELSE Len(swapbuf') + Least(TailSteps) >= Least(nc')
  <2>1. wstep >= MinStep
    BY <1>1, <1>9 DEF OInv, ThreadInv
  <2>2. rest + Least(nc) <= TailMargin
    <3>1. CASE nc = 0
      BY <1>2, <3>1, LeastAdd
    <3>2. CASE nc # 0
      BY <1>1, <1>3, <1>9, <3>2 DEF OInv, KeptInv, Late
    <3> QED
      BY <3>1, <3>2
  <2>3. /\ nc \in Int /\ MinStep \in Nat
        /\ Least(nc) \in Int /\ Least(nc + 1) = Least(nc) + MinStep
    <3>1. nc \in Int
      BY <1>2
    <3> QED
      BY <3>1, MinStepIs, LeastAdd
  <2>4. /\ TailSteps \in Int /\ Least(TailSteps) \in Int
        /\ Least(TailSteps) >= TailMargin
    BY TailStepsAre, LeastAdd
  <2>5. Least(nc + 1) <= Least(TailSteps)
    <3>1. ~(TailSteps <= nc)
      <4> SUFFICES ASSUME TailSteps <= nc PROVE FALSE
        OBVIOUS
      <4>1. Least(TailSteps) <= Least(nc)
        BY <2>3, <2>4, LeastGrows
      <4> QED
        BY <1>2, <1>3, <2>2, <2>3, <2>4, <4>1
    <3>2. nc + 1 \in Int /\ nc + 1 <= TailSteps
      BY <2>3, <2>4, <3>1
    <3> QED
      BY <2>4, <3>2, LeastGrows
  <2> HIDE DEF rest
  <2>6. rest_tail' # 0 => rest_tail' = rest - wstep
    BY <1>5
  <2>7. rest_tail' # 0 => rest_tail' + Least(nc') <= TailMargin
    BY <1>1, <1>2, <1>3, <2>1, <2>2, <2>3, <2>6
  <2>8. Len(swapbuf') + Least(TailSteps) >= Least(nc')
    BY <1>1, <1>6, <2>3, <2>4, <2>5
  <2> QED
    BY <2>7, <2>8
<1>10. KeptInv'
  <2>1. \A i \in 1..Len(swapbuf') : swapbuf'[i] = cut' - Len(swapbuf') + i
    BY <1>6
  <2>2. ~Late' => ~end_of_stream
    BY <1>1 DEF Late
  <2> HIDE DEF rest
  <2> QED
    BY <1>5, <1>9, <2>1, <2>2 DEF KeptInv
<1> QED
  BY <1>8, <1>10

(* What comes after it is kept back. *)
LEMMA KeepingKeeps ==
  ASSUME IInv, OInv, Cut, TrailingSilence, nc # 0, rest_tail = 0
  PROVE  ReachInv' /\ OrderInv' /\ KeptInv'
<1>1. /\ capture = "cut" /\ capture' = "check" /\ cut' = cut + wstep
      /\ speaking /\ speaking' = speaking /\ nc' = nc + 1
      /\ end_of_stream' = end_of_stream
      /\ UNCHANGED <<speech, last, process, prev_len, nowlen>>
  BY DEF Cut, TrailingSilence, shared, main, history
<1>2. /\ nc \in Nat /\ wstep \in Nat /\ cut \in Nat /\ chunk_size \in Nat
      /\ swapbuf \in Seq(Captures) /\ Len(swapbuf) \in Nat
  BY Typed, Constants
<1>3. /\ swapbuf' = swapbuf \o Step /\ pending' = <<>> /\ rest_tail' = 0
  <2>1. wstep > 0
    BY <1>1 DEF IInv, StepInv
  <2> QED
    BY <1>2, <2>1 DEF TrailingSilence
<1>4. /\ Step \in Seq(Captures) /\ Len(Step) = wstep
      /\ \A i \in 1..wstep : Step[i] = cut + i
  BY <1>1, StepIsNew
<1>5. /\ Len(swapbuf') = Len(swapbuf) + wstep
      /\ \A i \in 1..(Len(swapbuf) + wstep) :
           swapbuf'[i] = IF i <= Len(swapbuf) THEN swapbuf[i]
                         ELSE Step[i - Len(swapbuf)]
  BY <1>2, <1>3, <1>4, ConcatProperties
<1>6. Reach' = Reach /\ Reach \in Int
  <2>1. Reach = cut - Len(swapbuf)
    BY <1>1 DEF Reach
  <2>2. nc' # 0 /\ speaking'
    BY <1>1, <1>2
  <2>3. Reach' = cut' - Len(swapbuf')
    BY <2>2 DEF Reach
  <2> QED
    BY <1>1, <1>2, <1>5, <2>1, <2>3
<1>7. Bound' = Bound /\ Bound \in Int
  BY <1>1, <1>6 DEF Bound
<1>8. ReachInv' /\ OrderInv'
  <2>1. Len(pending') = 0
    BY <1>3, EmptySeq
  <2> QED
    BY <1>1, <1>7, <2>1, NewKeepsOrder
<1>9. \A i \in 1..Len(swapbuf') : swapbuf'[i] = cut' - Len(swapbuf') + i
  <2> SUFFICES ASSUME NEW i \in 1..Len(swapbuf')
               PROVE  swapbuf'[i] = cut' - Len(swapbuf') + i
    OBVIOUS
  <2>1. CASE i <= Len(swapbuf)
    <3>1. swapbuf'[i] = cut - Len(swapbuf) + i
      BY <1>1, <1>2, <1>5, <2>1 DEF OInv, KeptInv
    <3> QED
      BY <1>1, <1>2, <1>5, <3>1
  <2>2. CASE i > Len(swapbuf)
    <3>1. i - Len(swapbuf) \in 1..wstep
      BY <1>2, <1>5, <2>2
    <3>2. swapbuf'[i] = cut + (i - Len(swapbuf))
      BY <1>2, <1>4, <1>5, <2>2, <3>1
    <3> QED
      BY <1>1, <1>2, <1>5, <3>1, <3>2
  <2> QED
    BY <1>2, <1>5, <2>1, <2>2
<1>10. ~end_of_stream => Len(swapbuf') + Least(TailSteps) >= Least(nc')
  <2> SUFFICES ASSUME ~end_of_stream
               PROVE  Len(swapbuf') + Least(TailSteps) >= Least(nc')
    OBVIOUS
  <2>1. wstep >= MinStep /\ Len(swapbuf) + Least(TailSteps) >= Least(nc)
    BY <1>1 DEF OInv, ThreadInv, KeptInv, Late
  <2>2. Least(nc + 1) = Least(nc) + MinStep /\ Least(nc) \in Int
        /\ Least(TailSteps) \in Int /\ MinStep \in Nat
    <3>1. nc \in Int /\ TailSteps \in Int
      BY <1>2, TailStepsAre
    <3> QED
      BY <3>1, MinStepIs, LeastAdd
  <2> QED
    BY <1>1, <1>2, <1>5, <2>1, <2>2
<1>11. KeptInv'
  BY <1>1, <1>3, <1>9, <1>10 DEF KeptInv, Late
<1> QED
  BY <1>8, <1>11

LEMMA SilenceKeeps ==
  ASSUME IInv, OInv, Cut, Silence
  PROVE  ReachInv' /\ OrderInv' /\ KeptInv'
<1>1. /\ capture = "cut" /\ capture' = "check" /\ cut' = cut + wstep
      /\ ~speaking /\ ~speaking' /\ since' = since /\ pending' = <<>>
      /\ end_of_stream' = end_of_stream
      /\ UNCHANGED <<speech, last, process, prev_len, nowlen>>
  BY DEF Cut, Silence, shared, main, history
<1>2. /\ wstep \in Nat /\ cut \in Nat /\ since \in Nat /\ since <= cut
      /\ c_length \in Nat \ {0} /\ Overlap \in Nat
  BY OverlapIs, Typed, Constants
<1>3. Reach = IF since > cut + 1 - c_length THEN since ELSE cut + 1 - c_length
  BY <1>1 DEF Reach, Late
<1>4. Reach' = IF end_of_stream THEN cut'
               ELSE IF since > cut' + 1 - c_length THEN since
                    ELSE cut' + 1 - c_length
  BY <1>1 DEF Reach, Late
<1>5. Bound' \in Int /\ Bound <= Bound'
  <2>1. Reach \in Int /\ Reach' \in Int /\ Reach <= Reach'
    BY <1>1, <1>2, <1>3, <1>4
  <2>2. Bound' = IF Reach' + Overlap < cut' THEN Reach' + Overlap ELSE cut'
    BY <1>1 DEF Bound
  <2>3. /\ cut' \in Int /\ cut <= cut'
        /\ Reach + Overlap \in Int /\ Reach' + Overlap \in Int
        /\ Reach + Overlap <= Reach' + Overlap
    <3>1. cut' \in Int /\ cut <= cut'
      BY <1>1, <1>2
    <3>2. Overlap \in Int
      BY <1>2
    <3>3. Reach + Overlap \in Int /\ Reach' + Overlap \in Int
      BY <2>1, <3>2
    <3>4. Reach + Overlap <= Reach' + Overlap
      <4> DEFINE a == Reach
                 b == Reach'
                 o == Overlap
      <4>1. a \in Int /\ b \in Int /\ o \in Int /\ a <= b
        BY <2>1, <3>2
      <4> HIDE DEF a, b, o
      <4>2. a + o <= b + o
        BY <4>1
      <4> QED
        BY <4>2 DEF a, b, o
    <3> QED
      BY <3>1, <3>3, <3>4
  <2>4. Bound \in Int /\ Bound <= Reach + Overlap /\ Bound <= cut
    BY BoundIs
  <2>5. CASE Reach' + Overlap < cut'
    BY <2>2, <2>3, <2>4, <2>5
  <2>6. CASE ~(Reach' + Overlap < cut')
    BY <1>2, <2>2, <2>3, <2>4, <2>6
  <2> QED
    BY <2>5, <2>6
<1>6. Len(pending') = 0
  BY <1>1, EmptySeq
<1>7. ReachInv' /\ OrderInv'
  BY <1>1, <1>5, <1>6, NewKeepsOrder
<1> QED
  BY <1>1, <1>7 DEF KeptInv

LEMMA CutOrder == IInv /\ OInv /\ Cut => OInv'
<1> SUFFICES ASSUME IInv, OInv, Cut PROVE OInv'
  OBVIOUS
<1>1. ReachInv' /\ OrderInv' /\ KeptInv'
  <2>1. CASE TrailingSilence
    BY <2>1, TailMarginKeeps, KeepingKeeps
  <2> QED
    BY <2>1, TriggerKeeps, SilenceKeeps DEF Cut
<1>2. ThreadInv'
  <2>1. capture = "cut" /\ capture' = "check" /\ cut' = cut + wstep
        /\ UNCHANGED <<heard, wstep, end_of_stream, process>>
    BY DEF Cut, main
  <2> QED
    BY <2>1 DEF OInv, ThreadInv
<1> QED
  BY <1>1, <1>2 DEF OInv

(* A step that changes neither the buffer nor what is to be stored.        *)
LEMMA SameOrder ==
  ASSUME IInv, OInv, UNCHANGED <<speech, last, pending>>,
         Bound' \in Int, Bound <= Bound',
         \/ process' \in {"waitEnd", "reopen", "exit"}
         \/ /\ process \notin {"waitEnd", "reopen", "exit"}
            /\ unsent' = unsent
  PROVE  ReachInv' /\ OrderInv'
<1>1. Bound \in Int /\ last \in Int /\ speech \in Seq(Captures)
      /\ pending \in Seq(Seq(Captures))
  BY BoundIs, Typed
<1>2. \A y \in Elements(speech) : y \in Int /\ y <= Bound
  BY <1>1, ElementsAreCaptures DEF OInv, ReachInv
<1>3. \A k \in 1..Len(pending) : \A x \in Elements(pending[k]) :
        x \in Int /\ x <= Bound
  <2> SUFFICES ASSUME NEW k \in 1..Len(pending), NEW x \in Elements(pending[k])
               PROVE  x \in Int /\ x <= Bound
    OBVIOUS
  <2>1. pending[k] \in Seq(Captures)
    BY <1>1, ElementOfSeq
  <2> QED
    BY <2>1, ElementsAreCaptures DEF OInv, ReachInv
<1>4. last <= Bound
  BY DEF OInv, ReachInv
<1>5. last' <= Bound' /\ \A x \in Elements(speech') : x <= Bound'
  BY <1>1, <1>2, <1>4
<1>6. \A k \in 1..Len(pending') : \A x \in Elements(pending'[k]) : x <= Bound'
  <2> SUFFICES ASSUME NEW k \in 1..Len(pending), NEW x \in Elements(pending[k])
               PROVE  x <= Bound'
    OBVIOUS
  <2>1. x \in Int /\ x <= Bound
    BY <1>3
  <2> QED
    BY <1>1, <2>1
<1>7. OrderInv'
  BY DEF OInv, OrderInv
<1> QED
  BY <1>5, <1>6, <1>7 DEF ReachInv

LEMMA CheckOrder == IInv /\ OInv /\ Check => OInv'
<1> SUFFICES ASSUME IInv, OInv, Check PROVE OInv'
  OBVIOUS
<1>1. /\ capture = "check" /\ capture' \in {"store", "full"}
      /\ UNCHANGED <<heard, cut, since, wstep, end_of_stream, speaking, nc,
                     rest_tail, swapbuf, pending, speech, last, process,
                     prev_len, nowlen>>
  BY DEF Check, detector, shared, main, history
<1>2. Bound' = Bound /\ Bound \in Int /\ Late' = Late /\ unsent' = unsent
  BY <1>1, BoundIs DEF Bound, Reach, Late, unsent
<1>3. process \notin {"waitEnd", "reopen"}
  BY <1>1 DEF OInv, ThreadInv
<1>4. ReachInv' /\ OrderInv'
  BY <1>1, <1>2, <1>3, SameOrder
<1>5. ThreadInv' /\ KeptInv'
  BY <1>1, <1>2 DEF OInv, ThreadInv, KeptInv
<1> QED
  BY <1>4, <1>5 DEF OInv

LEMMA ReadOrder == IInv /\ OInv /\ Read => OInv'
<1> SUFFICES ASSUME IInv, OInv, Read PROVE OInv'
  OBVIOUS
<1>1. /\ capture = "read" /\ capture' = "cut" /\ ~end_of_stream
      /\ UNCHANGED <<cut, since, end_of_stream, speaking, nc, rest_tail, swapbuf,
                     pending, speech, last, process, prev_len, nowlen>>
  BY DEF Read, shared, main, history, OInv, ThreadInv
<1>2. wstep' >= MinStep
  <2>1. cut \in Nat /\ heard \in Nat /\ cut <= heard /\ chunk_size \in Nat
        /\ MinRead \in Nat /\ MaxRead \in Nat
    BY Typed, Constants
  <2>2. heard' - cut > 0 /\ heard' - cut >= MinRead /\ heard' \in Int
    BY <2>1 DEF Read
  <2>3. wstep' = chunk_size \/ wstep' = heard' - cut
    BY DEF Read
  <2>4. MinStep <= chunk_size /\ (MinRead # 0 => MinStep <= MinRead)
        /\ (MinRead = 0 => MinStep = 1) /\ MinStep \in Nat
    BY MinStepIs DEF MinStep
  <2>5. CASE wstep' = chunk_size
    BY <2>1, <2>4, <2>5
  <2>6. CASE wstep' = heard' - cut
    <3>1. heard' - cut >= MinStep
      <4> DEFINE h == heard' - cut
      <4>1. h \in Int
        BY <2>1, <2>2
      <4>2. h > 0 /\ h >= MinRead
        BY <2>2
      <4> HIDE DEF h
      <4>3. h >= MinStep
        BY <2>1, <2>4, <4>1, <4>2
      <4> QED
        BY <4>3 DEF h
    <3> QED
      BY <2>6, <3>1
  <2> QED
    BY <2>3, <2>5, <2>6
<1>3. Bound' = Bound /\ Bound \in Int /\ Late' = Late /\ unsent' = unsent
  BY <1>1, BoundIs DEF Bound, Reach, Late, unsent
<1>4. process \notin {"waitEnd", "reopen"}
  BY <1>1 DEF OInv, ThreadInv
<1>5. ReachInv' /\ OrderInv'
  BY <1>1, <1>3, <1>4, SameOrder
<1>6. ThreadInv' /\ KeptInv'
  BY <1>1, <1>2, <1>3 DEF OInv, ThreadInv, KeptInv
<1> QED
  BY <1>5, <1>6 DEF OInv

LEMMA FailsOrder == IInv /\ OInv /\ Fails => OInv'
<1> SUFFICES ASSUME IInv, OInv, Fails PROVE OInv'
  OBVIOUS
<1>1. /\ capture = "read" /\ ~end_of_stream /\ end_of_stream' = TRUE
      /\ \/ cut = heard /\ capture' = "ended"
         \/ cut # heard /\ capture' = "cut" /\ wstep' = heard - cut
      /\ UNCHANGED <<heard, cut, since, speaking, nc, rest_tail, swapbuf,
                     pending, speech, last, process, prev_len, nowlen>>
  BY DEF Fails, shared, main, history, OInv, ThreadInv
<1>2. Reach \in Int /\ Reach <= cut /\ cut \in Nat /\ heard \in Nat
  BY ReachIs, Typed
<1>3. Reach' = Reach \/ Reach' = cut
  BY <1>1 DEF Reach, Late
<1>4. Bound' \in Int /\ Bound <= Bound' /\ unsent' = unsent /\ ~Late
  BY <1>1, <1>2, <1>3, OverlapIs DEF Bound, unsent, Late
<1>5. process \notin {"waitEnd", "reopen"}
  BY <1>1 DEF OInv, ThreadInv
<1>6. ReachInv' /\ OrderInv'
  BY <1>1, <1>4, <1>5, SameOrder
<1>7. ThreadInv' /\ KeptInv'
  BY <1>1, <1>2, <1>4 DEF OInv, ThreadInv, KeptInv
<1> QED
  BY <1>6, <1>7 DEF OInv

LEMMA EndStepOrder == IInv /\ OInv /\ EndStep => OInv'
<1> SUFFICES ASSUME IInv, OInv, EndStep PROVE OInv'
  OBVIOUS
<1> DEFINE over == speaking /\ nc >= nc_max
<1>1. /\ capture = "check" /\ pending = <<>> /\ speaking' = (speaking /\ ~over)
      /\ swapbuf' = IF over THEN <<>> ELSE swapbuf
      /\ capture' = CASE cut + wstep <= heard -> "cut"
                      [] end_of_stream -> "ended"
                      [] OTHER -> "read"
      /\ UNCHANGED <<heard, cut, since, wstep, end_of_stream, nc, rest_tail,
                     pending, speech, last, process, prev_len, nowlen>>
  BY DEF EndStep, EndsAfter, main, history
<1>2. /\ cut \in Nat /\ heard \in Nat /\ wstep \in Nat /\ wstep > 0 /\ since \in Nat
      /\ since <= cut /\ nc \in 0..nc_max /\ Len(swapbuf) \in Nat /\ rest_tail \in Nat
      /\ nc_max \in Nat \ {0} /\ c_length \in Nat \ {0} /\ speaking \in BOOLEAN
  BY <1>1, Typed, Constants DEF IInv, TypeOK, StepInv
<1>3. end_of_stream => heard = cut /\ capture' = "ended"
  BY <1>1, <1>2 DEF OInv, ThreadInv
<1>4. ~end_of_stream => capture' \in {"cut", "read"} /\ wstep >= MinStep
  BY <1>1 DEF OInv, ThreadInv
<1>5. (Late' <=> end_of_stream) /\ (Late <=> end_of_stream)
  <2>1. CASE end_of_stream
    BY <1>1, <1>3, <2>1 DEF Late
  <2>2. CASE ~end_of_stream
    BY <1>1, <2>2 DEF Late
  <2> QED
    BY <2>1, <2>2
<1>6. Bound \in Int /\ Bound <= cut /\ Overlap \in Nat /\ KeptBack \in Nat
      /\ KeptBack + 1 + Overlap >= c_length
  BY BoundIs, OverlapIs
<1>7. Bound' \in Int /\ Bound <= Bound'
  <2>1. CASE ~over
    <3>1. (speaking' <=> speaking) /\ swapbuf' = swapbuf /\ (Late' <=> Late)
          /\ UNCHANGED <<cut, since, nc>>
      BY <1>1, <1>5, <2>1
    <3>2. Reach' = Reach
      BY <3>1 DEF Reach
    <3>3. Bound' = Bound
      BY <3>1, <3>2 DEF Bound
    <3> QED
      BY <1>6, <3>3
  <2>2. CASE over /\ end_of_stream
    <3>1. ~speaking' /\ Late' /\ cut' = cut
      BY <1>1, <1>5, <2>2
    <3>2. Reach' = cut
      BY <3>1 DEF Reach
    <3>3. Bound' = cut
      BY <1>2, <1>6, <3>1, <3>2 DEF Bound
    <3> QED
      BY <1>2, <1>6, <3>3
  <2>3. CASE over /\ ~end_of_stream
    <3>1. nc = nc_max /\ nc # 0 /\ speaking /\ ~Late
      BY <1>2, <1>5, <2>3
    <3>2. Bound = cut - Len(swapbuf)
      BY <3>1 DEF Reach, Bound
    <3>3. Len(swapbuf) >= KeptBack
      <4>1. /\ TailSteps \in Int /\ nc_max \in Int /\ TailMargin \in Nat
            /\ Least(TailSteps) \in Int /\ Least(nc_max) \in Int
            /\ Least(TailSteps) >= TailMargin
        BY TailStepsAre, LeastAdd, Constants
      <4>2. IF rest_tail # 0 THEN rest_tail + Least(nc_max) <= TailMargin
            ELSE Len(swapbuf) + Least(TailSteps) >= Least(nc_max)
        BY <3>1 DEF OInv, KeptInv
      <4>3. CASE nc_max > TailSteps
        <5>1. KeptBack = Least(nc_max) - Least(TailSteps)
          BY <4>3, OverlapIs
        <5>2. Least(TailSteps) <= Least(nc_max)
          BY <4>1, <4>3, LeastGrows
        <5> QED
          BY <1>2, <4>1, <4>2, <5>1, <5>2
      <4>4. CASE nc_max <= TailSteps
        BY <1>2, <4>4, OverlapIs
      <4> QED
        BY <4>1, <4>3, <4>4
    <3>4. ~speaking' /\ ~Late' /\ cut' = cut /\ since' = since
      BY <1>1, <1>5, <2>3
    <3>5. Reach' = IF since > cut + 1 - c_length THEN since ELSE cut + 1 - c_length
      BY <3>4 DEF Reach
    <3>6. Bound' = IF Reach' + Overlap < cut THEN Reach' + Overlap ELSE cut
      BY <3>4 DEF Bound
    <3> QED
      BY <1>2, <1>6, <3>2, <3>3, <3>5, <3>6
  <2> QED
    BY <2>1, <2>2, <2>3
<1>8. process \notin {"waitEnd", "reopen"}
  BY <1>1 DEF OInv, ThreadInv
<1>9. ReachInv' /\ OrderInv'
  <2>1. unsent' = unsent
    BY <1>1 DEF unsent
  <2> QED
    BY <1>1, <1>7, <1>8, <2>1, SameOrder
<1>10. ThreadInv'
  BY <1>1, <1>3, <1>4, <1>8 DEF ThreadInv
<1>11. KeptInv'
  <2>1. speaking' => speaking /\ swapbuf' = swapbuf
    BY <1>1
  <2> HIDE DEF over
  <2> QED
    BY <1>1, <1>5, <2>1 DEF OInv, KeptInv
<1> QED
  BY <1>9, <1>10, <1>11 DEF OInv

LEMMA OverflowOrder == IInv /\ OInv /\ Overflow => OInv'
<1> SUFFICES ASSUME IInv, OInv, Overflow PROVE OInv'
  OBVIOUS
<1>1. /\ capture = "full" /\ capture' = "check" /\ pending' = Tail(pending)
      /\ UNCHANGED <<heard, cut, since, wstep, end_of_stream, speaking, nc,
                     rest_tail, swapbuf, speech, last, process, prev_len, nowlen>>
  BY DEF Overflow, detector, main, history
<1>2. /\ Len(pending) \in Nat /\ Len(pending') = Len(pending) - 1
      /\ \A k \in 1..Len(pending') : pending'[k] = pending[k + 1]
  BY <1>1, Typed, HeadTailProperties DEF IInv, StoreInv
<1>3. \A k \in 1..Len(pending') : k + 1 \in 1..Len(pending)
  BY <1>2
<1>4. Bound' = Bound /\ (Late' <=> Late) /\ unsent' = unsent
  BY <1>1 DEF Bound, Reach, Late, unsent
<1>5. ReachInv'
  BY <1>1, <1>2, <1>3, <1>4 DEF OInv, ReachInv
<1>6. OrderInv'
  <2>1. \A k \in 1..Len(pending') :
          /\ Ascending(pending'[k])
          /\ \A x \in Elements(pending'[k]) :
               last' < x + Overlap /\ \A y \in Elements(speech') : y < x + Overlap
    BY <1>1, <1>2, <1>3 DEF OInv, OrderInv
  <2>2. \A k, l \in 1..Len(pending') :
          k < l => \A x \in Elements(pending'[k]), y \in Elements(pending'[l]) :
                     x < y + Overlap
    <3> SUFFICES ASSUME NEW k \in 1..Len(pending'), NEW l \in 1..Len(pending'), k < l,
                        NEW x \in Elements(pending'[k]), NEW y \in Elements(pending'[l])
                 PROVE  x < y + Overlap
      OBVIOUS
    <3>1. k + 1 < l + 1 /\ k + 1 \in 1..Len(pending) /\ l + 1 \in 1..Len(pending)
      BY <1>3
    <3>2. x \in Elements(pending[k + 1]) /\ y \in Elements(pending[l + 1])
      BY <1>2
    <3> QED
      BY <3>1, <3>2 DEF OInv, OrderInv
  <2> QED
    BY <1>1, <1>4, <2>1, <2>2 DEF OInv, OrderInv
<1>7. ThreadInv' /\ KeptInv'
  BY <1>1, <1>4 DEF OInv, ThreadInv, KeptInv
<1> QED
  BY <1>5, <1>6, <1>7 DEF OInv

LEMMA StoreOrder == IInv /\ OInv /\ Store => OInv'
<1> SUFFICES ASSUME IInv, OInv, Store PROVE OInv'
  OBVIOUS
<1> DEFINE new == Head(pending)
<1>1. /\ capture = "store" /\ capture' = "check" /\ pending' = Tail(pending)
      /\ speech' = speech \o new
      /\ UNCHANGED <<heard, cut, since, wstep, end_of_stream, speaking, nc,
                     rest_tail, swapbuf, last, process, prev_len, nowlen>>
  BY DEF Store, detector, main, history
<1>2. /\ Len(pending) \in Nat /\ Len(pending') = Len(pending) - 1
      /\ pending # <<>> /\ pending \in Seq(Seq(Captures)) /\ new \in Seq(Captures)
      /\ \A k \in 1..Len(pending') : pending'[k] = pending[k + 1]
  BY <1>1, Typed, HeadTailProperties DEF IInv, StoreInv
<1>3. /\ \A k \in 1..Len(pending') : k + 1 \in 1..Len(pending) /\ 1 < k + 1
      /\ 1 \in 1..Len(pending) /\ new = pending[1]
  <2>1. Len(pending) \in Nat \ {0}
    BY <1>2, EmptySeq
  <2> QED
    BY <1>2, <2>1
<1>4. Bound' = Bound /\ (Late' <=> Late) /\ unsent' = unsent
  BY <1>1 DEF Bound, Reach, Late, unsent
<1>5. /\ speech \in Seq(Captures) /\ Len(speech) \in Nat /\ Len(new) \in Nat
      /\ prev_len \in Nat /\ nowlen \in Nat
      /\ prev_len <= Len(speech) /\ nowlen <= Len(speech)
  BY <1>2, Typed, LenProperties
<1>6. /\ Len(speech') = Len(speech) + Len(new)
      /\ \A i \in 1..Len(speech') :
           speech'[i] = IF i <= Len(speech) THEN speech[i] ELSE new[i - Len(speech)]
  BY <1>1, <1>2, <1>5, ConcatProperties
<1>7. Elements(speech') = Elements(speech) \cup Elements(new)
  BY <1>1, <1>2, <1>5, ConcatElements
<1>8. /\ Ascending(speech) /\ Ascending(new)
      /\ \A x \in Elements(new) :
           last < x + Overlap /\ x <= Bound /\ \A y \in Elements(speech) : y < x + Overlap
  BY <1>3 DEF OInv, OrderInv, ReachInv
<1> HIDE DEF new
<1>9. Ascending(speech')
  BY <1>1, <1>2, <1>5, <1>8, ConcatAscending
<1>10. ReachInv'
  <2>1. \A x \in Elements(speech') : x <= Bound'
    BY <1>4, <1>7, <1>8 DEF OInv, ReachInv
  <2> QED
    BY <1>1, <1>2, <1>3, <1>4, <2>1 DEF OInv, ReachInv
<1>11. OrderInv'
  <2>1. process' \notin {"waitEnd", "reopen", "exit"} =>
          \A i \in (unsent' + 1)..Len(speech') : last' < speech'[i] + Overlap
    <3> SUFFICES ASSUME process \notin {"waitEnd", "reopen", "exit"},
                        NEW i \in (unsent + 1)..Len(speech')
                 PROVE  last < speech'[i] + Overlap
      BY <1>1, <1>4
    <3>1. unsent \in Nat
      BY <1>5 DEF unsent
    <3>2. CASE i <= Len(speech)
      BY <1>5, <1>6, <3>1, <3>2 DEF OInv, OrderInv
    <3>3. CASE i > Len(speech)
      <4>1. i - Len(speech) \in 1..Len(new) /\ speech'[i] = new[i - Len(speech)]
        BY <1>5, <1>6, <3>1, <3>3
      <4>2. speech'[i] \in Elements(new)
        BY <4>1 DEF Elements
      <4> QED
        BY <1>8, <4>2
    <3> QED
      BY <1>5, <3>1, <3>2, <3>3
  <2>2. \A k \in 1..Len(pending') :
          /\ Ascending(pending'[k])
          /\ \A x \in Elements(pending'[k]) :
               last' < x + Overlap /\ \A y \in Elements(speech') : y < x + Overlap
    <3> SUFFICES ASSUME NEW k \in 1..Len(pending')
                 PROVE  /\ Ascending(pending[k + 1])
                        /\ \A x \in Elements(pending[k + 1]) :
                             last < x + Overlap /\ \A y \in Elements(speech') : y < x + Overlap
      BY <1>1, <1>2
    <3>1. /\ Ascending(pending[k + 1])
          /\ \A x \in Elements(pending[k + 1]) :
               last < x + Overlap /\ \A y \in Elements(speech) : y < x + Overlap
      BY <1>3 DEF OInv, OrderInv
    <3>2. \A x \in Elements(pending[k + 1]), y \in Elements(new) : y < x + Overlap
      BY <1>3 DEF OInv, OrderInv
    <3> QED
      BY <1>7, <3>1, <3>2
  <2>3. \A k, l \in 1..Len(pending') :
          k < l => \A x \in Elements(pending'[k]), y \in Elements(pending'[l]) :
                     x < y + Overlap
    <3> SUFFICES ASSUME NEW k \in 1..Len(pending'), NEW l \in 1..Len(pending'), k < l,
                        NEW x \in Elements(pending'[k]), NEW y \in Elements(pending'[l])
                 PROVE  x < y + Overlap
      OBVIOUS
    <3>1. k + 1 < l + 1 /\ k + 1 \in 1..Len(pending) /\ l + 1 \in 1..Len(pending)
      BY <1>3
    <3>2. x \in Elements(pending[k + 1]) /\ y \in Elements(pending[l + 1])
      BY <1>2
    <3> QED
      BY <3>1, <3>2 DEF OInv, OrderInv
  <2> QED
    BY <1>9, <2>1, <2>2, <2>3 DEF OrderInv
<1>12. ThreadInv' /\ KeptInv'
  BY <1>1, <1>4 DEF OInv, ThreadInv, KeptInv
<1> QED
  BY <1>10, <1>11, <1>12 DEF OInv

-----------------------------------------------------------------------------
(* The main thread. *)

(* Nothing of the capture thread changes. *)
LEMMA SameThread ==
  ASSUME IInv, OInv, UNCHANGED <<detector, pending, capture>>
  PROVE  /\ Bound' = Bound /\ Bound' \in Int /\ Bound <= Bound'
         /\ KeptInv'
         /\ (process' \in {"waitEnd", "reopen"} => capture = "ended") => ThreadInv'
<1>1. Bound' = Bound /\ (Late' <=> Late) /\ Bound \in Int
  BY BoundIs DEF Bound, Reach, Late, detector
<1>2. KeptInv'
  BY <1>1 DEF OInv, KeptInv, detector
<1>3. (process' \in {"waitEnd", "reopen"} => capture = "ended") => ThreadInv'
  BY DEF OInv, ThreadInv, detector
<1> QED
  BY <1>1, <1>2, <1>3

LEMMA PollOrder == IInv /\ OInv /\ Poll => OInv'
<1> SUFFICES ASSUME IInv, OInv, Poll PROVE OInv'
  OBVIOUS
<1>1. process = "poll"
      /\ UNCHANGED <<detector, pending, capture, speech, last>>
  BY DEF Poll, thread, shared
<1>2. /\ process' \in {"waitEnd", "reopen"} => capture = "ended"
      /\ \/ process' \in {"waitEnd", "reopen", "exit"}
         \/ unsent' = unsent
  <2>1. CASE capture = "ended"
    <3>1. process' \in {"waitEnd", "reopen"}
      BY <2>1 DEF Poll, Return
    <3> QED
      BY <2>1, <3>1
  <2>2. CASE capture # "ended"
    <3>1. process' \in {"overflow", "command"} /\ prev_len' = prev_len
      BY <2>2 DEF Poll
    <3> QED
      BY <1>1, <3>1 DEF unsent
  <2> QED
    BY <2>1, <2>2
<1> QED
  BY <1>1, <1>2, SameThread, SameOrder DEF OInv

(* The others that leave the buffer and what was sent of it alone.         *)
LEMMA StillOrder ==
  IInv /\ OInv /\ (Start \/ CheckCommand \/ Idle \/ Wait) => OInv'
<1> SUFFICES ASSUME IInv, OInv, Start \/ CheckCommand \/ Idle \/ Wait PROVE OInv'
  OBVIOUS
<1>1. UNCHANGED <<detector, pending, capture, speech, last, prev_len, nowlen>>
  BY DEF Start, CheckCommand, Idle, Wait, thread, shared, history
<1>2. /\ process' \in {"waitEnd", "reopen"} => process = "waitEnd"
      /\ \/ process' \in {"waitEnd", "reopen", "exit"}
         \/ process \notin {"waitEnd", "reopen", "exit"} /\ unsent' = unsent
  <2>1. CASE Start
    BY <1>1, <2>1 DEF Start, unsent
  <2>2. CASE CheckCommand
    BY <1>1, <2>2 DEF CheckCommand, unsent
  <2>3. CASE Idle
    BY <1>1, <2>3 DEF Idle, unsent
  <2>4. CASE Wait
    BY <1>1, <2>4 DEF Wait, unsent
  <2> QED
    BY <2>1, <2>2, <2>3, <2>4
<1>3. process' \in {"waitEnd", "reopen"} => capture = "ended"
  BY <1>2 DEF OInv, ThreadInv
<1> QED
  BY <1>1, <1>2, <1>3, SameThread, SameOrder DEF OInv

LEMMA EmptyOrder ==
  ASSUME IInv, OInv, NEW at \in {"overflow", "drop", "clear"},
         NEW result \in {1, -2}, Empty(at, result)
  PROVE  OInv'
<1>1. UNCHANGED <<detector, pending, capture, last>> /\ speech' = <<>>
  BY DEF Empty, thread
<1>2. process' \in {"wait", "start"} /\ prev_len' = 0
  BY DEF Empty, Return
<1>3. Elements(speech') = {} /\ Ascending(speech') /\ Len(speech') = 0
  BY <1>1, NoElements, EmptySeq
<1>4. Bound' = Bound /\ KeptInv' /\ ThreadInv'
  BY <1>1, <1>2, SameThread
<1>5. ReachInv'
  BY <1>1, <1>3, <1>4 DEF OInv, ReachInv
<1>6. OrderInv'
  <2>1. unsent' = 0
    BY <1>2 DEF unsent
  <2> QED
    BY <1>1, <1>3, <2>1 DEF OInv, OrderInv
<1> QED
  BY <1>4, <1>5, <1>6 DEF OInv

LEMMA SendOrder == IInv /\ OInv /\ Send => OInv'
<1> SUFFICES ASSUME IInv, OInv, Send PROVE OInv'
  OBVIOUS
<1>1. /\ UNCHANGED <<detector, pending, capture, speech>>
      /\ process = "process" /\ prev_len < nowlen
  BY DEF Send, thread, shared
<1>2. /\ speech \in Seq(Captures) /\ Len(speech) \in Nat /\ prev_len \in Nat
      /\ nowlen \in 1..Len(speech) /\ nowlen \in Nat
  BY <1>1, Typed
<1>3. process' \in {"rehash", "poll"} /\ unsent' = nowlen
  BY <1>1 DEF Send, unsent, shared, thread
<1>4. Bound' = Bound /\ KeptInv' /\ ThreadInv'
  BY <1>1, <1>3, SameThread
<1>5. last' = last \/ \E i \in (prev_len + 1)..nowlen : last' = speech[i]
  BY DEF Send
<1>6. last' = last \/ last' \in Elements(speech)
  BY <1>2, <1>5 DEF Elements
<1>7. ReachInv'
  BY <1>1, <1>4, <1>6 DEF OInv, ReachInv
<1>8. OrderInv'
  <2>1. ASSUME NEW i \in (nowlen + 1)..Len(speech)
        PROVE  last' < speech[i] + Overlap
    <3>1. CASE last' = last
      <4>1. unsent = prev_len /\ i \in (prev_len + 1)..Len(speech)
        BY <1>1, <1>2 DEF unsent
      <4> QED
        BY <1>1, <3>1, <4>1 DEF OInv, OrderInv
    <3>2. ASSUME NEW j \in (prev_len + 1)..nowlen, last' = speech[j]
          PROVE  last' < speech[i] + Overlap
      <4>1. i \in 1..Len(speech) /\ j \in 1..Len(speech) /\ j < i
        BY <1>2
      <4> QED
        BY <3>2, <4>1 DEF OInv, OrderInv, Ascending
    <3> QED
      BY <1>5, <3>1, <3>2
  <2>2. \A k \in 1..Len(pending) : \A x \in Elements(pending[k]) :
          last' < x + Overlap
    BY <1>6 DEF OInv, OrderInv
  <2> QED
    BY <1>1, <1>3, <2>1, <2>2 DEF OInv, OrderInv
<1> QED
  BY <1>4, <1>7, <1>8 DEF OInv

LEMMA RehashOrder == IInv /\ OInv /\ Rehash => OInv'
<1> SUFFICES ASSUME IInv, OInv, Rehash PROVE OInv'
  OBVIOUS
<1>1. /\ UNCHANGED <<detector, pending, capture, last>>
      /\ speech' = SubSeq(speech, prev_len + 1, Len(speech))
      /\ process = "rehash" /\ process' = "poll"
      /\ nowlen' = nowlen - prev_len /\ prev_len' = nowlen'
  BY DEF Rehash, thread, history
<1>2. /\ speech \in Seq(Captures) /\ Len(speech) \in Nat
      /\ prev_len \in Nat /\ nowlen \in Nat
      /\ prev_len <= Len(speech) /\ nowlen <= Len(speech) /\ prev_len < nowlen
  BY <1>1, Typed DEF IInv, LengthInv
<1>3. /\ Len(speech') = Len(speech) - prev_len
      /\ \A i \in 1..Len(speech') :
           speech'[i] = speech[prev_len + i] /\ prev_len + i \in 1..Len(speech)
  <2>1. \A i \in (prev_len + 1)..Len(speech) : speech[i] \in Captures
    <3> SUFFICES ASSUME NEW i \in (prev_len + 1)..Len(speech)
                 PROVE  speech[i] \in Captures
      OBVIOUS
    <3>1. i \in 1..Len(speech)
      BY <1>2
    <3> QED
      BY <1>2, <3>1, ElementOfSeq
  <2>2. prev_len + 1 \in Int /\ Len(speech) \in Int /\ prev_len + 1 <= Len(speech)
    BY <1>2
  <2>3. /\ Len(speech') = Len(speech) - (prev_len + 1) + 1
        /\ \A i \in 1..(Len(speech) - (prev_len + 1) + 1) :
             speech'[i] = speech[(prev_len + 1) + i - 1]
    BY <1>1, <2>1, <2>2, SubSeqProperties
  <2>4. Len(speech') = Len(speech) - prev_len
    BY <1>2, <2>3
  <2>5. ASSUME NEW i \in 1..Len(speech')
        PROVE  speech'[i] = speech[prev_len + i] /\ prev_len + i \in 1..Len(speech)
    <3>1. i \in 1..(Len(speech) - (prev_len + 1) + 1)
          /\ (prev_len + 1) + i - 1 = prev_len + i
      BY <1>2, <2>4
    <3> QED
      BY <1>2, <2>3, <2>4, <3>1
  <2> QED
    BY <2>4, <2>5
<1>4. Bound' = Bound /\ KeptInv' /\ ThreadInv'
  BY <1>1, SameThread
<1>5. \A x \in Elements(speech') : x \in Elements(speech)
  BY <1>3 DEF Elements
<1>6. ReachInv'
  BY <1>1, <1>4, <1>5 DEF OInv, ReachInv
<1>7. OrderInv'
  <2>1. Ascending(speech')
    <3> SUFFICES ASSUME NEW i \in 1..Len(speech'), NEW j \in 1..Len(speech'), i < j
                 PROVE  speech'[i] < speech'[j] + Overlap
      BY DEF Ascending
    <3>1. prev_len + i < prev_len + j
      BY <1>2, <1>3
    <3> QED
      BY <1>3, <3>1 DEF OInv, OrderInv, Ascending
  <2>2. unsent' = nowlen - prev_len /\ unsent = nowlen
    BY <1>1 DEF unsent
  <2>3. \A i \in (unsent' + 1)..Len(speech') : last' < speech'[i] + Overlap
    <3> SUFFICES ASSUME NEW i \in (nowlen - prev_len + 1)..Len(speech')
                 PROVE  last < speech'[i] + Overlap
      BY <1>1, <2>2
    <3>1. i \in 1..Len(speech') /\ prev_len + i \in (nowlen + 1)..Len(speech)
      BY <1>2, <1>3
    <3> QED
      BY <1>1, <1>3, <2>2, <3>1 DEF OInv, OrderInv
  <2>4. \A k \in 1..Len(pending') :
          /\ Ascending(pending'[k])
          /\ \A x \in Elements(pending'[k]) :
               last' < x + Overlap /\ \A y \in Elements(speech') : y < x + Overlap
    BY <1>1, <1>5 DEF OInv, OrderInv
  <2> QED
    BY <1>1, <2>1, <2>3, <2>4 DEF OInv, OrderInv
<1> QED
  BY <1>4, <1>6, <1>7 DEF OInv

LEMMA ReopenOrder == IInv /\ OInv /\ Reopen => OInv'
<1> SUFFICES ASSUME IInv, OInv, Reopen PROVE OInv'
  OBVIOUS
<1>1. process = "reopen" /\ capture = "ended" /\ pending = <<>>
      /\ UNCHANGED <<pending, last, prev_len, nowlen, heard, wstep, rest_tail>>
  BY DEF Reopen, OInv, ThreadInv, history
<1>2. CASE process' = "exit"
  <2>1. UNCHANGED <<detector, capture, speech>>
    BY <1>1, <1>2 DEF Reopen, detector, shared
  <2> QED
    BY <1>1, <1>2, <2>1, SameThread, SameOrder DEF OInv
<1>3. CASE process' = "start"
  <2>1. /\ capture' = "read" /\ since' = heard /\ cut' = heard
        /\ end_of_stream' = FALSE /\ speaking' = FALSE /\ nc' = 0
        /\ speech' = <<>>
    BY <1>3 DEF Reopen
  <2>2. /\ heard \in Nat /\ cut \in Nat /\ cut <= heard /\ c_length \in Nat \ {0}
        /\ Bound \in Int /\ Bound <= cut /\ last \in Nat /\ Overlap \in Nat
    BY Typed, Constants, BoundIs, OverlapIs
  <2>3. Bound' = heard
    <3>1. Reach' = heard
      BY <2>1, <2>2 DEF Reach, Late
    <3> QED
      BY <2>1, <2>2, <3>1 DEF Bound
  <2>4. /\ Elements(speech') = {} /\ Ascending(speech') /\ Len(speech') = 0
        /\ Len(pending') = 0
    BY <1>1, <2>1, NoElements, EmptySeq
  <2>5. ReachInv'
    BY <1>1, <2>2, <2>3, <2>4 DEF OInv, ReachInv
  <2>6. OrderInv'
    <3>1. unsent' = prev_len /\ prev_len \in Nat
      BY <1>1, <1>3, Typed DEF unsent
    <3>2. ASSUME NEW i \in (prev_len + 1)..Len(speech') PROVE FALSE
      BY <2>4, <3>1
    <3>3. \A k \in 1..Len(pending') : FALSE
      BY <2>4
    <3>4. Ascending(speech')
      BY <2>4
    <3> QED
      BY <3>1, <3>2, <3>3, <3>4 DEF OrderInv
  <2>7. ThreadInv' /\ KeptInv'
    BY <1>1, <1>3, <2>1 DEF ThreadInv, KeptInv
  <2> QED
    BY <2>5, <2>6, <2>7 DEF OInv
<1> QED
  BY <1>2, <1>3 DEF Reopen

-----------------------------------------------------------------------------
LEMMA NextOrder == IInv /\ OInv /\ [Next]_vars => OInv'
<1> SUFFICES ASSUME IInv, OInv, [Next]_vars PROVE OInv'
  OBVIOUS
<1>1. CASE UNCHANGED vars
  <2>1. UNCHANGED <<detector, pending, capture, speech, last, process,
                    prev_len, nowlen>>
    BY <1>1 DEF vars, thread, shared, main, history
  <2>2. unsent' = unsent
    BY <2>1 DEF unsent
  <2>3. process' \in {"waitEnd", "reopen"} => capture = "ended"
    BY <2>1 DEF OInv, ThreadInv
  <2> QED
    BY <2>1, <2>2, <2>3, SameThread, SameOrder DEF OInv
<1>2. CASE Read \/ Capture \/ Fails
  BY <1>2, ReadOrder, CutOrder, CheckOrder, OverflowOrder, StoreOrder,
     EndStepOrder, FailsOrder DEF Capture
<1>3. CASE Process \/ Wait
  <2>1. CASE Empty("overflow", 1) \/ Empty("drop", -2) \/ Empty("clear", 1)
    BY <2>1, EmptyOrder
  <2> QED
    BY <1>3, <2>1, PollOrder, StillOrder, SendOrder, RehashOrder, ReopenOrder
    DEF Process
<1> QED
  BY <1>1, <1>2, <1>3 DEF Next

(* What a step of the specification sends. *)
Sent ==
  \A i \in (Len(segment) + 1)..Len(segment') :
    /\ segment'[i] > last - Overlap
    /\ \A j \in (Len(segment) + 1)..(i - 1) :
         segment'[i] > segment'[j] - Overlap

LEMMA SendSendsInOrder == IInv /\ OInv /\ Send => Sent
<1> SUFFICES ASSUME IInv, OInv, Send PROVE Sent
  OBVIOUS
<1> DEFINE new == SubSeq(speech, prev_len + 1, nowlen)
           first == Len(segment) + 1
<1>1. segment' = segment \o new /\ process = "process" /\ prev_len < nowlen
  BY DEF Send
<1>2. /\ speech \in Seq(Captures) /\ Len(speech) \in Nat
      /\ prev_len \in Nat /\ nowlen \in Nat /\ nowlen <= Len(speech)
      /\ segment \in Seq(Captures) /\ Len(segment) \in Nat /\ last \in Nat
  BY Typed, LenProperties
<1>3. \A j \in 1..Len(speech) : speech[j] \in Int
  BY <1>2, ElementOfSeq, Constants DEF Captures
<1>4. /\ new \in Seq(Captures) /\ Len(new) = nowlen - prev_len
      /\ \A j \in 1..(nowlen - prev_len) : new[j] = speech[prev_len + j]
  <2>1. \A j \in (prev_len + 1)..nowlen : speech[j] \in Captures
    <3> SUFFICES ASSUME NEW j \in (prev_len + 1)..nowlen PROVE speech[j] \in Captures
      OBVIOUS
    <3>1. j \in 1..Len(speech)
      BY <1>2
    <3> QED
      BY <1>2, <3>1, ElementOfSeq
  <2>2. prev_len + 1 \in Int /\ nowlen \in Int /\ prev_len + 1 <= nowlen
    BY <1>1, <1>2
  <2>3. /\ new \in Seq(Captures) /\ Len(new) = nowlen - (prev_len + 1) + 1
        /\ \A j \in 1..(nowlen - (prev_len + 1) + 1) :
             new[j] = speech[(prev_len + 1) + j - 1]
    BY <2>1, <2>2, SubSeqProperties
  <2>4. ASSUME NEW j \in 1..(nowlen - prev_len)
        PROVE  new[j] = speech[prev_len + j]
    <3>1. j \in 1..(nowlen - (prev_len + 1) + 1)
          /\ (prev_len + 1) + j - 1 = prev_len + j
      BY <1>2
    <3> QED
      BY <2>3, <3>1
  <2> QED
    BY <1>2, <2>3, <2>4
<1> HIDE DEF new
<1>5. /\ Len(segment') = Len(segment) + Len(new)
      /\ \A j \in 1..(Len(segment) + Len(new)) :
           segment'[j] = IF j <= Len(segment) THEN segment[j]
                         ELSE new[j - Len(segment)]
  BY <1>1, <1>2, <1>4, ConcatProperties
<1>6. ASSUME NEW i \in first..Len(segment')
      PROVE  /\ i - Len(segment) + prev_len \in (prev_len + 1)..nowlen
             /\ segment'[i] = speech[i - Len(segment) + prev_len]
  <2>1. i - Len(segment) \in 1..(nowlen - prev_len) /\ i \in Int
        /\ i \in 1..(Len(segment) + Len(new)) /\ ~(i <= Len(segment))
    BY <1>1, <1>2, <1>4, <1>5
  <2>2. segment'[i] = speech[prev_len + (i - Len(segment))]
    BY <1>4, <1>5, <2>1
  <2> QED
    BY <1>2, <2>1, <2>2
<1>7. Overlap \in Nat /\ unsent = prev_len
  BY <1>1, OverlapIs DEF unsent
<1>8. ASSUME NEW i \in first..Len(segment') PROVE segment'[i] > last - Overlap
  <2> DEFINE a == i - Len(segment) + prev_len
  <2>1. a \in (prev_len + 1)..Len(speech) /\ a \in 1..Len(speech)
        /\ segment'[i] = speech[a]
    BY <1>2, <1>6
  <2> HIDE DEF a
  <2>2. last < speech[a] + Overlap
    BY <1>1, <1>7, <2>1 DEF OInv, OrderInv
  <2> QED
    BY <1>2, <1>3, <1>7, <2>1, <2>2
<1>9. ASSUME NEW i \in first..Len(segment'), NEW j \in first..(i - 1)
      PROVE  segment'[i] > segment'[j] - Overlap
  <2> DEFINE a == i - Len(segment) + prev_len
             b == j - Len(segment) + prev_len
  <2>1. j \in first..Len(segment')
    BY <1>2, <1>4, <1>5
  <2>2. a \in 1..Len(speech) /\ segment'[i] = speech[a]
    <3>1. a \in (prev_len + 1)..nowlen /\ segment'[i] = speech[a]
      BY <1>6
    <3> HIDE DEF a
    <3> QED
      BY <1>2, <3>1
  <2>3. b \in 1..Len(speech) /\ segment'[j] = speech[b] /\ b < a
    <3>1. b \in (prev_len + 1)..nowlen /\ segment'[j] = speech[b]
      BY <1>6, <2>1
    <3>2. i \in Int /\ j \in Int /\ j < i
      BY <1>2, <1>4, <1>5
    <3>3. b < a
      BY <1>2, <3>2
    <3>4. b \in 1..Len(speech)
      <4> HIDE DEF b
      <4> QED
        BY <1>2, <3>1
    <3> QED
      BY <3>1, <3>3, <3>4
  <2> HIDE DEF a, b
  <2>4. speech[b] < speech[a] + Overlap
    BY <2>2, <2>3 DEF OInv, OrderInv, Ascending
  <2> QED
    BY <1>3, <1>7, <2>2, <2>3, <2>4
<1> QED
  BY <1>8, <1>9 DEF Sent

LEMMA StepSendsInOrder == IInv /\ OInv /\ [Next]_vars => Sent
<1> SUFFICES ASSUME IInv, OInv, [Next]_vars PROVE Sent
  OBVIOUS
<1>1. CASE Send
  BY <1>1, SendSendsInOrder
<1>2. CASE segment' = segment \/ segment' = <<>>
  <2>1. Len(segment) \in Nat /\ (segment' = segment \/ Len(segment') = 0)
    BY <1>2, Typed, LenProperties, EmptySeq
  <2> QED
    BY <2>1 DEF Sent
<1>3. Send \/ segment' = segment \/ segment' = <<>>
  <2>1. CASE UNCHANGED vars \/ Read \/ Fails \/ Wait
    BY <2>1 DEF vars, main, Read, Fails, Wait
  <2>2. CASE Capture
    BY <2>2 DEF Capture, Cut, Check, Overflow, Store, EndStep, EndsAfter, main
  <2>3. CASE Process
    BY <2>3 DEF Process, Start, Poll, CheckCommand, Idle, Rehash, Reopen,
                Empty, Return, main
  <2> QED
    BY <2>1, <2>2, <2>3 DEF Next
<1> QED
  BY <1>1, <1>2, <1>3

(* adintool sends the samples in the order of capture, through head margins, *)
(* swap buffers, rehashes, pauses and failures of the microphone (adin_cut,  *)
(* adin_thread_process), but for the last Overlap of them, which it may send *)
(* again; whatever ad_read() returns, none and less than a step included.    *)
THEOREM OrderWithinOverlap == Spec => SentInOrder
<1>1. Init => IInv /\ OInv
  BY InitIInv, InitOInv
<1>2. IInv /\ OInv /\ [Next]_vars => (IInv /\ OInv)'
  BY NextKeeps, NextOrder
<1>3. IInv /\ OInv /\ [Next]_vars => [Sent]_vars
  BY StepSendsInOrder
<1> QED
  BY <1>1, <1>2, <1>3, PTL DEF Spec, SentInOrder, Sent

LEMMA NoOverlap ==
  ASSUME (nc_max - TailSteps) * MinStep + 1 >= c_length
  PROVE  Overlap = 0
<1>1. TailSteps \in Int /\ nc_max \in Int /\ c_length \in Nat \ {0} /\ MinStep \in Nat
  BY TailStepsAre, MinStepIs, Constants
<1>2. CASE nc_max > TailSteps
  BY <1>1, <1>2 DEF Overlap, KeptBack
<1>3. CASE ~(nc_max > TailSteps)
  <2>1. Least(nc_max - TailSteps) <= Least(0)
    BY <1>1, <1>3, LeastGrows
  <2>2. (nc_max - TailSteps) * MinStep <= 0
    BY <2>1, LeastAdd DEF Least
  <2> QED
    BY <1>1, <1>3, <2>2 DEF Overlap, KeptBack
<1> QED
  BY <1>2, <1>3

(* No sample is sent twice where a silence in the shortest steps outlasts   *)
(* the tail margin and the head margin, as with the margins of the client   *)
(* and reads of a whole chunk.                                               *)
COROLLARY NoneTwice ==
  ASSUME (nc_max - TailSteps) * MinStep + 1 >= c_length
  PROVE  Spec => [][\A i \in (Len(segment) + 1)..Len(segment') :
                      /\ segment'[i] > last
                      /\ \A j \in (Len(segment) + 1)..(i - 1) :
                           segment'[i] > segment'[j]]_vars
<1> DEFINE Once == \A i \in (Len(segment) + 1)..Len(segment') :
                     /\ segment'[i] > last
                     /\ \A j \in (Len(segment) + 1)..(i - 1) :
                          segment'[i] > segment'[j]
<1>1. Init => IInv /\ OInv
  BY InitIInv, InitOInv
<1>2. IInv /\ OInv /\ [Next]_vars => (IInv /\ OInv)'
  BY NextKeeps, NextOrder
<1>3. IInv /\ OInv /\ [Next]_vars => [Once]_vars
  <2> SUFFICES ASSUME IInv, OInv, [Next]_vars PROVE Once
    OBVIOUS
  <2>1. Sent /\ Overlap = 0
    BY StepSendsInOrder, NoOverlap
  <2>2. IInv'
    BY NextKeeps
  <2>3. /\ last \in Int /\ segment' \in Seq(Captures) /\ Len(segment') \in Nat
        /\ Len(segment) \in Nat
    BY <2>2, Typed, LenProperties DEF IInv, TypeOK
  <2>4. \A i \in 1..Len(segment') : segment'[i] \in Int
    BY <2>3, ElementOfSeq, Constants DEF Captures
  <2> SUFFICES ASSUME NEW i \in (Len(segment) + 1)..Len(segment')
               PROVE  /\ segment'[i] > last
                      /\ \A j \in (Len(segment) + 1)..(i - 1) :
                           segment'[i] > segment'[j]
    OBVIOUS
  <2>5. segment'[i] > last
    BY <2>1, <2>3, <2>4 DEF Sent
  <2>6. ASSUME NEW j \in (Len(segment) + 1)..(i - 1)
        PROVE  segment'[i] > segment'[j]
    <3>1. i \in 1..Len(segment') /\ j \in 1..Len(segment')
      BY <2>3
    <3>2. segment'[i] \in Int /\ segment'[j] \in Int
      BY <2>4, <3>1
    <3>3. segment'[i] > segment'[j] - 0
      BY <2>1 DEF Sent
    <3> QED
      BY <3>2, <3>3
  <2> QED
    BY <2>5, <2>6
<1> HIDE DEF Once
<1>4. Spec => [][Once]_vars
  BY <1>1, <1>2, <1>3, PTL DEF Spec
<1> QED
  BY <1>4 DEF Once

=============================================================================

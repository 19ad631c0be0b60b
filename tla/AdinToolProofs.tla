--------------------------- MODULE AdinToolProofs ---------------------------
(***************************************************************************)
(* The buffer that the two threads of adintool share, for every length of  *)
(* steps, reads, margins and buffer, and however many samples, commands    *)
(* and failures there are: what the main thread reads without the lock has *)
(* been stored, what the capture thread stores fits although it looked     *)
(* without the lock, and the buffer is emptied at the end of an utterance  *)
(* only when all of it was sent.                                            *)
(***************************************************************************)
EXTENDS AdinTool, SequenceTheorems, TLAPS

(* The step at hand has been read, and a silence has an end.               *)
StepInv ==
  /\ capture = "read" => heard - cut < chunk_size
  /\ capture = "cut" => cut + wstep <= heard
  /\ capture \in {"cut", "check", "store", "full"} => wstep > 0
  /\ capture \in {"read", "cut"} /\ speaking => nc < nc_max

(* The main thread can only make room.                                     *)
StoreInv ==
  /\ capture \in {"store", "full"} => pending # <<>>
  /\ Len(speech) <= MaxSpeech
  /\ capture = "store" => Len(speech) + Len(Head(pending)) <= MaxSpeech

(* The lengths of the main thread.                                         *)
Outside == {"start", "wait", "waitEnd", "reopen", "exit"}

LengthInv ==
  /\ prev_len <= Len(speech) /\ nowlen <= Len(speech)
  /\ process \notin Outside \cup {"poll"} => prev_len <= nowlen
  /\ process = "rehash" => prev_len < nowlen
  /\ process \in Outside => prev_len = 0 /\ nowlen = 0

(* Within adin_thread_process only the capture thread takes the transfer    *)
(* offline, for itself first; so nothing is stored after the length that    *)
(* the main thread reads together with it.                                  *)
OfflineInv ==
  /\ process \notin Outside /\ ~online => ~local /\ pending = <<>>
  /\ process \notin Outside \cup {"poll"} /\ offline
       => ~online /\ nowlen = Len(speech)
  /\ process = "clear" => offline /\ prev_len >= nowlen

IInv == TypeOK /\ StepInv /\ StoreInv /\ LengthInv /\ OfflineInv

-----------------------------------------------------------------------------
LEMMA Constants ==
  /\ MaxSamples \in Nat /\ MaxCommands \in Nat /\ MaxFailures \in Nat
  /\ RehashAt \in Nat
  /\ MinRead \in Nat /\ MaxRead \in Nat \ {0} /\ chunk_size \in Nat \ {0}
  /\ c_length \in Nat \ {0} /\ TailMargin \in Nat \ {0} /\ nc_max \in Nat \ {0}
  /\ nc_max >= 2 /\ MaxSpeech \in Nat \ {0} /\ chunk_size <= c_length
BY AdinToolAssumption

LEMMA SamplesAre ==
  ASSUME NEW from \in Nat \ {0}, NEW to \in 0..MaxSamples, from <= to + 1
  PROVE  /\ Samples(from, to) \in Seq(Captures)
         /\ Len(Samples(from, to)) = to + 1 - from
<1> DEFINE n == to + 1 - from
<1>1. n \in Nat /\ Samples(from, to) = [i \in 1..n |-> from + i - 1]
  BY Constants DEF Samples
<1>2. \A i \in 1..n : from + i - 1 \in Captures
  BY Constants DEF Captures
<1>3. [i \in 1..n |-> from + i - 1] \in Seq(Captures)
  BY <1>1, <1>2
<1>4. Len([i \in 1..n |-> from + i - 1]) = n
  BY <1>1, <1>3
<1> QED
  BY <1>1, <1>3, <1>4

LEMMA InitIInv == Init => IInv
<1> SUFFICES ASSUME Init PROVE IInv
  OBVIOUS
<1> USE Constants DEF Init
<1>1. <<>> \in Seq(Captures) /\ <<>> \in Seq(Seq(Captures))
      /\ Len(speech) = 0
  BY EmptySeq
<1>2. TypeOK
  <2>1. {swapbuf, speech, segment} \subseteq Seq(Captures)
        /\ pending \in Seq(Seq(Captures))
    BY <1>1
  <2>2. {prev_len, nowlen, stale} \subseteq 0..MaxSpeech
    OBVIOUS
  <2>3. /\ heard \in 0..MaxSamples /\ cut \in 0..heard /\ since \in 0..cut
        /\ wstep \in 0..chunk_size /\ nc \in 0..nc_max
        /\ rest_tail \in 0..TailMargin /\ last \in 0..MaxSamples
        /\ given \in 0..MaxCommands /\ failures \in 0..MaxFailures
    OBVIOUS
  <2> QED
    BY <2>1, <2>2, <2>3 DEF TypeOK
<1>3. StepInv /\ StoreInv /\ LengthInv /\ OfflineInv
  BY <1>1 DEF StepInv, StoreInv, LengthInv, OfflineInv, Outside
<1> QED
  BY <1>2, <1>3 DEF IInv

-----------------------------------------------------------------------------
(* The capture thread. *)

LEMMA ReadKeeps == IInv /\ Read => IInv'
<1> SUFFICES ASSUME IInv, Read PROVE IInv'
  OBVIOUS
<1> USE Constants DEF IInv, Read, shared, main, history
<1>1. TypeOK'
  BY DEF TypeOK, Captures
<1>2. StepInv'
  BY DEF TypeOK, StepInv
<1>3. StoreInv' /\ LengthInv'
  BY DEF StoreInv, LengthInv
<1>4. OfflineInv'
  BY DEF OfflineInv, TypeOK
<1> QED
  BY <1>1, <1>2, <1>3, <1>4

LEMMA CutKeeps == IInv /\ Cut => IInv'
<1> SUFFICES ASSUME IInv, Cut PROVE IInv'
  OBVIOUS
<1> USE Constants DEF IInv
<1>1. Step \in Seq(Captures) /\ head \in Seq(Captures)
  <2>1. cut \in Nat /\ wstep \in Nat \ {0} /\ cut + wstep <= heard
        /\ heard <= MaxSamples /\ wstep <= c_length /\ since \in Nat /\ since <= cut
        /\ wstep <= chunk_size /\ heard \in Nat
    BY DEF Cut, TypeOK, StepInv
  <2>2. Step \in Seq(Captures)
    <3>1. cut + 1 \in Nat \ {0} /\ cut + wstep \in 0..MaxSamples
          /\ cut + 1 <= cut + wstep + 1
      BY <2>1
    <3> QED
      BY <3>1, SamplesAre DEF Step
  <2>3. head \in Seq(Captures)
    <3> DEFINE from == cut + wstep - c_length
    <3>1. cut \in 0..MaxSamples
      BY <2>1
    <3>2. CASE from > since
      <4>1. from + 1 \in Nat \ {0} /\ from + 1 <= cut + 1
        BY <2>1, <3>2
      <4>2. Samples(from + 1, cut) \in Seq(Captures)
        BY <4>1, <3>1, SamplesAre
      <4> QED
        BY <3>2, <4>2 DEF head
    <3>3. CASE ~(from > since)
      <4>1. since + 1 \in Nat \ {0} /\ since + 1 <= cut + 1
        BY <2>1
      <4>2. Samples(since + 1, cut) \in Seq(Captures)
        BY <4>1, <3>1, SamplesAre
      <4> QED
        BY <3>3, <4>2 DEF head
    <3> QED
      BY <3>2, <3>3
  <2> QED
    BY <2>2, <2>3
<1>2. \A before \in Seq(Captures) : stores(before) \in Seq(Seq(Captures))
  BY <1>1 DEF stores
<1>3. /\ nc' \in 0..nc_max /\ speaking' \in BOOLEAN
      /\ rest_tail' \in 0..TailMargin /\ swapbuf' \in Seq(Captures)
      /\ pending' \in Seq(Seq(Captures))
      /\ ~local => pending' = <<>>
  <2>1. CASE Trigger
    BY <1>1, <1>2, <2>1, EmptySeq DEF Trigger, TypeOK, stores
  <2>2. CASE TrailingSilence
    <3>1. nc' \in 0..nc_max /\ speaking' \in BOOLEAN /\ rest_tail' \in 0..TailMargin
      BY <2>2 DEF TrailingSilence, TypeOK, StepInv, Cut
    <3>2. <<>> \in Seq(Captures) /\ swapbuf \in Seq(Captures)
      BY EmptySeq DEF TypeOK
    <3>3. (<<>> \o Step) \in Seq(Captures) /\ (swapbuf \o Step) \in Seq(Captures)
      BY <1>1, <3>2, ConcatProperties
    <3>4. swapbuf' \in Seq(Captures)
      BY <2>2, <3>2, <3>3 DEF TrailingSilence
    <3>5. pending' \in Seq(Seq(Captures)) /\ (~local => pending' = <<>>)
      BY <1>2, <2>2, <3>2, EmptySeq DEF TrailingSilence, stores
    <3> QED
      BY <3>1, <3>4, <3>5
  <2>3. CASE Silence
    BY <2>3, EmptySeq DEF Silence, TypeOK
  <2> QED
    BY <2>1, <2>2, <2>3 DEF Cut
<1>4. TypeOK'
  BY <1>3 DEF TypeOK, Cut, StepInv, shared, main, history, Captures
<1>5. StepInv' /\ StoreInv' /\ LengthInv'
  BY DEF StepInv, StoreInv, LengthInv, Cut, shared, main
<1>6. OfflineInv'
  BY <1>3 DEF OfflineInv, Cut, shared, main
<1> QED
  BY <1>4, <1>5, <1>6

LEMMA CheckKeeps == IInv /\ Check => IInv'
BY Constants DEF IInv, Check, TypeOK, StepInv, StoreInv, LengthInv, OfflineInv,
       detector, shared, main, history, Captures

(* What the rest of pending is. *)
LEMMA RestIs ==
  ASSUME pending \in Seq(Seq(Captures)), pending # <<>>
  PROVE  Head(pending) \in Seq(Captures) /\ Tail(pending) \in Seq(Seq(Captures))
BY HeadTailProperties

LEMMA OverflowKeeps == IInv /\ Overflow => IInv'
<1> SUFFICES ASSUME IInv, Overflow PROVE IInv'
  OBVIOUS
<1> USE Constants DEF IInv, Overflow, detector, main, history
<1>1. pending' \in Seq(Seq(Captures)) /\ pending # <<>>
  BY RestIs DEF TypeOK, StoreInv
<1>2. TypeOK'
  BY <1>1 DEF TypeOK, Captures
<1>3. StepInv' /\ StoreInv' /\ LengthInv'
  BY DEF StepInv, StoreInv, LengthInv
<1>4. OfflineInv'
  BY <1>1 DEF OfflineInv
<1> QED
  BY <1>2, <1>3, <1>4

LEMMA StoreKeeps == IInv /\ Store => IInv'
<1> SUFFICES ASSUME IInv, Store PROVE IInv'
  OBVIOUS
<1> USE Constants DEF IInv, Store, detector, main, history
<1>1. /\ pending' \in Seq(Seq(Captures)) /\ pending # <<>>
      /\ Head(pending) \in Seq(Captures) /\ speech \in Seq(Captures)
  BY RestIs DEF TypeOK, StoreInv
<1>2. /\ speech' \in Seq(Captures) /\ Len(speech) \in Nat
      /\ Len(Head(pending)) \in Nat
      /\ Len(speech') = Len(speech) + Len(Head(pending))
  BY <1>1, ConcatProperties, LenProperties
<1>3. TypeOK'
  BY <1>1, <1>2 DEF TypeOK, Captures
<1>4. StepInv' /\ StoreInv' /\ LengthInv'
  BY <1>2 DEF StepInv, StoreInv, LengthInv, TypeOK
<1>5. OfflineInv'
  BY <1>1 DEF OfflineInv
<1> QED
  BY <1>3, <1>4, <1>5

LEMMA EndStepKeeps == IInv /\ EndStep => IInv'
<1> SUFFICES ASSUME IInv, EndStep PROVE IInv'
  OBVIOUS
<1> USE Constants DEF IInv, EndStep, EndsAfter, main, history
<1>1. TypeOK'
  <2>1. swapbuf' \in Seq(Captures) /\ local' \in BOOLEAN /\ online' \in BOOLEAN
        /\ speaking' \in BOOLEAN
    BY EmptySeq DEF TypeOK
  <2>2. capture' \in {"read", "cut", "ended"}
    OBVIOUS
  <2> QED
    BY <2>1, <2>2 DEF TypeOK, Captures
<1>2. StepInv'
  <2>1. heard \in Nat /\ cut \in Nat /\ wstep \in Nat /\ wstep <= chunk_size
        /\ nc \in Nat /\ speaking \in BOOLEAN
    BY DEF TypeOK
  <2>2. capture' = "read" => heard - cut < chunk_size
    BY <2>1
  <2>3. capture' = "cut" => wstep > 0 /\ cut + wstep <= heard
    BY <2>1 DEF StepInv
  <2>4. speaking' => ~(nc >= nc_max)
    BY Zenon
  <2>5. speaking' => nc < nc_max
    BY <2>1, <2>4
  <2> QED
    BY <2>2, <2>3, <2>5 DEF StepInv
<1>3. StoreInv' /\ LengthInv'
  BY DEF StoreInv, LengthInv
<1>4. OfflineInv'
  BY DEF OfflineInv, TypeOK
<1> QED
  BY <1>1, <1>2, <1>3, <1>4

LEMMA FailsKeeps == IInv /\ Fails => IInv'
<1> SUFFICES ASSUME IInv, Fails PROVE IInv'
  OBVIOUS
<1> USE Constants DEF IInv, Fails, shared, main, history
<1>1. TypeOK'
  BY DEF TypeOK, StepInv, Captures
<1>2. StepInv'
  BY DEF TypeOK, StepInv
<1>3. StoreInv' /\ LengthInv'
  BY DEF StoreInv, LengthInv
<1>4. OfflineInv'
  BY DEF OfflineInv, TypeOK
<1> QED
  BY <1>1, <1>2, <1>3, <1>4

-----------------------------------------------------------------------------
(* The main thread. *)

LEMMA StartKeeps == IInv /\ Start => IInv'
<1> SUFFICES ASSUME IInv, Start PROVE IInv'
  OBVIOUS
<1> USE Constants DEF IInv, Start, thread, detector
<1>1. Len(speech) \in 0..MaxSpeech
  BY LenProperties DEF TypeOK, StoreInv
<1>2. TypeOK'
  BY <1>1 DEF TypeOK, Captures
<1>3. StepInv' /\ StoreInv' /\ LengthInv' /\ OfflineInv'
  BY <1>1 DEF StepInv, StoreInv, LengthInv, OfflineInv, Outside, TypeOK
<1> QED
  BY <1>2, <1>3

(* What the end of adin_thread_process leaves. *)
LEMMA Returned ==
  ASSUME TypeOK, NEW result \in Int, Return(result)
  PROVE  /\ process' \in Outside \ {"exit"} /\ prev_len' = 0 /\ nowlen' = 0
         /\ offline' = FALSE /\ segment' \in Seq(Captures) /\ stale' = 0
<1>1. segment' \in Seq(Captures)
  BY EmptySeq DEF Return, TypeOK
<1>2. process' \in Outside \ {"exit"}
  BY DEF Return, Outside
<1> QED
  BY <1>1, <1>2 DEF Return

LEMMA PollKeeps == IInv /\ Poll => IInv'
<1> SUFFICES ASSUME IInv, Poll PROVE IInv'
  OBVIOUS
<1> USE Constants DEF IInv, Poll, thread, detector, shared
<1>1. Len(speech) \in 0..MaxSpeech
  BY LenProperties DEF TypeOK, StoreInv
<1>2. CASE capture = "ended"
  <2>1. /\ process' \in Outside \ {"exit"} /\ prev_len' = 0 /\ nowlen' = 0
        /\ offline' = FALSE /\ segment' \in Seq(Captures) /\ stale' = 0
    <3>1. Return(0)
      BY <1>2
    <3>2. TypeOK /\ 0 \in Int
      OBVIOUS
    <3> HIDE DEF Poll, IInv
    <3> QED
      BY <3>1, <3>2, Returned
  <2>2. TypeOK'
    <3>1. {prev_len', nowlen', stale'} \subseteq 0..MaxSpeech
      BY <2>1
    <3>2. {swapbuf', speech', segment'} \subseteq Seq(Captures)
      BY <2>1 DEF TypeOK
    <3>3. process' \in {"start", "wait", "waitEnd", "reopen"}
      BY <2>1 DEF Outside
    <3> QED
      BY <2>1, <3>1, <3>2, <3>3 DEF TypeOK
  <2>3. StepInv' /\ StoreInv' /\ LengthInv' /\ OfflineInv'
    BY <1>1, <2>1 DEF StepInv, StoreInv, LengthInv, OfflineInv, Outside
  <2> QED
    BY <2>2, <2>3
<1>3. CASE capture # "ended"
  <2>1. TypeOK'
    BY <1>1, <1>3 DEF TypeOK, Captures
  <2>2. StepInv' /\ StoreInv'
    BY <1>3 DEF StepInv, StoreInv
  <2>3. LengthInv'
    BY <1>1, <1>3 DEF LengthInv, TypeOK, Outside
  <2>4. OfflineInv'
    BY <1>1, <1>3 DEF OfflineInv, TypeOK, Outside
  <2> QED
    BY <2>1, <2>2, <2>3, <2>4
<1> QED
  BY <1>2, <1>3

LEMMA EmptyKeeps ==
  ASSUME IInv, NEW at \in {"overflow", "drop", "clear"}, NEW result \in Int,
         Empty(at, result)
  PROVE  IInv'
<1> USE Constants DEF IInv, Empty, thread, detector
<1>1. /\ process' \in Outside \ {"exit"} /\ prev_len' = 0 /\ nowlen' = 0
      /\ offline' = FALSE /\ segment' \in Seq(Captures) /\ stale' = 0
  BY Returned
<1>2. speech' \in Seq(Captures) /\ Len(speech') = 0
  BY EmptySeq
<1>3. online' \in BOOLEAN
  BY DEF TypeOK
<1>4. TypeOK'
  <2>1. {prev_len', nowlen', stale'} \subseteq 0..MaxSpeech
    BY <1>1
  <2>2. {swapbuf', speech', segment'} \subseteq Seq(Captures)
    BY <1>1, <1>2 DEF TypeOK
  <2>3. process' \in {"start", "wait", "waitEnd", "reopen"}
    BY <1>1 DEF Outside
  <2> QED
    BY <1>1, <1>3, <2>1, <2>2, <2>3 DEF TypeOK
<1>5. StoreInv'
  <2>1. capture = "store" =>
          pending \in Seq(Seq(Captures)) /\ pending # <<>>
    BY DEF TypeOK, StoreInv
  <2>2. capture = "store" =>
          Len(Head(pending)) <= MaxSpeech
    <3> SUFFICES ASSUME capture = "store" PROVE Len(Head(pending)) <= MaxSpeech
      OBVIOUS
    <3>1. Head(pending) \in Seq(Captures) /\ speech \in Seq(Captures)
      BY <2>1, RestIs DEF TypeOK
    <3>2. Len(Head(pending)) \in Nat /\ Len(speech) \in Nat
      BY <3>1, LenProperties
    <3> QED
      BY <3>2 DEF StoreInv
  <2>3. capture = "store" => Len(Head(pending)) \in Nat
    BY <2>1, RestIs, LenProperties
  <2> QED
    BY <1>2, <2>2, <2>3 DEF StoreInv
<1>6. StepInv' /\ LengthInv' /\ OfflineInv'
  BY <1>1, <1>2 DEF StepInv, LengthInv, OfflineInv, Outside
<1> QED
  BY <1>4, <1>5, <1>6

LEMMA CheckCommandKeeps == IInv /\ CheckCommand => IInv'
<1> SUFFICES ASSUME IInv, CheckCommand PROVE IInv'
  OBVIOUS
<1> USE Constants DEF IInv, CheckCommand, thread, detector, shared
<1> USE DEF Told
<1>1. given' \in 0..MaxCommands
  BY DEF TypeOK
<1>2. stop_at_next' \in BOOLEAN
  BY DEF TypeOK
<1>3. process' \in {"process", "drop"}
  OBVIOUS
<1>4. TypeOK'
  BY <1>1, <1>2, <1>3 DEF TypeOK, Captures
<1>5. StepInv' /\ StoreInv' /\ LengthInv' /\ OfflineInv'
  BY <1>3 DEF StepInv, StoreInv, LengthInv, OfflineInv, Outside
<1> QED
  BY <1>4, <1>5

LEMMA SendKeeps == IInv /\ Send => IInv'
<1> SUFFICES ASSUME IInv, Send PROVE IInv'
  OBVIOUS
<1> USE Constants DEF IInv, Send, thread, detector, shared
<1>1. /\ speech \in Seq(Captures) /\ segment \in Seq(Captures)
      /\ prev_len \in Nat /\ nowlen \in Nat /\ prev_len < nowlen
      /\ Len(speech) \in Nat /\ nowlen <= Len(speech)
  BY LenProperties DEF TypeOK, LengthInv
<1>2. \A i \in 1..Len(speech) : speech[i] \in Captures
  BY <1>1, ElementOfSeq
<1>3. SubSeq(speech, prev_len + 1, nowlen) \in Seq(Captures)
  <2>1. \A i \in (prev_len + 1)..nowlen : speech[i] \in Captures
    BY <1>1, <1>2
  <2> QED
    BY <1>1, <2>1, SubSeqProperties
<1>4. segment' \in Seq(Captures)
  BY <1>1, <1>3, ConcatProperties
<1>5. last' \in 0..MaxSamples
  <2>1. last' \in {last} \cup {speech[i] : i \in (prev_len + 1)..nowlen}
    OBVIOUS
  <2>2. last \in 0..MaxSamples
    BY DEF TypeOK
  <2>3. ASSUME NEW i \in (prev_len + 1)..nowlen PROVE speech[i] \in 0..MaxSamples
    <3>1. i \in 1..Len(speech)
      BY <1>1
    <3>2. speech[i] \in Captures
      BY <1>2, <3>1
    <3> QED
      BY <3>2 DEF Captures
  <2> QED
    BY <2>1, <2>2, <2>3
<1>6. process' \in {"rehash", "poll"}
  OBVIOUS
<1>7. TypeOK'
  <2>1. {swapbuf', speech', segment'} \subseteq Seq(Captures)
    BY <1>4 DEF TypeOK
  <2>2. {prev_len', nowlen', stale'} \subseteq 0..MaxSpeech
    BY <1>1 DEF TypeOK
  <2> QED
    BY <1>5, <1>6, <2>1, <2>2 DEF TypeOK
<1>8. StepInv' /\ StoreInv'
  BY DEF StepInv, StoreInv
<1>9. LengthInv' /\ OfflineInv'
  BY <1>1, <1>6 DEF LengthInv, OfflineInv, Outside
<1> QED
  BY <1>7, <1>8, <1>9

LEMMA IdleKeeps == IInv /\ Idle => IInv'
BY Constants DEF IInv, Idle, TypeOK, StepInv, StoreInv, LengthInv, OfflineInv,
       thread, detector, shared, history, Outside

LEMMA RehashKeeps == IInv /\ Rehash => IInv'
<1> SUFFICES ASSUME IInv, Rehash PROVE IInv'
  OBVIOUS
<1> USE Constants DEF IInv, Rehash, thread, detector, history
<1>1. /\ speech \in Seq(Captures) /\ prev_len \in Nat /\ nowlen \in Nat
      /\ prev_len < nowlen /\ Len(speech) \in Nat /\ nowlen <= Len(speech)
  BY LenProperties DEF TypeOK, LengthInv
<1>2. \A i \in (prev_len + 1)..Len(speech) : speech[i] \in Captures
  BY <1>1, ElementOfSeq
<1>3. speech' \in Seq(Captures) /\ Len(speech') = Len(speech) - prev_len
  BY <1>1, <1>2, SubSeqProperties
<1>4. nowlen' \in 0..Len(speech') /\ prev_len' = nowlen'
  BY <1>1, <1>3
<1>5. TypeOK'
  <2>1. {swapbuf', speech', segment'} \subseteq Seq(Captures)
    BY <1>3 DEF TypeOK
  <2>2. {prev_len', nowlen', stale'} \subseteq 0..MaxSpeech
    BY <1>1, <1>3, <1>4 DEF TypeOK, StoreInv
  <2> QED
    BY <2>1, <2>2 DEF TypeOK
<1>6. StoreInv'
  <2>1. capture = "store" => Len(Head(pending)) \in Nat
    BY RestIs, LenProperties DEF TypeOK, StoreInv
  <2> QED
    BY <1>1, <1>3, <2>1 DEF StoreInv
<1>7. StepInv' /\ LengthInv' /\ OfflineInv'
  BY <1>1, <1>3, <1>4 DEF StepInv, LengthInv, OfflineInv, Outside
<1> QED
  BY <1>5, <1>6, <1>7

LEMMA WaitKeeps == IInv /\ Wait => IInv'
<1> SUFFICES ASSUME IInv, Wait PROVE IInv'
  OBVIOUS
<1> USE Constants DEF IInv, Wait, thread, detector, shared
<1> USE DEF Told
<1>1. given' \in 0..MaxCommands
  BY DEF TypeOK
<1>2. process' \in {"wait", "waitEnd", "start", "reopen"}
  OBVIOUS
<1>3. TypeOK'
  BY <1>1, <1>2 DEF TypeOK
<1>4. StepInv' /\ StoreInv' /\ LengthInv' /\ OfflineInv'
  BY <1>2 DEF StepInv, StoreInv, LengthInv, OfflineInv, Outside
<1> QED
  BY <1>3, <1>4

LEMMA ReopenKeeps == IInv /\ Reopen => IInv'
<1> SUFFICES ASSUME IInv, Reopen PROVE IInv'
  OBVIOUS
<1> USE Constants DEF IInv, Reopen, history
<1>1. CASE process' = "exit"
  BY <1>1 DEF shared, TypeOK, StepInv, StoreInv, LengthInv, OfflineInv, Outside
<1>2. CASE process' = "start"
  <2>1. speech' = <<>> /\ Len(speech') = 0 /\ <<>> \in Seq(Captures)
    BY <1>2, EmptySeq
  <2>2. prev_len' = 0 /\ nowlen' = 0
    BY DEF LengthInv, Outside
  <2>3. TypeOK'
    <3>1. {swapbuf', speech', segment'} \subseteq Seq(Captures)
      BY <1>2, <2>1 DEF TypeOK
    <3>2. {prev_len', nowlen', stale'} \subseteq 0..MaxSpeech
      BY <2>2 DEF TypeOK
    <3>3. /\ heard' \in 0..MaxSamples /\ cut' \in 0..heard' /\ since' \in 0..cut'
          /\ nc' \in 0..nc_max /\ capture' = "read"
          /\ end_of_stream' = FALSE /\ speaking' = FALSE /\ online' = FALSE
          /\ overflowed' = FALSE
      BY <1>2 DEF TypeOK
    <3>4. UNCHANGED <<wstep, rest_tail, local, pending, offline, stop_at_next, last,
                      given, failures>>
      BY DEF history
    <3> QED
      BY <1>2, <3>1, <3>2, <3>3, <3>4 DEF TypeOK
  <2>4. StepInv' /\ StoreInv' /\ LengthInv' /\ OfflineInv'
    BY <1>2, <2>1, <2>2 DEF TypeOK, StepInv, StoreInv, LengthInv, OfflineInv, Outside
  <2> QED
    BY <2>3, <2>4
<1> QED
  BY <1>1, <1>2

-----------------------------------------------------------------------------
LEMMA NextKeeps == IInv /\ [Next]_vars => IInv'
<1> SUFFICES ASSUME IInv, [Next]_vars PROVE IInv'
  OBVIOUS
<1>1. CASE UNCHANGED vars
  BY <1>1 DEF IInv, TypeOK, StepInv, StoreInv, LengthInv, OfflineInv, vars,
              thread, detector, shared, main, history
<1>2. CASE Read \/ Capture \/ Fails
  BY <1>2, ReadKeeps, CutKeeps, CheckKeeps, OverflowKeeps, StoreKeeps,
     EndStepKeeps, FailsKeeps DEF Capture
<1>3. CASE Process
  <2>1. CASE Empty("overflow", 1) \/ Empty("drop", -2) \/ Empty("clear", 1)
    <3>1. -2 \in Int /\ 1 \in Int
      OBVIOUS
    <3> QED
      BY <2>1, <3>1, EmptyKeeps
  <2> QED
    BY <1>3, <2>1, StartKeeps, PollKeeps, CheckCommandKeeps, SendKeeps, IdleKeeps,
       RehashKeeps, ReopenKeeps DEF Process
<1>4. CASE Wait
  BY <1>4, WaitKeeps
<1> QED
  BY <1>1, <1>2, <1>3, <1>4 DEF Next

LEMMA Inductive == Spec => []IInv
BY InitIInv, NextKeeps, PTL DEF Spec

(* Every variable of AdinTool keeps its type; the counter of silent steps   *)
(* never passes nc_max and no sample is stored that was not captured.       *)
THEOREM AdinTypeCorrect == Spec => []TypeOK
<1>1. IInv => TypeOK
  BY DEF IInv
<1> QED
  BY <1>1, Inductive, PTL

(* The buffer of the two threads (adin_store_buffer, adin_thread_process):  *)
(* the room that is looked at without the lock is still there when the      *)
(* samples are stored, and the samples that are sent without the lock are.  *)
THEOREM BufferHoldsWhatIsRead == Spec => []ReadsStored
<1>1. IInv => ReadsStored
  BY DEF IInv, StoreInv, LengthInv, ReadsStored, InCall, Outside
<1> QED
  BY <1>1, Inductive, PTL

(* When the main thread empties the buffer at the end of an utterance       *)
(* (adin_thread_process, "reset storing buffer for next input"), it has sent *)
(* all of it: nothing is stored after the end, by nobody.                   *)
THEOREM UtteranceIsSentWhole == Spec => []NothingDropped
<1>1. IInv => NothingDropped
  <2> SUFFICES ASSUME IInv, process = "clear" PROVE prev_len = Len(speech)
    BY DEF NothingDropped
  <2>1. prev_len \in Nat /\ nowlen \in Nat /\ Len(speech) \in Nat
    BY Constants, LenProperties DEF IInv, TypeOK
  <2> QED
    BY <2>1 DEF IInv, LengthInv, OfflineInv, Outside
<1> QED
  BY <1>1, Inductive, PTL

=============================================================================

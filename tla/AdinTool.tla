------------------------------ MODULE AdinTool ------------------------------
(***************************************************************************)
(* adintool as the client starts it (handleAdinTool: microphone in, one    *)
(* adinnet server out).  A capture thread reads the microphone, looks for  *)
(* speech and stores it in a buffer (adin_cut, adin_store_buffer); the     *)
(* main thread passes the buffer on to the server, segment by segment      *)
(* (adin_thread_process, main), and obeys the server's commands.           *)
(*                                                                         *)
(* A sample is the number of its capture: 1, 2, ...  Whether a step of     *)
(* samples triggers is the speaker's choice.  The callback of adintool     *)
(* always returns 0, so that what adin_cut and adin_thread_process do on 1 *)
(* and -1 is left out.                                                     *)
(***************************************************************************)
EXTENDS Integers, Sequences

CONSTANTS
  MaxSamples,  \* bound: samples captured
  MinRead, MaxRead, \* how many samples one ad_read() returns; zeros that
               \* strip_zero takes away are not counted
  chunk_size,  \* the most that are looked at in one step
  c_length,    \* the cycle buffer: the head margin
  TailMargin,  \* sbsize - c_length: rest_tail at the start of a silence
  nc_max,      \* a silence of so many steps ends a segment
  MaxSpeech,   \* MAXSPEECHLEN
  RehashAt,    \* MAXSPEECHLEN - 16000
  MaxCommands, \* bound: commands of the server
  MaxFailures  \* bound: times the microphone fails

(* adin_setup_param: two steps are added to nc_max, and a chunk that is      *)
(* longer than the head margin is an error.                                  *)
ASSUME AdinToolAssumption ==
  /\ {MaxSamples, MaxCommands, MaxFailures, RehashAt, MinRead} \subseteq Nat
  /\ {MaxRead, chunk_size, c_length, TailMargin, nc_max, MaxSpeech}
       \subseteq Nat \ {0}
  /\ nc_max >= 2
  /\ chunk_size <= c_length

VARIABLES
  heard,       \* samples captured so far
  cut,         \* how many of them adin_cut has gone through
  since,       \* samples captured before the detector was reset
  wstep,       \* the length of a step
  end_of_stream, \* ad_read() has failed
  speaking,    \* is_valid_data
  nc,          \* steps of trailing silence
  rest_tail,   \* how many samples of it are still to be stored
  swapbuf,     \* those that are kept back
  local,       \* the thread's transfer_online_local
  pending,     \* what the thread still has to store of the current step
  capture,     \* the thread: "read", "cut", "check", "store", "full", "ended"
  speech,      \* speech[0..speechlen-1]
  online,      \* transfer_online
  overflowed,  \* adinthread_buffer_overflowed
  process,     \* the main thread: see Process
  prev_len, nowlen, \* what it has processed, and the length it last read
  offline,     \* its transfer_online_local, negated
  segment,     \* what was sent since the last end of segment
  stop_at_next,
  given,       \* commands of the server read so far (counts to MaxCommands)
  failures,    \* times the microphone failed
  last,        \* history: the newest sample sent
  stale        \* history: samples in the buffer when the segment began

detector == <<heard, cut, since, wstep, end_of_stream, speaking, nc, rest_tail, swapbuf>>
thread == <<detector, local, pending, capture>>
shared == <<speech, online, overflowed>>
main == <<process, prev_len, nowlen, offline, segment, stop_at_next>>
history == <<last, stale>>
vars == <<thread, shared, main, given, failures, history>>

-----------------------------------------------------------------------------
(* The capture thread. *)

(* ad_read() returns what there is.  That, with what the last read has left *)
(* over, is gone through in steps of chunk_size, or in one if it is less;   *)
(* the thread copies transfer_online once for all of it.                    *)
Read ==
  /\ capture = "read"
  /\ \E n \in MinRead..MaxRead :
       /\ heard + n <= MaxSamples
       /\ heard' = heard + n
  /\ heard' > cut
  /\ wstep' = IF chunk_size <= heard' - cut THEN chunk_size ELSE heard' - cut
  /\ local' = online
  /\ capture' = "cut"
  /\ UNCHANGED <<cut, since, end_of_stream, speaking, nc, rest_tail, swapbuf, pending,
                 shared, main, given, failures, history>>

Samples(from, to) == [i \in 1..(to + 1 - from) |-> from + i - 1]

Step == Samples(cut + 1, cut + wstep)

(* zc_copy_buffer: what the cycle buffer holds besides this step.           *)
head ==
  LET from == cut + wstep - c_length
  IN IF from > since THEN Samples(from + 1, cut) ELSE Samples(since + 1, cut)

(* The stores of a step and what comes before it, if anything does: none    *)
(* when the transfer is offline.                                            *)
stores(before) ==
  IF ~local THEN <<>> ELSE IF before = <<>> THEN <<Step>> ELSE <<before, Step>>

(* Mutant: what was kept back of a silence is dropped.                       *)
TriggerForgets ==
  /\ speaking' = TRUE
  /\ nc' = 0
  /\ swapbuf' = IF speaking /\ nc > 0 /\ local THEN <<>> ELSE swapbuf
  /\ pending' = stores(IF ~speaking THEN head ELSE <<>>)
  /\ UNCHANGED rest_tail

(* A step that triggers: the start of an utterance takes the head margin    *)
(* along, a return after some silence what was kept back of it.             *)
Trigger ==
  /\ speaking' = TRUE
  /\ nc' = 0
  /\ swapbuf' = IF speaking /\ nc > 0 /\ local THEN <<>> ELSE swapbuf
  /\ pending' = stores(IF ~speaking THEN head
                       ELSE IF nc > 0 THEN swapbuf ELSE <<>>)
  /\ UNCHANGED rest_tail

(* Mutant: the tail margin is not set.                                      *)
SilenceUnset ==
  LET swap == IF nc = 0 THEN <<>> ELSE swapbuf
  IN /\ speaking
     /\ nc' = nc + 1
     /\ swapbuf' = IF rest_tail = 0 THEN swap \o Step ELSE swap
     /\ rest_tail' = IF rest_tail < wstep THEN 0 ELSE rest_tail - wstep
     /\ pending' = IF rest_tail = 0 THEN <<>> ELSE stores(<<>>)
     /\ UNCHANGED speaking

(* A step that does not, after some that did: the tail margin is stored,    *)
(* and what comes after it is kept back.                                    *)
TrailingSilence ==
  LET rest == IF nc = 0 THEN TailMargin ELSE rest_tail
      swap == IF nc = 0 THEN <<>> ELSE swapbuf
  IN /\ speaking
     /\ nc' = nc + 1
     /\ rest_tail' = IF rest < wstep THEN 0 ELSE rest - wstep
     /\ swapbuf' = IF rest = 0 THEN swap \o Step ELSE swap
     /\ pending' = IF rest = 0 THEN <<>> ELSE stores(<<>>)
     /\ UNCHANGED speaking

Silence ==
  /\ ~speaking
  /\ pending' = <<>>
  /\ UNCHANGED <<speaking, nc, rest_tail, swapbuf>>

Cut ==
  /\ capture = "cut"
  /\ cut' = cut + wstep
  /\ Trigger \/ TrailingSilence \/ Silence
  /\ capture' = "check"
  /\ UNCHANGED <<heard, since, wstep, end_of_stream, local, shared, main, given,
                 failures, history>>

(* Mutant: room for one sample is looked for, however many are stored.       *)
CheckOne ==
  /\ capture = "check" /\ pending # <<>>
  /\ capture' = IF Len(speech) + 1 > MaxSpeech THEN "full" ELSE "store"
  /\ UNCHANGED <<detector, local, pending, shared, main, given, failures, history>>

(* adin_store_buffer: whether there is room is decided before the lock.     *)
Check ==
  /\ capture = "check" /\ pending # <<>>
  /\ capture' = IF Len(speech) + Len(Head(pending)) > MaxSpeech
                THEN "full" ELSE "store"
  /\ UNCHANGED <<detector, local, pending, shared, main, given, failures, history>>

Overflow ==
  /\ capture = "full"
  /\ overflowed' = TRUE
  /\ pending' = Tail(pending)
  /\ capture' = "check"
  /\ UNCHANGED <<detector, local, speech, online, main, given, failures, history>>

Store ==
  /\ capture = "store"
  /\ speech' = speech \o Head(pending)
  /\ pending' = Tail(pending)
  /\ capture' = "check"
  /\ UNCHANGED <<detector, local, online, overflowed, main, given, failures, history>>

(* The end of a step, and of an utterance after so much silence: the        *)
(* transfer ends, for the main thread and for the rest of this read.        *)
EndsAfter(max, others) ==
  /\ capture = "check" /\ pending = <<>>
  /\ LET over == speaking /\ nc >= max
     IN /\ speaking' = (speaking /\ ~over)
        /\ swapbuf' = IF over THEN <<>> ELSE swapbuf
        /\ online' = (online /\ ~(over /\ others))
        /\ local' = (local /\ ~over)
  /\ capture' = CASE cut + wstep <= heard -> "cut"
                  [] end_of_stream -> "ended"
                  [] OTHER -> "read"
  /\ UNCHANGED <<heard, cut, since, wstep, end_of_stream, nc, rest_tail,
                 pending, speech, overflowed, main, given, failures, history>>

(* Mutants: one step later, or sooner; the main thread is not told.         *)
EndStepLate == EndsAfter(nc_max + 1, TRUE)
EndStepSooner == EndsAfter(nc_max - 1, TRUE)
EndStepUntold == EndsAfter(nc_max, FALSE)

EndStep == EndsAfter(nc_max, TRUE)

(* The microphone fails: what is left of the last read is one more step,    *)
(* then adin_cut returns and the thread ends.                               *)
Fails ==
  /\ capture = "read"
  /\ failures < MaxFailures
  /\ failures' = failures + 1
  /\ end_of_stream' = TRUE
  /\ IF cut = heard
     THEN capture' = "ended" /\ UNCHANGED <<wstep, local>>
     ELSE capture' = "cut" /\ wstep' = heard - cut /\ local' = online
  /\ UNCHANGED <<heard, cut, since, speaking, nc, rest_tail, swapbuf,
                 pending, shared, main, given, history>>

-----------------------------------------------------------------------------
(* The main thread. *)

(* The start of adin_thread_process. *)
Start ==
  /\ process = "start"
  /\ process' = "poll"
  /\ online' = TRUE /\ overflowed' = FALSE
  /\ stop_at_next' = FALSE
  /\ stale' = Len(speech)
  /\ UNCHANGED <<thread, speech, prev_len, nowlen, offline, segment, given,
                 failures, last>>

(* The end of adin_thread_process, whose locals go, and of the segment.     *)
Return(result) ==
  /\ prev_len' = 0 /\ nowlen' = 0 /\ offline' = FALSE
  /\ segment' = IF result >= 0 \/ stop_at_next THEN <<>> ELSE segment
  /\ process' = CASE stop_at_next -> IF result = 0 THEN "waitEnd" ELSE "wait"
                  [] OTHER -> IF result = 0 THEN "reopen" ELSE "start"
  /\ stale' = 0

Poll ==
  /\ process = "poll"
  /\ IF capture = "ended"
     THEN Return(0)
     ELSE /\ nowlen' = Len(speech)
          /\ offline' = ~online
          /\ process' = IF overflowed THEN "overflow" ELSE "command"
          /\ UNCHANGED <<prev_len, segment, stale>>
  /\ UNCHANGED <<thread, shared, stop_at_next, given, failures, last>>

(* The branch of the overflow, of a command, and of the end of the          *)
(* transfer: each empties the buffer.                                       *)
Empty(at, result) ==
  /\ process = at
  /\ speech' = <<>>
  /\ online' = (at = "clear" /\ online)
  /\ Return(result)
  /\ UNCHANGED <<thread, overflowed, stop_at_next, given, failures, last>>

(* The server at the other end says "pause", "resume" or "terminate"; when  *)
(* it said so cannot be told before it is read.                             *)
Told(com) ==
  /\ given < MaxCommands
  /\ given' = given + 1
  /\ com \in {"pause", "resume", "terminate"}

(* adinnet_check_command. *)
CheckCommand ==
  /\ process = "command"
  /\ \/ process' = "process" /\ UNCHANGED <<stop_at_next, given>>
     \/ Told("resume") /\ process' = "process" /\ UNCHANGED stop_at_next
     \/ /\ Told("pause")
        /\ stop_at_next' = TRUE
        /\ process' = IF nowlen = 0 THEN "drop" ELSE "process"
     \/ Told("terminate") /\ stop_at_next' = TRUE /\ process' = "drop"
  /\ UNCHANGED <<thread, shared, prev_len, nowlen, offline, segment,
                 failures, last, stale>>

(* New samples are sent, without the lock; else the end of the transfer is  *)
(* the end of the segment.                                                  *)
Send ==
  /\ process = "process" /\ prev_len < nowlen
  /\ segment' = segment \o SubSeq(speech, prev_len + 1, nowlen)
  /\ LET sent == {last} \cup {speech[i] : i \in (prev_len + 1)..nowlen}
     IN last' \in sent /\ \A x \in sent : x <= last'
  /\ IF Len(speech) > RehashAt
     THEN process' = "rehash" /\ UNCHANGED prev_len
     ELSE process' = "poll" /\ prev_len' = nowlen
  /\ UNCHANGED <<thread, shared, nowlen, offline, stop_at_next, given,
                 failures, stale>>

(* Mutant: the flag is read again, the length is not.                       *)
IdleLooksAgain ==
  /\ process = "process" /\ prev_len >= nowlen
  /\ process' = IF ~online THEN "clear" ELSE "poll"
  /\ UNCHANGED <<thread, shared, prev_len, nowlen, offline, segment,
                 stop_at_next, given, failures, history>>

Idle ==
  /\ process = "process" /\ prev_len >= nowlen
  /\ process' = IF offline THEN "clear" ELSE "poll"
  /\ UNCHANGED <<thread, shared, prev_len, nowlen, offline, segment,
                 stop_at_next, given, failures, history>>

(* What was sent before the last time leaves the buffer.                    *)
Rehash ==
  /\ process = "rehash"
  /\ speech' = SubSeq(speech, prev_len + 1, Len(speech))
  /\ nowlen' = nowlen - prev_len
  /\ prev_len' = nowlen'
  /\ process' = "poll"
  /\ UNCHANGED <<thread, online, overflowed, offline, segment, stop_at_next,
                 given, failures, history>>

(* adinnet_wait_command, for one server: whatever else it says is ignored.  *)
Wait ==
  /\ \/ Told("resume") /\ process = "wait" /\ process' = "start"
     \/ Told("resume") /\ process = "waitEnd" /\ process' = "reopen"
     \/ /\ Told("pause") \/ Told("terminate")
        /\ process \in {"wait", "waitEnd"} /\ UNCHANGED process
  /\ UNCHANGED <<thread, shared, prev_len, nowlen, offline, segment,
                 stop_at_next, failures, last, stale>>

(* adin_end, j_open_stream: another thread, or adintool ends.               *)
Reopen ==
  /\ process = "reopen"
  /\ \/ /\ process' = "start"
        /\ capture' = "read"
        /\ since' = heard
        /\ cut' = heard
        /\ end_of_stream' = FALSE
        /\ speaking' = FALSE /\ nc' = 0 /\ swapbuf' = <<>>
        /\ speech' = <<>> /\ online' = FALSE /\ overflowed' = FALSE
     \/ /\ process' = "exit"
        /\ UNCHANGED <<capture, since, cut, end_of_stream, speaking, nc, swapbuf,
                       shared>>
  /\ UNCHANGED <<heard, wstep, rest_tail, local, pending, prev_len, nowlen,
                 offline, segment, stop_at_next, given, failures, history>>

Init ==
  /\ heard = 0 /\ cut = 0 /\ since = 0 /\ wstep = 0 /\ end_of_stream = FALSE
  /\ speaking = FALSE /\ nc = 0 /\ rest_tail = 0 /\ swapbuf = <<>>
  /\ local = FALSE /\ pending = <<>> /\ capture = "read"
  /\ speech = <<>> /\ online = FALSE /\ overflowed = FALSE
  /\ process = "start"
  /\ prev_len = 0 /\ nowlen = 0 /\ offline = FALSE
  /\ segment = <<>> /\ last = 0 /\ stop_at_next = FALSE
  /\ given = 0 /\ failures = 0
  /\ stale = 0

Capture == Cut \/ Check \/ Overflow \/ Store \/ EndStep

Process ==
  \/ Start \/ Poll \/ CheckCommand \/ Send \/ Idle \/ Rehash \/ Reopen
  \/ Empty("overflow", 1) \/ Empty("drop", -2) \/ Empty("clear", 1)

Next == Read \/ Capture \/ Fails \/ Process \/ Wait

Spec == Init /\ [][Next]_vars

(* Both threads run, and the server takes what is sent; it need not resume.  *)
FairSpec == Spec /\ WF_vars(Capture) /\ WF_vars(Process)

-----------------------------------------------------------------------------
Captures == 1..MaxSamples

(* Every variable keeps its type. *)
TypeOK ==
  /\ heard \in 0..MaxSamples /\ cut \in 0..heard /\ since \in 0..cut
  /\ wstep \in 0..chunk_size
  /\ end_of_stream \in BOOLEAN /\ speaking \in BOOLEAN /\ local \in BOOLEAN /\ online \in BOOLEAN
  /\ nc \in 0..nc_max /\ rest_tail \in 0..TailMargin
  /\ {swapbuf, speech, segment} \subseteq Seq(Captures)
  /\ pending \in Seq(Seq(Captures))
  /\ capture \in {"read", "cut", "check", "store", "full", "ended"}
  /\ overflowed \in BOOLEAN /\ offline \in BOOLEAN /\ stop_at_next \in BOOLEAN
  /\ process \in {"start", "poll", "overflow", "command", "drop", "process",
                  "rehash", "clear", "wait", "waitEnd", "reopen", "exit"}
  /\ {prev_len, nowlen, stale} \subseteq 0..MaxSpeech
  /\ last \in 0..MaxSamples
  /\ given \in 0..MaxCommands /\ failures \in 0..MaxFailures

InCall == process \in {"command", "drop", "process", "rehash", "clear"}

(* What the main thread reads without the lock has been stored, and no      *)
(* store leaves the buffer although its room was looked at without the lock.*)
ReadsStored ==
  /\ Len(speech) <= MaxSpeech
  /\ InCall => prev_len <= nowlen /\ nowlen <= Len(speech)

(* The buffer is emptied at the end of an utterance when all of it was sent.*)
NothingDropped == process = "clear" => prev_len = Len(speech)

(* A segment has no hole, except after samples that were in the buffer when *)
(* it began.                                                                *)
HolesWhereStale ==
  \A i \in 1..(Len(segment) - 1) :
    segment[i + 1] = segment[i] + 1 \/ i = stale

(* The swap buffer, of sbsize samples, holds all that a silence keeps back:  *)
(* adin_cut only logs when it does not, and copies all the same.            *)
SwapFits == Len(swapbuf) <= TailMargin + c_length

(* The shortest step of a silence.                                          *)
MinStep ==
  IF MinRead = 0 THEN 1 ELSE IF MinRead < chunk_size THEN MinRead ELSE chunk_size

(* In steps of that length, the tail margin; and of a silence that ends an  *)
(* utterance, what it has kept back after the tail margin.                  *)
TailSteps == (TailMargin + MinStep - 1) \div MinStep

KeptBack == IF nc_max > TailSteps THEN (nc_max - TailSteps) * MinStep ELSE 0

(* How far the head margin of an utterance that begins right after such a   *)
(* silence reaches back into what was stored of it, if its first step is of *)
(* one sample.                                                              *)
Overlap == IF KeptBack + 1 < c_length THEN c_length - 1 - KeptBack ELSE 0

(* However short the reads, and whatever margins overlap and buffers are    *)
(* moved: a sample that is sent is newer than all that were sent before it, *)
(* but for the last few, which the head margin may send again.  adin_cut    *)
(* counts a silence in steps and the margins in samples: where a silence in *)
(* the shortest steps outlasts both (Overlap = 0) no sample is sent twice.  *)
SentInOrder ==
  [][\A i \in (Len(segment) + 1)..Len(segment') :
       /\ segment'[i] > last - Overlap
       /\ \A j \in (Len(segment) + 1)..(i - 1) :
            segment'[i] > segment'[j] - Overlap]_vars

(* The server is told the end of what it was sent once nobody speaks any    *)
(* more, or the microphone has failed.                                      *)
SegmentsClosed ==
  (segment # <<>> /\ stale = 0 /\ (~speaking \/ capture = "ended"))
    ~> segment = <<>>

=============================================================================

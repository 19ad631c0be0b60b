---------------------------- MODULE StreamClient ----------------------------
(***************************************************************************)
(* The command-line player tests/stream_client.c with the C library that   *)
(* it uses (streaming/).  A person types lines; the first letter says what *)
(* is to be done to the one pipeline of the program, which changes state   *)
(* in its own time.                                                        *)
(*                                                                         *)
(* A second thread runs the GLib main loop; all it does is to call         *)
(* stream_end(), which prints a line.  A seek ('k') moves nothing that is  *)
(* kept here, 'f', 'b' and any other letter do nothing.                    *)
(***************************************************************************)
EXTENDS Volume

CONSTANTS
  Uris,      \* what can be played, or tried
  Playable,  \* those of which the pipeline makes music
  Silent,    \* those it can open, and of which no sound ever comes
  NoUri,     \* no source
  Garbled,   \* a URI with the rest of an older line after it, or cut short
  Lines,     \* what is typed: command, argument, length with the newline
  Longest,   \* the length of the longest of them: a line that fills buf, of
             \* which strlen finds no end, is left out
  Absent,    \* no argument
  Numbers,   \* the numbers that %d may find in the rest of an older line
  MaxErrors  \* bound: reads that fail

Commands == {"p", "s", "v", "f", "k", "n"}

ASSUME StreamClientAssumption ==
  /\ Playable \subseteq Uris
  /\ Silent \subseteq Uris \ Playable
  /\ NoUri \notin Uris /\ Garbled \in Uris
  /\ Absent \notin Uris /\ Absent \notin Int
  /\ Numbers \subseteq Int
  /\ Lines \subseteq [cmd : Commands, arg : Uris \cup Int \cup {Absent},
                      length : 1..Longest]
  /\ Longest \in 1..255
  /\ \A l \in Lines :
       /\ l.cmd = "n" => l.arg \in Uris \cup {Absent}
       /\ l.cmd = "v" => l.arg \in Int \cup {Absent}
  /\ MaxErrors \in Nat

VARIABLES
  main,    \* where the main thread is
  state,   \* "non-zero = playing, 0 = paused"
  held,    \* strlen(buf) after the last line
  line,    \* the line that buf begins with
  pipe,    \* the pipeline: target, current state, what it plays, failed
  uri,     \* the property "uri" of the source
  next,    \* the argument of music_play_song()
  volume,  \* of the volume element, in hundredths
  errors,  \* reads that failed (counts to MaxErrors)
  again    \* history: reads of this line in a row (counts to Longest)

vars == <<main, state, held, line, pipe, uri, next, volume, errors, again>>

-----------------------------------------------------------------------------
(* The pipeline, as the library uses GStreamer. *)

Stopped == [target |-> "NULL", current |-> "NULL", source |-> NoUri,
            failed |-> FALSE]

(* gst_element_get_state() does not say ASYNC. *)
Settled == pipe.current = pipe.target \/ pipe.failed

(* gst_element_set_state().  Down to NULL at once; from there to READY at   *)
(* once and on in its own time.  The source is opened for the URI that it   *)
(* has when the pipeline leaves READY, which after a failure it does again. *)
SetState(s) ==
  pipe' = IF s = "NULL" THEN Stopped
          ELSE [target  |-> s,
                current |-> IF pipe.current = "NULL" THEN "READY"
                            ELSE pipe.current,
                source  |-> IF pipe.current = "NULL" \/ pipe.failed THEN uri
                            ELSE pipe.source,
                failed  |-> FALSE]

(* The pipeline arrives, or gives up. *)
Settle ==
  /\ ~Settled
  /\ pipe.source \notin Silent
  /\ pipe' = IF pipe.source \in Playable
             THEN [pipe EXCEPT !.current = pipe.target]
             ELSE [pipe EXCEPT !.failed = TRUE]
  /\ UNCHANGED <<main, state, held, line, uri, next, volume, errors, again>>

-----------------------------------------------------------------------------
(* music_play_song(), then music_set_state(). *)

(* Mutants: nobody waits; an error is not waited for as an end. *)
NoWait == TRUE

AwaitState == pipe.current = pipe.target

Awaited == Settled

(* Mutant: a paused song is not stopped. *)
Sounds == pipe.current = "PLAYING"

InTheWay == pipe.current \in {"PLAYING", "PAUSED"}

music_play_song ==
  /\ main = "playSong"
  /\ Awaited
  /\ IF InTheWay THEN SetState("NULL") ELSE UNCHANGED pipe
  /\ uri' = next
  /\ main' = "setState"
  /\ UNCHANGED <<state, held, line, next, volume, errors, again>>

music_set_state ==
  /\ main = "setState"
  /\ SetState("PLAYING")
  /\ main' = "prompt"
  /\ UNCHANGED <<state, held, line, uri, next, volume, errors, again>>

-----------------------------------------------------------------------------
(* What buf holds.  read() ends no string, so a line that is shorter than   *)
(* the one before is followed by the tail of it; and it is the last byte of *)
(* the whole that is cut, not the newline.  Bytes from held on are zero.    *)

(* A line replaces all of the old one ("whole"), or the beginning ("tail"). *)
How(l) == IF held <= l.length THEN "whole" ELSE "tail"

(* Mutant: what is there is not cut. *)
uncut(n) == n

cut(n) == n - 1

strlen(l) == IF held <= l.length THEN l.length ELSE held

(* sscanf(buf, "%s %d"): a number after the letter, in this line or after   *)
(* its end; when the line was cut ("cut") the number may be what is left.   *)
sscanf(l, how) ==
  IF how = "whole" \/ (how = "tail" /\ l.arg # Absent) THEN {l.arg}
  ELSE Numbers \cup {l.arg, Absent}

(* strstr(buf, " ") + 1: all that follows the first blank. *)
strstr(l, how) ==
  CASE how = "whole" -> {l.arg}
    [] how = "tail" /\ l.arg # Absent -> {Garbled}
    [] OTHER -> {Garbled, l.arg, Absent}

-----------------------------------------------------------------------------
(* The commands. *)

(* Mutant: the flag is what was asked for, whatever it was. *)
setFlag == state' = 1

toggle == state' = 1 - state

PausePlay ==
  /\ SetState(IF state = 1 THEN "PAUSED" ELSE "PLAYING")
  /\ toggle
  /\ main' = "prompt"
  /\ UNCHANGED <<uri, next, volume>>

Stop ==
  /\ main' = "exited"
  /\ UNCHANGED <<state, pipe, uri, next, volume>>

(* Mutant: no range. *)
AnyNumber(v) == IF v # Absent THEN volume' = v ELSE UNCHANGED volume

music_set_volume(v) ==
  IF v # Absent /\ v \in Volumes THEN volume' = v ELSE UNCHANGED volume

SetVolume(l, how) ==
  /\ \E v \in sscanf(l, how) : music_set_volume(v)
  /\ main' = "prompt"
  /\ UNCHANGED <<state, pipe, uri, next>>

(* NULL + 1 goes to printf(), which reads it. *)
NextSong(l, how) ==
  /\ \E u \in strstr(l, how) :
       IF u = Absent THEN main' = "crashed" /\ UNCHANGED next
       ELSE main' = "playSong" /\ next' = u
  /\ UNCHANGED <<state, pipe, uri, volume>>

Nothing ==
  /\ main' = "prompt"
  /\ UNCHANGED <<state, pipe, uri, next, volume>>

Obey(l, how) ==
  CASE l.cmd = "p" -> PausePlay
    [] l.cmd = "s" -> Stop
    [] l.cmd = "v" -> SetVolume(l, how)
    [] l.cmd = "n" -> NextSong(l, how)
    [] OTHER -> Nothing

(* A line is typed.  One of length 1 is empty: its only byte is cut. *)
ReadLine(l) ==
  /\ main = "prompt"
  /\ held' = cut(strlen(l))
  /\ line' = l
  /\ again' = CASE l # line -> 1
                [] l = line /\ again < Longest -> again + 1
                [] OTHER -> again
  /\ IF held' = 0 THEN Nothing ELSE Obey(l, How(l))
  /\ UNCHANGED errors

(* read() returns -1, which is not 0: the old line is cut and obeyed again; *)
(* when nothing is left to cut, the byte before buf is written.             *)
ReadFails ==
  /\ main = "prompt"
  /\ errors < MaxErrors
  /\ errors' = errors + 1
  /\ IF held = 0
     THEN /\ main' = "underflow"
          /\ UNCHANGED <<state, held, pipe, uri, next, volume>>
     ELSE /\ held' = cut(held)
          /\ IF held' = 0 THEN Nothing ELSE Obey(line, "cut")
  /\ UNCHANGED <<line, again>>

(* The end of the input: pthread_join() waits for a loop that nobody quits. *)
ReadEnd ==
  /\ main = "prompt"
  /\ main' = "join"
  /\ UNCHANGED <<state, held, line, pipe, uri, next, volume, errors, again>>

-----------------------------------------------------------------------------
Init ==
  /\ main = "playSong"
  /\ state = 1
  /\ held = 0
  /\ line \in Lines
  /\ pipe = Stopped
  /\ uri = NoUri
  /\ next \in Uris \ {Garbled}
  /\ volume = 20
  /\ errors = 0
  /\ again = 0

Next ==
  \/ Settle \/ music_play_song \/ music_set_state
  \/ ReadFails \/ ReadEnd
  \/ \E l \in Lines : ReadLine(l)

Spec == Init /\ [][Next]_vars

(* The pipeline and the main thread go on; nobody has to type. *)
FairSpec ==
  /\ Spec
  /\ WF_vars(Settle) /\ WF_vars(music_play_song) /\ WF_vars(music_set_state)

-----------------------------------------------------------------------------
States == {"NULL", "READY", "PAUSED", "PLAYING"}

(* Every variable keeps its type: the volume is always one that             *)
(* music_set_volume() accepts, and the buffer never longer than a line.     *)
TypeOK ==
  /\ main \in {"playSong", "setState", "prompt", "join", "exited", "crashed",
               "underflow"}
  /\ state \in {0, 1}
  /\ held \in 0..(Longest - 1)
  /\ line \in Lines
  /\ pipe \in [target : States, current : States, source : Uris \cup {NoUri},
               failed : BOOLEAN]
  /\ uri \in Uris \cup {NoUri}
  /\ next \in Uris
  /\ volume \in Volumes
  /\ errors \in 0..MaxErrors
  /\ again \in 0..Longest

(* While the flag says that music plays, the pipeline has been told to play *)
(* - whatever was typed, cut short or read twice: a 'p' that is answered    *)
(* "Pausing." never meets a song that is paused already.                    *)
FlagNeverAhead == main = "prompt" /\ state = 1 => pipe.target = "PLAYING"

(* At the prompt, what is heard, or paused, is the song that was last       *)
(* loaded: music_play_song() waits for a pipeline on its way, and stops one *)
(* that is not NULL, before it sets a URI that only a pipeline that starts  *)
(* takes notice of.                                                         *)
PlaysWhatWasLoaded ==
  main = "prompt" /\ pipe.current \in {"PAUSED", "PLAYING"} =>
    pipe.source = uri

(* Whatever volume is set, the present one included, it is read back as it  *)
(* is, but for three values that the truncation of music_get_volume() makes *)
(* one lower.                                                               *)
VolumeReadBack ==
  \A v \in Volumes \cup {volume} :
    readBack[v] = IF v \in {29, 57, 58} THEN v - 1 ELSE v

(* music_play_song()'s comment: it "will not return until either an error   *)
(* is encountered or the state of the pipeline settles" - and then it does, *)
(* and the prompt comes back; a source that does neither keeps it for ever. *)
PromptReturns ==
  main \in {"playSong", "setState"} ~>
    (main = "prompt" \/ (~Settled /\ pipe.source \in Silent))

(* Every line leaves one byte less of the older ones: whoever types a line *)
(* again is understood after as many times as it is shorter than the        *)
(* longest, however often a read fails in between.                          *)
Understood == again > 0 /\ again >= Longest - line.length => held < line.length

=============================================================================

-------------------------------- MODULE Sound --------------------------------
(***************************************************************************)
(* The sounds of Rare.dll.  The guest opens, plays, pauses, stops and      *)
(* resets sounds from the emulator thread; the callback of the host's      *)
(* audio stream mixes what plays, a buffer at a time, from a thread of its *)
(* own.  Both hold the lock of rare_sounds for what they do.               *)
(*                                                                         *)
(* A position counts quarters of the way from one frame of a wave to the   *)
(* next.  Volume, pan and the samples are left out, and so is the last     *)
(* error: a call on a pointer that is no sound changes nothing else.       *)
(***************************************************************************)
EXTENDS Integers, Sequences, FiniteSets, FiniteSetsExt, SequencesExt, Functions

CONSTANTS
  Pointers,     \* guest addresses of contexts and sounds
  Waves,        \* waves to open: frames, whether there is no sample at all, step at their rate
  Frequencies,  \* bound: arguments of SetFrequency, as steps; 0 stands for the wave's rate
  Buffers       \* bound: frames of the stream's buffers

\* A wave has a rate (decode_audio_bytes), and a step is at least a hundredth of a
\* frame (playback_step); a frequency is a number of 32 bits.
ASSUME SoundAssumption ==
  /\ Waves \subseteq [frames : Nat, empty : BOOLEAN, step : Nat \ {0}]
  /\ Frequencies \subseteq Nat /\ IsFiniteSet(Frequencies)
  /\ Buffers \subseteq Nat

VARIABLES
  contexts,  \* rare_contexts
  sounds,    \* rare_sounds
  engine,    \* rare_audio is there
  heard,     \* of every sound, the positions mixed since it last began at its start
  mixed      \* frames of the buffer mixed by the last step; 0 after a call

soundVars == <<contexts, sounds, engine, heard, mixed>>

Quarters == 4
Start == 0
NoPointer  == 0

Added(f, k, v)  == [x \in DOMAIN f \cup {k} |-> IF x = k THEN v ELSE f[x]]
Without(f, S) == Restrict(f, DOMAIN f \ S)

SoundInit ==
  /\ contexts = {}
  /\ sounds = <<>>
  /\ engine = FALSE
  /\ heard = <<>>
  /\ mixed = 0

----------------------------------------------------------------------------
(* Calls of the guest. *)

\* A block no object has; NoPointer when the guest's heap has none left.  The
\* blocks of closed sounds are never given back.
Unused(p) == p \notin contexts \cup DOMAIN sounds

\* The stream is built once.  Without an output device a later call tries again.
EnsureEngine == engine' \in {TRUE, engine}

CreateContext == \E p \in Pointers \cup {NoPointer} :
  /\ Unused(p)
  /\ contexts' = contexts \cup {p}
  /\ EnsureEngine
  /\ mixed' = 0
  /\ UNCHANGED <<sounds, heard>>

DestroyContext == \E c \in contexts \ {NoPointer} :
  LET owned == {s \in DOMAIN sounds : sounds[s].context = c}
  IN /\ contexts' = contexts \ {c}
     /\ sounds' = Without(sounds, owned)
     /\ heard' = Without(heard, owned)
     /\ mixed' = 0
     /\ UNCHANGED engine

\* Context NoPointer opens nothing; neither does a file that is missing or has another format.
OpenSound == \E c \in contexts \ {NoPointer}, p \in Pointers \cup {NoPointer}, w \in Waves :
  /\ Unused(p)
  /\ sounds' = Added(sounds, p,
       [context |-> c, wave |-> w, frequency |-> w.step, repeat |-> FALSE,
        playing |-> FALSE, paused |-> FALSE, position |-> Start])
  /\ heard' = Added(heard, p, <<>>)
  /\ mixed' = 0
  /\ UNCHANGED <<contexts, engine>>

CloseSound == \E s \in DOMAIN sounds \ {NoPointer} :
  /\ sounds' = Without(sounds, {s})
  /\ heard' = Without(heard, {s})
  /\ mixed' = 0
  /\ UNCHANGED <<contexts, engine>>

Play == \E s \in DOMAIN sounds :
  /\ EnsureEngine
  /\ sounds' = [sounds EXCEPT ![s].playing = TRUE, ![s].paused = FALSE]
  /\ mixed' = 0
  /\ UNCHANGED <<contexts, heard>>

Pause == \E s \in DOMAIN sounds :
  /\ sounds' = [sounds EXCEPT ![s].playing = FALSE, ![s].paused = TRUE]
  /\ mixed' = 0
  /\ UNCHANGED <<contexts, engine, heard>>

Stop == \E s \in DOMAIN sounds :
  /\ sounds' = [sounds EXCEPT ![s].playing = FALSE, ![s].paused = FALSE, ![s].position = Start]
  /\ heard' = [heard EXCEPT ![s] = <<>>]
  /\ mixed' = 0
  /\ UNCHANGED <<contexts, engine>>

Reset == \E s \in DOMAIN sounds :
  /\ sounds' = [sounds EXCEPT ![s].position = Start]
  /\ heard' = [heard EXCEPT ![s] = <<>>]
  /\ mixed' = 0
  /\ UNCHANGED <<contexts, engine>>

SetFrequency == \E s \in DOMAIN sounds, f \in Frequencies :
  /\ sounds' = [sounds EXCEPT ![s].frequency = f]
  /\ mixed' = 0
  /\ UNCHANGED <<contexts, engine, heard>>

SetRepeat == \E s \in DOMAIN sounds, r \in BOOLEAN :
  /\ sounds' = [sounds EXCEPT ![s].repeat = r]
  /\ mixed' = 0
  /\ UNCHANGED <<contexts, engine, heard>>

----------------------------------------------------------------------------
(* The callback. *)

Step(s) == IF s.frequency > 0 THEN s.frequency ELSE s.wave.step
Length(s) == Quarters * s.wave.frames

Silent(s) == ~s.playing \/ s.paused \/ s.wave.empty

\* mix_sound_into, for one frame of the buffer.  A sound that ends is set back
\* to its start, and the rest of the buffer is without it.
Frame(m) ==
  LET s == m.sound
      over == s.position >= Length(s)
      at == IF over THEN s.position % Length(s) ELSE s.position
  IN IF m.ended THEN m
     ELSE IF over /\ ~s.repeat
     THEN [m EXCEPT !.sound.playing = FALSE, !.sound.paused = FALSE,
                    !.sound.position = Start, !.ended = TRUE]
     ELSE [m EXCEPT !.sound.position = at + Step(s),
                    !.heard = IF over \/ at = Start THEN <<at>> ELSE Append(@, at)]
\* Mutant: a sound that repeats begins again at its first frame.
FrameFromStart(m) ==
  LET s == m.sound
  IN IF s.repeat /\ s.position >= Length(s)
     THEN Frame([m EXCEPT !.sound.position = Length(s)]) ELSE Frame(m)
MixFrame(m) == Frame(m)

\* The loop over n frames.
Frames(m, n) ==
  LET after[i \in 0 .. n] == IF i = 0 THEN m ELSE MixFrame(after[i - 1])
  IN after[n]

Whole(s, frames) ==
  LET m == [sound |-> sounds[s], heard |-> heard[s], ended |-> FALSE]
  IN IF Silent(sounds[s]) THEN m
     ELSE IF Length(sounds[s]) = 0 THEN [m EXCEPT !.sound.playing = FALSE]
     ELSE Frames(m, frames)
\* Mutant: the position is written back only when the sound ends.
KeepsPosition(s, frames) ==
  LET m == Whole(s, frames)
  IN IF m.ended THEN m ELSE [m EXCEPT !.sound.position = sounds[s].position]
Mixed(s, frames) == Whole(s, frames)

Mix == \E frames \in Buffers :
  /\ engine
  /\ sounds' = [s \in DOMAIN sounds |-> Mixed(s, frames).sound]
  /\ heard' = [s \in DOMAIN sounds |-> Mixed(s, frames).heard]
  /\ mixed' = frames
  /\ UNCHANGED <<contexts, engine>>

SoundNext ==
  \/ CreateContext \/ DestroyContext \/ OpenSound \/ CloseSound
  \/ Play \/ Pause \/ Stop \/ Reset \/ SetFrequency \/ SetRepeat \/ Mix

SoundSpec == SoundInit /\ [][SoundNext]_soundVars

----------------------------------------------------------------------------
(* Properties. *)

MaxStep(s) == Max(Frequencies \cup {sounds[s].wave.step})

\* Sounds belong to contexts that are there, and stop only a step after their end.
SoundTypeOK ==
  /\ DOMAIN heard = DOMAIN sounds
  /\ \A s \in DOMAIN sounds :
       /\ sounds[s].context \in contexts
       /\ sounds[s].position \in 0 .. Length(sounds[s]) + MaxStep(s)
       /\ ~(sounds[s].playing /\ sounds[s].paused)

\* Whatever the sizes of the stream's buffers, and however the guest pauses,
\* plays and changes the speed in between, a sound is heard from its beginning
\* without a repetition and without a gap longer than a step, and one that
\* ends by itself (it is back at its start, and was not sent there by Stop or
\* Reset) was heard up to its end.
HeardThrough ==
  /\ SoundTypeOK
  /\ \A s \in DOMAIN sounds :
       LET h == heard[s]
       IN h # <<>> =>
            /\ h[1] < MaxStep(s)
            /\ \A i \in 2 .. Len(h) : h[i] - h[i - 1] \in 1 .. MaxStep(s)
            /\ sounds[s].position = Start => Last(h) + MaxStep(s) >= Length(sounds[s])

\* A buffer of n frames takes a sound n steps further: the loop over the
\* frames, its wrapping and its end, against the sum.  A sound that repeats
\* keeps its beat over the wrap.
KeepsTime == \A s \in DOMAIN sounds :
  mixed' > 0 /\ ~Silent(sounds[s]) /\ sounds[s].wave.frames > 0 =>
    LET from == sounds[s].position
        to   == sounds'[s].position
        d    == Step(sounds[s])
        len  == Length(sounds[s])
    IN IF sounds[s].repeat
       THEN (from + (mixed' * d) - to) % len = 0 /\ to - d \in 0 .. len - 1
       ELSE IF from + ((mixed' - 1) * d) < len
            THEN to = from + (mixed' * d) /\ sounds'[s].playing
            ELSE to = Start /\ ~sounds'[s].playing
TimeIsKept == [][KeepsTime]_soundVars
=============================================================================

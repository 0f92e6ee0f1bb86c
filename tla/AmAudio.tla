------------------------------ MODULE AmAudio ------------------------------
(***************************************************************************)
(* Sound on NEMU: the abstract machine's driver (platform/nemu/ioe/        *)
(* audio.c) run by the guest, the device (nemu/src/device/audio.c), and    *)
(* SDL's own thread, which calls mycallback.  Device and callback share    *)
(* `front', `tail' and the sample buffer without a lock.  `tail' is a      *)
(* plain int the callback names three times (to test, to assign nread, to  *)
(* compare with front): a build loads it each time or keeps the first      *)
(* value, so the two later uses see either.                                *)
(*                                                                         *)
(* The guest plays the samples 1 .. Samples in calls of at most ChunkLen   *)
(* and then waits for the count to become 0, as the audio test does.       *)
(***************************************************************************)
EXTENDS Integers

CONSTANTS
  SB_SIZE,   \* CONFIG_SB_SIZE
  Samples,   \* bytes of the payload
  ChunkLen,  \* bytes per AM_AUDIO_PLAY
  CbLen      \* bytes SDL asks for at a time

ASSUME AudioAssumption == {SB_SIZE, Samples, ChunkLen, CbLen} \subseteq Nat \ {0}

VARIABLES
  sbuf, front, tail,  \* the device
  ptr, end,           \* the driver: next sample to write, end of this call
  count,              \* the driver's local
  guest,              \* "count", "write", "commit", "wait" or "done"
  sdl,                \* "idle", "copy", "test", "reset_tail" or "reset_front"
  seen,               \* the callback: tail as it was loaded first
  lastPlayed,         \* history: the sample played last
  stale,              \* history: a byte the guest never wrote was played
  glitch,             \* history: a sample was skipped or played again
  overrun,            \* history: memcpy wrote past the end of `stream'
  raced               \* history: an update of tail by the guest met one of the two races

device == <<sbuf, front, tail>>
driver == <<ptr, end, count, guest>>
heard == <<lastPlayed, stale, glitch, overrun, raced>>
audioVars == <<sbuf, front, tail, ptr, end, count, guest, sdl, seen, lastPlayed, stale,
               glitch, overrun, raced>>

Min2(a, b) == IF a < b THEN a ELSE b

AudioInit ==
  /\ sbuf = [k \in 0 .. SB_SIZE - 1 |-> 0]
  /\ front = 0 /\ tail = 0
  /\ ptr = 1 /\ end = Min2(ChunkLen, Samples) + 1
  /\ count = 0
  /\ guest = "count"
  /\ sdl = "idle" /\ seen = 0
  /\ lastPlayed = 0 /\ stale = FALSE /\ glitch = FALSE /\ overrun = FALSE /\ raced = FALSE

----------------------------------------------------------------------------
(* Guest: __am_audio_play.                                                 *)

(* inl(AUDIO_COUNT_ADDR): the handler returns tail.  A full buffer is      *)
(* polled.                                                                 *)
ReadCount ==
  /\ guest = "count"
  /\ count' = tail
  /\ guest' = IF tail = SB_SIZE THEN "count" ELSE "write"
  /\ UNCHANGED <<sbuf, front, tail, ptr, end, sdl, seen, heard>>

Fits(k) == k < SB_SIZE

(* outb(AUDIO_SBUF_ADDR + count, ...).                                     *)
WriteSample ==
  /\ guest = "write"
  /\ IF ptr < end /\ Fits(count)
     THEN /\ sbuf' = [sbuf EXCEPT ![count] = ptr]
          /\ ptr' = ptr + 1
          /\ count' = count + 1
          /\ UNCHANGED guest
     ELSE guest' = "commit" /\ UNCHANGED <<sbuf, ptr, count>>
  /\ UNCHANGED <<front, tail, end, sdl, seen, heard>>

(* outl(AUDIO_COUNT_ADDR, count), then the next round, the next call or    *)
(* the test's final wait.                                                  *)
Commit ==
  /\ guest = "commit"
  /\ tail' = count
  /\ guest' = IF ptr > Samples THEN "wait" ELSE "count"
  /\ end' = IF ptr < end THEN end ELSE Min2(ptr + ChunkLen, Samples + 1)
  /\ raced' = (raced \/ (sdl = "copy" /\ seen - front < CbLen /\ CbLen < count - front))
  /\ UNCHANGED <<sbuf, front, ptr, count, sdl, seen, lastPlayed, stale, glitch, overrun>>

Wait ==
  /\ guest = "wait"
  /\ tail = 0
  /\ guest' = "done"
  /\ UNCHANGED <<device, ptr, end, count, sdl, seen, heard>>

Guest == ReadCount \/ WriteSample \/ Commit \/ Wait

----------------------------------------------------------------------------
(* SDL's thread: mycallback.                                               *)

(* `tail - front < len': the first load of tail.                           *)
Start ==
  /\ sdl = "idle"
  /\ seen' = tail
  /\ sdl' = "copy"
  /\ UNCHANGED <<device, driver, heard>>

(* The bytes to copy, t being tail at its second use.                      *)
nread(t) == IF seen - front < CbLen THEN t - front ELSE CbLen

(* Mutation: the last bytes of a sound are copied and not consumed.        *)
Advance_whole(n) == IF n < CbLen THEN front ELSE front + n

Advance(n) == front + n

(* memcpy of n bytes from sbuf[front ...] and the new front; of the bytes  *)
(* copied SDL plays the ones that fit in `stream'.                         *)
CopyBytes(n) ==
  LET played == Min2(n, CbLen) IN
  /\ front' = Advance(n)
  /\ stale' = (stale \/ \E k \in front .. front + n - 1 : sbuf[k] = 0)
  /\ glitch' = (glitch \/ \E k \in front .. front + played - 1 :
                  sbuf[k] # lastPlayed + 1 + k - front)
  /\ lastPlayed' = IF played > 0 THEN sbuf[front + played - 1] ELSE lastPlayed
  /\ overrun' = (overrun \/ n > CbLen)

Copy ==
  /\ sdl = "copy"
  /\ \E t \in {seen, tail} : CopyBytes(nread(t))
  /\ sdl' = "test"
  /\ UNCHANGED <<sbuf, tail, driver, seen, raced>>

(* `if (front == tail)'.                                                   *)
Test ==
  /\ sdl = "test"
  /\ \E t \in {seen, tail} : sdl' = IF front = t THEN "reset_tail" ELSE "idle"
  /\ UNCHANGED <<device, driver, seen, heard>>

(* Mutation: the buffer is never declared empty.                           *)
ResetTail_lost ==
  /\ sdl = "reset_tail"
  /\ sdl' = "reset_front"
  /\ UNCHANGED <<device, driver, seen, heard>>

(* `front = tail = 0': two stores.                                         *)
ResetTail ==
  /\ sdl = "reset_tail"
  /\ tail' = 0
  /\ sdl' = "reset_front"
  /\ raced' = (raced \/ tail # front \/ guest \in {"write", "commit"})
  /\ UNCHANGED <<sbuf, front, driver, seen, lastPlayed, stale, glitch, overrun>>

ResetFront ==
  /\ sdl = "reset_front"
  /\ front' = 0
  /\ sdl' = "idle"
  /\ UNCHANGED <<sbuf, tail, driver, seen, heard>>

Callback == Start \/ Copy \/ Test \/ ResetTail \/ ResetFront

AudioNext == Guest \/ Callback

(* Both threads run: SDL calls back periodically, NEMU executes the guest. *)
AudioSpec == AudioInit /\ [][AudioNext]_audioVars /\ WF_audioVars(Guest) /\ WF_audioVars(Callback)

----------------------------------------------------------------------------
(* Indices stay within the sample buffer, its end included.                *)
AudioTypeOK ==
  /\ sbuf \in [0 .. SB_SIZE - 1 -> 0 .. Samples]
  /\ {front, tail, count, seen} \subseteq 0 .. SB_SIZE
  /\ {ptr, end} \subseteq 1 .. Samples + 1
  /\ guest \in {"count", "write", "commit", "wait", "done"}
  /\ sdl \in {"idle", "copy", "test", "reset_tail", "reset_front"}
  /\ lastPlayed \in 0 .. Samples
  /\ {stale, glitch, overrun, raced} \subseteq BOOLEAN

(* The bytes a callback copies lie inside the sample buffer and their      *)
(* number is not negative (audio.c:60), whichever value of tail it uses    *)
(* and whatever the guest writes to the count meanwhile.                   *)
CopyInBounds ==
  sdl = "copy" => \A t \in {seen, tail} : 0 <= nread(t) /\ front + nread(t) <= SB_SIZE

(* No callback plays a byte of the buffer the guest has not written.       *)
OnlyWritten == ~stale

(* The guest's loop over a full buffer and its final wait both end.        *)
AudioFinishes == (ptr > 1) ~> (guest = "done")

(* Every sample is played once and in order and `stream' is not overrun,   *)
(* unless one of two races happens: the guest's write of the count falls   *)
(* between the callback's two loads of tail (audio.c:59) and raises the    *)
(* bytes waiting from fewer than SDL asked for to more; or the callback    *)
(* resets tail (audio.c:63) between the driver's read of the count and its *)
(* write, or after a write it has not seen.  No other interleaving of the  *)
(* two threads spoils the sound.                                           *)
PlayedInOrder == ~raced => ~glitch /\ ~overrun

(* SDL's thread copies within the buffer, plays only bytes the guest       *)
(* wrote, and plays them in order, under every interleaving but the ones   *)
(* named above (audio.c:57).                                               *)
PlaysWhatWasWritten == CopyInBounds /\ OnlyWritten /\ PlayedInOrder
=============================================================================

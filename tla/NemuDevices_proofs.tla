------------------------- MODULE NemuDevices_proofs -------------------------
(***************************************************************************)
(* Proofs about the devices of NEMU and their drivers: the clock that is   *)
(* read in two words (AmTimer), the sound buffer that the guest and the    *)
(* callback of SDL share (AmAudio), and keyboard and screen (NemuIo), for  *)
(* every word size, buffer size, queue length and length of program.       *)
(***************************************************************************)
EXTENDS AmTimer, AmAudio, NemuIo, WellFoundedInduction, TLAPS

-----------------------------------------------------------------------------
(* The clock: a time that is read in two words is one the clock had.       *)

(* The two words of a time make up the time.                               *)
LEMMA Words ==
  ASSUME NEW t \in Nat
  PROVE  /\ Lo(t) \in 0 .. TimeWord - 1 /\ Hi(t) \in Nat
         /\ Hi(t) * TimeWord + Lo(t) = t
BY TimerAssumption DEF Lo, Hi

(* A difference that is not negative and fits 64 bits is not cut.          *)
LEMMA Difference ==
  ASSUME NEW a \in 0 .. MaxTime, NEW b \in 0 .. a
  PROVE  (a - b) % (TimeWord * TimeWord) = a - b
<1> DEFINE w == TimeWord * TimeWord
<1>1. w \in Nat
  BY TimerAssumption
<1>2. a - b \in 0 .. w - 1
  BY TimeFits, TimerAssumption
<1> HIDE DEF w
<1>3. (a - b) % w = a - b
  BY <1>1, <1>2
<1> QED
  BY <1>3 DEF w

(* Between the two reads the latched words are those of a moment of the    *)
(* call; what the driver returned last, and when it booted, lie before the *)
(* call.                                                                   *)
TimerInv ==
  /\ TimerTypeOK
  /\ called <= now
  /\ pc = "idle" => ~boot
  /\ pc = "hi" => \E t \in called .. now :
                    lo = Lo(t) /\ rtc_port_base = <<Lo(t), Hi(t)>>
  /\ boot => uptime = 0
  /\ ~boot => boot_time + uptime <= now
  /\ ~boot /\ pc # "idle" => boot_time + uptime <= called

(* A machine that has just started satisfies the invariant.                *)
LEMMA TimerStarts == TimerInit => TimerInv
BY TimerAssumption, TimeFits DEF TimerInit, TimerInv, TimerTypeOK

(* Time passes.                                                            *)
LEMMA TimerTick == TimerInv /\ Tick => TimerInv'
BY TimerAssumption, TimeFits DEF Tick, TimerInv, TimerTypeOK

(* The program asks for the uptime: a call begins.                         *)
LEMMA TimerCall == TimerInv /\ UptimeCall => TimerInv'
BY TimerAssumption, TimeFits DEF UptimeCall, TimerInv, TimerTypeOK

(* The read of the low word latches both words of that moment.             *)
LEMMA TimerReadLo ==
  ASSUME Device = "rtc", TimerInv, ReadLo
  PROVE TimerInv'
<1>1. now \in Nat
  BY DEF TimerInv, TimerTypeOK
<1>2. Lo(now) \in 0 .. TimeWord - 1 /\ Hi(now) \in Nat
  BY <1>1, Words
<1>3. 0 \div 4 = 0
  OBVIOUS
<1>4. rtc_port_base' = <<Lo(now), Hi(now)>> /\ lo' = Lo(now)
  BY <1>3 DEF ReadLo, inl, Access, rtc_io_handler
<1>5. TimerTypeOK'
  BY <1>2, <1>4 DEF ReadLo, TimerInv, TimerTypeOK
<1>6. \E t \in called' .. now' : lo' = Lo(t) /\ rtc_port_base' = <<Lo(t), Hi(t)>>
  BY <1>4 DEF ReadLo, TimerInv, TimerTypeOK
<1> QED
  BY <1>5, <1>6 DEF ReadLo, TimerInv, Lo, Hi

(* The read of the high word finds the word latched with the low one, so   *)
(* the difference to the boot time is the uptime at a moment of the call.  *)
LEMMA TimerReadHi ==
  ASSUME Device = "rtc", TimerInv, ReadHi
  PROVE  /\ TimerInv'
         /\ uptime' # uptime => \E t \in called .. now : uptime' = t - boot_time
         /\ uptime' >= uptime
<1> USE DEF ReadHi
<1>1. PICK t \in called .. now : lo = Lo(t) /\ rtc_port_base = <<Lo(t), Hi(t)>>
  BY DEF TimerInv
<1>2. /\ t \in 0 .. MaxTime /\ t \in Nat /\ called \in Nat /\ now \in Nat /\ uptime \in Nat /\ boot_time \in Nat
      /\ called <= t /\ t <= now
  BY TimerAssumption DEF TimerInv, TimerTypeOK
<1>3. Lo(t) \in 0 .. TimeWord - 1 /\ Hi(t) \in Nat /\ Hi(t) * TimeWord + Lo(t) = t
  BY <1>2, Words
<1>4. inl(4) = Hi(t) /\ rtc_port_base' = rtc_port_base
  <2>1. 4 \div 4 = 1
    OBVIOUS
  <2> QED
    BY <1>1, <2>1 DEF inl, Access, rtc_io_handler
<1>5. inl(4) * TimeWord + lo = t
  BY <1>1, <1>3, <1>4
<1>6. /\ pc = "hi" /\ pc' = "idle" /\ boot' = FALSE /\ hi' = Hi(t)
      /\ now' = now /\ lo' = lo /\ called' = called
      /\ boot => boot_time' = t /\ uptime' = uptime
      /\ ~boot => boot_time' = boot_time /\ uptime' = (t - boot_time) % (TimeWord * TimeWord)
  BY <1>4, <1>5
<1> HIDE DEF ReadHi
<1>7. CASE boot
  <2>1. boot_time' = t /\ uptime' = 0 /\ uptime = 0
    BY <1>6, <1>7 DEF TimerInv
  <2>2. TimerTypeOK'
    BY <1>2, <1>3, <1>4, <1>6, <2>1 DEF TimerInv, TimerTypeOK
  <2> QED
    BY <1>2, <1>6, <2>1, <2>2 DEF TimerInv
<1>8. CASE ~boot
  <2>1. boot_time + uptime <= called
    BY <1>6, <1>8 DEF TimerInv
  <2>2. boot_time \in 0 .. t
    BY <1>2, <2>1
  <2>3. boot_time' = boot_time /\ uptime' = t - boot_time
    BY <1>2, <1>6, <1>8, <2>2, Difference
  <2>4. uptime' \in Nat /\ uptime' >= uptime
    BY <1>2, <2>1, <2>2, <2>3
  <2>5. TimerTypeOK'
    BY <1>2, <1>3, <1>4, <1>6, <2>3, <2>4 DEF TimerInv, TimerTypeOK
  <2>6. TimerInv'
    BY <1>2, <1>6, <1>8, <2>1, <2>3, <2>5 DEF TimerInv
  <2> QED
    BY <2>3, <2>4, <2>6
<1> QED
  BY <1>7, <1>8 DEF TimerInv, TimerTypeOK

(* On the rtc device, whose low word latches the high one, every uptime    *)
(* the driver returns is that of a moment during the call and the uptimes  *)
(* never go back, also when the low word overflows between the two reads   *)
(* (ioe/timer.c, device/timer.c). On the clint device of the core they do: *)
(* that is the finding of the run am_timer.                                *)
THEOREM TimeUntorn ==
  ASSUME Device = "rtc"
  PROVE  TimerSpec => UptimeIsCurrent /\ UptimeMonotone
<1>1. TimerInv /\ [TimerNext]_timerVars => TimerInv'
  <2>1. CASE UNCHANGED timerVars
    BY <2>1 DEF timerVars, TimerInv, TimerTypeOK, Lo, Hi
  <2> QED
    BY <2>1, TimerTick, TimerCall, TimerReadLo, TimerReadHi DEF TimerNext
<1>2. TimerInv /\ [TimerNext]_timerVars =>
        [uptime' # uptime => \E t \in called .. now : uptime' = t - boot_time]_timerVars
  BY TimerReadHi DEF TimerNext, Tick, UptimeCall, ReadLo
<1>3. TimerInv /\ [TimerNext]_timerVars => [uptime' >= uptime]_timerVars
  <2>1. TimerInv => uptime \in Nat
    BY DEF TimerInv, TimerTypeOK
  <2> QED
    BY <2>1, TimerReadHi DEF TimerNext, Tick, UptimeCall, ReadLo
<1> QED
  BY <1>1, <1>2, <1>3, TimerStarts, PTL DEF TimerSpec, UptimeIsCurrent, UptimeMonotone

-----------------------------------------------------------------------------
(* Sound: the callback plays what the guest wrote, in order.               *)

(* The guest is between reading the count and writing it back.             *)
Adding == guest \in {"write", "commit"}

(* Where the next callback copies from, once a reset under way is done,    *)
(* and how far the guest has filled the buffer.                            *)
First == IF sdl = "reset_front" THEN 0 ELSE front
Filled == IF Adding THEN count ELSE tail

(* Bounds: front does not pass tail until a reset stores tail, the tail    *)
(* the callback has loaded lies between them while it copies, and the      *)
(* guest's count is never behind tail.                                     *)
AudioBounds ==
  /\ sdl # "reset_front" => front <= tail
  /\ sdl = "copy" => front <= seen /\ seen <= tail
  /\ Adding => tail <= count

(* Bytes below tail, and below the guest's count, have been written.       *)
BytesWritten ==
  /\ \A k \in 0 .. SB_SIZE - 1 : k < tail => sbuf[k] # 0
  /\ Adding => \A k \in 0 .. SB_SIZE - 1 : k < count => sbuf[k] # 0
  /\ ~stale

(* Without a race, what is not yet played are the samples that follow the  *)
(* last one played, the guest's next sample follows them, and a callback   *)
(* that found fewer bytes than SDL asked for finds no more than that when  *)
(* it looks again.                                                         *)
SamplesInOrder ==
  ~raced => /\ ~glitch /\ ~overrun
            /\ sdl = "copy" /\ seen - front < CbLen => tail - front <= CbLen
            /\ \A k \in 0 .. SB_SIZE - 1 :
                 First <= k /\ k < Filled => sbuf[k] = lastPlayed + 1 + k - First
            /\ ptr = lastPlayed + 1 + Filled - First

(* The inductive invariant of the sound buffer.                            *)
AudioInv == AudioTypeOK /\ AudioBounds /\ BytesWritten /\ SamplesInOrder

(* The parameters are positive.                                            *)
LEMMA AudioParameters == SB_SIZE \in Nat \ {0} /\ Samples \in Nat \ {0} /\ ChunkLen \in Nat \ {0} /\ CbLen \in Nat \ {0}
BY AudioAssumption

(* The range of every index, one by one.                                   *)
LEMMA AudioIndices ==
  ASSUME AudioTypeOK
  PROVE  /\ front \in 0 .. SB_SIZE /\ tail \in 0 .. SB_SIZE /\ count \in 0 .. SB_SIZE
         /\ seen \in 0 .. SB_SIZE /\ ptr \in 1 .. Samples + 1 /\ end \in 1 .. Samples + 1
         /\ lastPlayed \in 0 .. Samples
         /\ sbuf \in [0 .. SB_SIZE - 1 -> 0 .. Samples]
BY DEF AudioTypeOK

(* An empty buffer satisfies the invariant.                                *)
LEMMA AudioStarts == AudioInit => AudioInv
<1> SUFFICES ASSUME AudioInit PROVE AudioInv
  OBVIOUS
<1> USE AudioParameters DEF AudioInit
<1>1. end \in 1 .. Samples + 1
  BY DEF Min2
<1>2. /\ sbuf \in [0 .. SB_SIZE - 1 -> 0 .. Samples] /\ front \in 0 .. SB_SIZE
      /\ ptr \in 1 .. Samples + 1 /\ lastPlayed \in 0 .. Samples
  OBVIOUS
<1>a. AudioTypeOK
  BY <1>1, <1>2, Zenon DEF AudioTypeOK
<1>3. AudioBounds /\ BytesWritten /\ SamplesInOrder
  BY DEF AudioBounds, BytesWritten, SamplesInOrder, Adding, First, Filled
<1> QED
  BY <1>a, <1>3 DEF AudioInv

(* The guest's steps.                                                      *)
LEMMA AudioReadCount == AudioInv /\ ReadCount => AudioInv'
BY AudioParameters, AudioIndices, SMTT(40) DEF ReadCount, heard, AudioInv, AudioTypeOK,
   AudioBounds, BytesWritten, SamplesInOrder,
   Adding, First, Filled

(* The guest stores a sample behind its count.                             *)
LEMMA AudioWrite ==
  ASSUME AudioInv, WriteSample PROVE AudioInv'
<1> USE AudioParameters, AudioIndices DEF WriteSample, heard, AudioInv, Fits
<1>1. CASE ptr < end /\ count < SB_SIZE
  <2>1. /\ ptr \in 1 .. Samples /\ count \in 0 .. SB_SIZE - 1
        /\ sbuf' = [sbuf EXCEPT ![count] = ptr] /\ ptr' = ptr + 1 /\ count' = count + 1
        /\ sbuf \in [0 .. SB_SIZE - 1 -> 0 .. Samples]
    BY <1>1, SMTT(30) DEF AudioTypeOK
  <2>2. AudioTypeOK'
    BY <2>1 DEF AudioTypeOK
  <2>3. AudioBounds' /\ BytesWritten'
    BY <1>1, <2>1 DEF AudioTypeOK, AudioBounds, BytesWritten, Adding
  <2>4. SamplesInOrder'
    <3> SUFFICES ASSUME ~raced PROVE SamplesInOrder'
      BY DEF SamplesInOrder
    <3>1. First' = First /\ First \in Nat /\ Filled = count /\ Filled' = count + 1
      BY <1>1, <2>1, AudioIndices DEF First, Filled, Adding
    <3>2. First <= count
      BY AudioIndices DEF AudioBounds, First, Adding
    <3>3. /\ \A k \in 0 .. SB_SIZE - 1 :
               First <= k /\ k < count => sbuf[k] = lastPlayed + 1 + k - First
          /\ ptr = lastPlayed + 1 + count - First
      BY <3>1 DEF SamplesInOrder
    <3>4. lastPlayed' = lastPlayed /\ lastPlayed \in Nat
      BY AudioIndices
    <3>5. /\ \A k \in 0 .. SB_SIZE - 1 :
               First <= k /\ k < count + 1 => sbuf'[k] = lastPlayed + 1 + k - First
          /\ ptr' = lastPlayed + 1 + (count + 1) - First
      BY <2>1, <3>1, <3>2, <3>3, <3>4, SMTT(60)
    <3> QED
      BY <3>1, <3>4, <3>5 DEF SamplesInOrder
  <2> QED
    BY <2>2, <2>3, <2>4
<1>2. CASE ~(ptr < end /\ count < SB_SIZE)
  BY <1>2 DEF AudioTypeOK, AudioBounds, BytesWritten, SamplesInOrder, Adding, First,
     Filled
<1> QED
  BY <1>1, <1>2

(* The guest writes the count back.                                        *)
LEMMA AudioCommit ==
  ASSUME AudioInv, Commit PROVE AudioInv'
<1> USE AudioParameters, AudioIndices DEF Commit, AudioInv
<1>1. AudioTypeOK'
  BY SMTT(30) DEF AudioTypeOK, Min2
<1>2. AudioBounds' /\ BytesWritten'
  BY DEF AudioTypeOK, AudioBounds, BytesWritten, Adding
<1>3. SamplesInOrder'
  <2> SUFFICES ASSUME ~raced' PROVE SamplesInOrder'
    BY DEF SamplesInOrder
  <2>1. /\ ~raced /\ ~(sdl = "copy" /\ seen - front < CbLen /\ CbLen < count - front)
        /\ UNCHANGED <<sbuf, front, ptr, sdl, seen, lastPlayed, glitch, overrun>> /\ tail' = count
    BY Zenon
  <2>2. ~glitch' /\ ~overrun'
    <3>1. ~glitch /\ ~overrun
      BY <2>1, Zenon DEF AudioInv, SamplesInOrder
    <3> QED
      BY ONLY <2>1, <3>1, Zenon
  <2>3. First' = First /\ Filled' = count /\ Filled = count
    BY <2>1 DEF First, Filled, Adding
  <2>4. /\ \A k \in 0 .. SB_SIZE - 1 :
             First' <= k /\ k < Filled' => sbuf'[k] = lastPlayed' + 1 + k - First'
        /\ ptr' = lastPlayed' + 1 + Filled' - First'
    BY <2>1, <2>3 DEF SamplesInOrder
  <2>5. (sdl = "copy" /\ seen - front < CbLen => tail - front <= CbLen)'
    BY ONLY <2>1, AudioIndices, AudioInv, AudioParameters, SMTT(40) DEF AudioInv
  <2> QED
    BY <2>2, <2>4, <2>5 DEF SamplesInOrder
<1> QED
  BY <1>1, <1>2, <1>3

(* A full buffer makes the guest wait.                                     *)
LEMMA AudioWait == AudioInv /\ Wait => AudioInv'
BY AudioParameters, AudioIndices, SMTT(40) DEF Wait, device, heard, AudioInv, AudioTypeOK,
   AudioBounds, BytesWritten, SamplesInOrder,
   Adding, First, Filled

(* The callback loads tail.                                                *)
LEMMA AudioStart == AudioInv /\ Start => AudioInv'
BY AudioParameters, AudioIndices, SMTT(40) DEF Start, device, driver, heard, AudioInv, AudioTypeOK,
   AudioBounds, BytesWritten, SamplesInOrder,
   Adding, First, Filled

(* The number of bytes the callback copies, whichever tail it uses, and    *)
(* without a race no more than SDL asked for.                              *)
LEMMA AudioBytes ==
  ASSUME AudioInv, sdl = "copy", NEW t \in {seen, tail}
  PROVE  /\ nread(t) \in Nat /\ front + nread(t) <= tail
         /\ ~raced => nread(t) <= CbLen
<1>1. /\ front \in Nat /\ seen \in Nat /\ tail \in Nat /\ CbLen \in Nat
      /\ front <= seen /\ seen <= tail
  BY AudioParameters, AudioIndices DEF AudioInv, AudioBounds
<1>2. ~raced /\ seen - front < CbLen => tail - front <= CbLen
  BY DEF AudioInv, SamplesInOrder
<1> QED
  BY <1>1, <1>2 DEF nread

(* The callback copies what lies between front and tail and fills the rest *)
(* with silence.                                                           *)
LEMMA AudioCopy ==
  ASSUME AudioInv, Copy PROVE AudioInv'
<1> USE AudioParameters DEF AudioInv, driver
<1>0. /\ front \in 0 .. SB_SIZE /\ tail \in 0 .. SB_SIZE /\ count \in 0 .. SB_SIZE
      /\ seen \in 0 .. SB_SIZE
      /\ ptr \in 1 .. Samples + 1 /\ lastPlayed \in 0 .. Samples
      /\ sbuf \in [0 .. SB_SIZE - 1 -> 0 .. Samples]
  BY AudioIndices
<1> PICK t \in {seen, tail} : CopyBytes(nread(t))
  BY DEF Copy
<1> DEFINE n == nread(t)
           played == Min2(n, CbLen)
<1>f. /\ sdl = "copy" /\ sdl' = "test"
      /\ UNCHANGED <<sbuf, tail, ptr, end, count, guest, seen, raced>>
  BY DEF Copy
<1>1. n \in Nat /\ front + n <= tail /\ (~raced => n <= CbLen)
  BY <1>f, AudioBytes
<1>p. played \in Nat /\ played <= n /\ (n <= CbLen => played = n)
  BY <1>1 DEF Min2
<1>c. /\ front' = front + n
      /\ stale' = (stale \/ \E k \in front .. front + n - 1 : sbuf[k] = 0)
      /\ glitch' = (glitch \/ \E k \in front .. front + played - 1 :
                      sbuf[k] # lastPlayed + 1 + k - front)
      /\ lastPlayed' = IF played > 0 THEN sbuf[front + played - 1] ELSE lastPlayed
      /\ overrun' = (overrun \/ n > CbLen)
  BY DEF CopyBytes, Advance
<1> HIDE DEF n, played
<1>2. lastPlayed' \in 0 .. Samples
  <2>1. CASE played > 0
    <3>1. front + played - 1 \in 0 .. SB_SIZE - 1
      BY <1>0, <1>1, <1>p, <2>1
    <3> QED
      BY <1>0, <1>c, <2>1, <3>1
  <2>2. CASE ~(played > 0)
    BY <1>0, <1>c, <2>2
  <2> QED
    BY <2>1, <2>2
<1>3. front' \in 0 .. SB_SIZE /\ front' <= tail'
  BY <1>0, <1>1, <1>c, <1>f
<1>a. AudioTypeOK' /\ AudioBounds'
  <2>1. /\ stale' \in BOOLEAN /\ glitch' \in BOOLEAN /\ overrun' \in BOOLEAN
        /\ raced' \in BOOLEAN
    BY <1>c, <1>f, Zenon DEF AudioTypeOK
  <2>2. AudioTypeOK'
    BY <1>0, <1>2, <1>3, <1>f, <2>1 DEF AudioTypeOK
  <2> QED
    BY <1>0, <1>3, <1>f, <2>2 DEF AudioBounds, Adding
<1>4. BytesWritten'
  <2>1. \A k \in front .. front + n - 1 : k \in 0 .. SB_SIZE - 1 /\ k < tail
    BY <1>0, <1>1
  <2>2. ~stale'
    BY <1>c, <2>1 DEF BytesWritten
  <2> QED
    BY <1>f, <2>2 DEF BytesWritten, Adding
<1>5. SamplesInOrder'
  <2>1. SUFFICES ASSUME ~raced PROVE SamplesInOrder'
    BY <1>f DEF SamplesInOrder
  <2>p. played = n /\ n <= CbLen
    BY <1>1, <1>p, <2>1
  <2>2. \A k \in front .. front + n - 1 : k \in 0 .. SB_SIZE - 1 /\ First <= k /\ k < Filled
    BY <1>0, <1>1, <1>f DEF AudioBounds, AudioTypeOK, First, Filled
  <2>3. \A k \in front .. front + n - 1 : sbuf[k] = lastPlayed + 1 + k - front
    BY <1>f, <2>1, <2>2 DEF SamplesInOrder, First
  <2>4. ~glitch' /\ ~overrun'
    <3>1. ~glitch /\ ~overrun
      BY <2>1, Zenon DEF SamplesInOrder
    <3>2. ~(n > CbLen)
      BY <1>1, <2>p
    <3>3. ~ \E k \in front .. front + played - 1 : sbuf[k] # lastPlayed + 1 + k - front
      BY <2>3, <2>p
    <3> QED
      BY <1>c, <3>1, <3>2, <3>3, Zenon
  <2>5. lastPlayed' = lastPlayed + n
    BY <1>0, <1>1, <1>c, <2>3, <2>p
  <2>6. First' = First + n /\ Filled' = Filled /\ First = front /\ First' = front + n
    BY <1>0, <1>1, <1>c, <1>f DEF First, Filled, Adding
  <2>7. Filled \in Nat
    BY <1>0 DEF Filled
  <2>8. /\ \A k \in 0 .. SB_SIZE - 1 :
             First <= k /\ k < Filled => sbuf[k] = lastPlayed + 1 + k - First
        /\ ptr = lastPlayed + 1 + Filled - First
    BY <2>1 DEF SamplesInOrder
  <2>10. \A k \in 0 .. SB_SIZE - 1 :
           First' <= k /\ k < Filled' => sbuf'[k] = lastPlayed' + 1 + k - First'
    BY <1>0, <1>1, <1>f, <2>5, <2>6, <2>7, <2>8
  <2>11. ptr' = lastPlayed' + 1 + Filled' - First'
    BY <1>0, <1>1, <1>f, <2>5, <2>6, <2>7, <2>8
  <2> QED
    BY <1>f, <2>4, <2>10, <2>11 DEF SamplesInOrder
<1> QED
  BY <1>a, <1>4, <1>5

(* The callback decides whether the buffer is empty.                       *)
LEMMA AudioTest == AudioInv /\ Test => AudioInv'
BY AudioParameters, AudioIndices, SMTT(40) DEF Test, device, driver, heard, AudioInv, AudioTypeOK,
   AudioBounds, BytesWritten, SamplesInOrder,
   Adding, First, Filled

(* The reset stores tail: a race if the guest has updated tail since the   *)
(* callback loaded it, or is between reading and writing the count.        *)
LEMMA AudioResetTail ==
  ASSUME AudioInv, ResetTail PROVE AudioInv'
<1> USE AudioParameters DEF ResetTail, driver, AudioInv
<1>0. /\ front \in 0 .. SB_SIZE /\ tail \in 0 .. SB_SIZE /\ count \in 0 .. SB_SIZE
      /\ ptr \in 1 .. Samples + 1 /\ lastPlayed \in 0 .. Samples
      /\ sbuf \in [0 .. SB_SIZE - 1 -> 0 .. Samples]
  BY AudioIndices
<1>1. AudioTypeOK'
  BY <1>0 DEF AudioTypeOK
<1>2. AudioBounds' /\ BytesWritten'
  BY <1>0 DEF AudioBounds, BytesWritten, Adding
<1>3. SamplesInOrder'
  <2> SUFFICES ASSUME ~raced' PROVE SamplesInOrder'
    BY DEF SamplesInOrder
  <2>1. ~raced /\ ~Adding /\ guest' = guest /\ front = tail
    BY DEF Adding
  <2>2. First' = 0 /\ Filled' = 0 /\ First = front /\ Filled = tail /\ front = tail
    BY <2>1 DEF First, Filled, Adding
  <2>3. ptr' = lastPlayed' + 1
    BY <1>0, <2>1, <2>2 DEF SamplesInOrder
  <2> QED
    BY <1>0, <2>1, <2>2, <2>3 DEF SamplesInOrder
<1> QED
  BY <1>1, <1>2, <1>3

(* The reset stores front.                                                 *)
LEMMA AudioResetFront == AudioInv /\ ResetFront => AudioInv'
BY AudioParameters, AudioIndices, SMTT(40) DEF ResetFront, driver, heard, AudioInv, AudioTypeOK,
   AudioBounds, BytesWritten, SamplesInOrder,
   Adding, First, Filled

(* The callback never plays a byte the guest has not written, and unless   *)
(* the guest's update of the count meets one of the two races, it stays    *)
(* within SDL's stream and plays the samples in order, each once           *)
(* (audio.c:57).                                                           *)
THEOREM SoundInOrder == AudioSpec => []PlaysWhatWasWritten
<1>1. AudioInv /\ [AudioNext]_audioVars => AudioInv'
  <2>1. CASE UNCHANGED audioVars
    BY <2>1 DEF audioVars, AudioInv, AudioTypeOK, AudioBounds, BytesWritten,
       SamplesInOrder,
   Adding, First, Filled
  <2> QED
    BY <2>1, AudioReadCount, AudioWrite, AudioCommit, AudioWait, AudioStart, AudioCopy, AudioTest,
       AudioResetTail, AudioResetFront DEF AudioNext, Guest, Callback
<1>2. AudioInv => PlaysWhatWasWritten
  <2> SUFFICES ASSUME AudioInv PROVE PlaysWhatWasWritten
    OBVIOUS
  <2>1. CopyInBounds
    BY AudioParameters, AudioIndices, AudioBytes, SMTT(40) DEF AudioInv, CopyInBounds
  <2> QED
    BY <2>1 DEF AudioInv, BytesWritten, SamplesInOrder, PlaysWhatWasWritten, OnlyWritten,
       PlayedInOrder
<1> QED
  BY <1>1, <1>2, AudioStarts, PTL DEF AudioSpec

-----------------------------------------------------------------------------
(* The keyboard.  The loop over the events and the key events of a queue   *)
(* are recursive functions on 0 .. n: first that such a function exists    *)
(* and what it satisfies, then the ring, then the steps.                   *)

(* A set of natural numbers that is not empty has a least element.         *)
LEMMA LeastNat ==
  ASSUME NEW T \in SUBSET Nat, T # {}
  PROVE  \E x \in T : \A y \in T : x <= y
<1> DEFINE R == OpToRel(<, Nat)
<1>1. IsWellFoundedOn(R, Nat)
  BY NatLessThanWellFounded
<1>2. \A x, y \in Nat : x < y => <<x, y>> \in R
  BY DEF OpToRel
<1> HIDE DEF R
<1>3. PICK x \in T : \A y \in T : <<y, x>> \notin R
  BY <1>1, WFMin
<1>4. ASSUME NEW y \in T PROVE x <= y
  <2>1. x \in Nat /\ y \in Nat /\ ~(y < x)
    BY <1>2, <1>3
  <2> QED
    BY <2>1
<1> QED
  BY <1>3, <1>4

(* What is computed from 0 on, one index from the one before it.           *)
Computes(f, n, S, a, G) ==
  f \in [0 .. n -> S] /\ f[0] = a /\ \A i \in 1 .. n : f[i] = G[<<i, f[i - 1]>>]

(* Such a function exists.                                                 *)
LEMMA Recursion ==
  ASSUME NEW n \in Nat, NEW S, NEW a \in S, NEW G \in [(1 .. n) \X S -> S]
  PROVE  \E f : Computes(f, n, S, a, G)
<1> DEFINE P(m) == \E f : Computes(f, m, S, a, G)
<1> DEFINE T == {m \in 0 .. n : ~P(m)}
<1>1. SUFFICES ASSUME T # {} PROVE FALSE
  <2>1. n \in 0 .. n
    OBVIOUS
  <2> QED
    BY <2>1
<1>2. PICK m \in T : \A y \in T : m <= y
  <2>1. T \in SUBSET Nat
    OBVIOUS
  <2> HIDE DEF T
  <2> QED
    BY <1>1, <2>1, LeastNat
<1>3. CASE m = 0
  <2> DEFINE f == [i \in 0 .. 0 |-> a]
  <2>1. Computes(f, 0, S, a, G)
    BY DEF Computes
  <2> QED
    BY <1>3, <2>1
<1>4. CASE m # 0
  <2>1. m \in 1 .. n /\ m - 1 \in 0 .. n /\ ~(m - 1 \in T)
    BY <1>2, <1>4
  <2>2. PICK g : Computes(g, m - 1, S, a, G)
    BY <2>1
  <2> DEFINE f == [i \in 0 .. m |-> IF i = m THEN G[<<m, g[m - 1]>>] ELSE g[i]]
  <2>3. g[m - 1] \in S
    BY <2>1, <2>2 DEF Computes
  <2>4. G[<<m, g[m - 1]>>] \in S
    BY <2>1, <2>3
  <2>5. f \in [0 .. m -> S] /\ f[0] = a
    BY <2>1, <2>2, <2>4 DEF Computes
  <2>6. ASSUME NEW i \in 1 .. m PROVE f[i] = G[<<i, f[i - 1]>>]
    <3>1. CASE i = m
      <4>1. f[i] = G[<<m, g[m - 1]>>] /\ f[i - 1] = g[m - 1]
        BY <2>1, <3>1
      <4> QED
        BY <3>1, <4>1
    <3>2. CASE i # m
      <4>1. i \in 1 .. m - 1 /\ i - 1 \in 0 .. m - 1 /\ i - 1 # m /\ i - 1 \in 0 .. m
        BY <2>1, <3>2
      <4>2. f[i] = g[i] /\ f[i - 1] = g[i - 1]
        BY <4>1
      <4> QED
        BY <2>2, <4>1, <4>2 DEF Computes
    <3> QED
      BY <3>1, <3>2
  <2>7. Computes(f, m, S, a, G)
    BY <2>5, <2>6, Zenon DEF Computes
  <2> QED
    BY <1>2, <2>7
<1> QED
  BY <1>3, <1>4

(* What holds at 0 and passes from each index to the next holds at all.    *)
LEMMA UpTo ==
  ASSUME NEW n \in Nat, NEW T \in SUBSET (0 .. n),
         0 \in T, \A i \in 1 .. n : i - 1 \in T => i \in T
  PROVE  T = 0 .. n
<1> DEFINE C == (0 .. n) \ T
<1>1. SUFFICES ASSUME C # {} PROVE FALSE
  OBVIOUS
<1>2. PICK m \in C : \A y \in C : m <= y
  <2>1. C \in SUBSET Nat
    OBVIOUS
  <2> HIDE DEF C
  <2> QED
    BY <1>1, <2>1, LeastNat
<1>3. m \in 1 .. n /\ m - 1 \in 0 .. n /\ m - 1 \notin C
  BY <1>2
<1> QED
  BY <1>2, <1>3

(* The parameters of the ring.                                             *)
LEMMA IoParameters ==
  /\ KEY_QUEUE_LEN \in Nat /\ KEY_QUEUE_LEN > 1
  /\ Keys \subseteq 0 .. 7 /\ Pixels \in Nat /\ Pixels > 0 /\ MaxEvents \in Nat /\ MaxDraws \in Nat
BY IoAssumption

(* The key events among the first i of a queue.                            *)
KeysOf(q) == CHOOSE K : K = [i \in 0 .. Len(q) |->
  IF i = 0 THEN <<>> ELSE IF IsKey(q[i]) THEN Append(K[i - 1], q[i]) ELSE K[i - 1]]

(* It is computed one event after the other, and KeyEvents is its last     *)
(* value.                                                                  *)
LEMMA KeysOfIs ==
  ASSUME NEW q \in Seq(Events)
  PROVE  /\ KeysOf(q) \in [0 .. Len(q) -> Seq(Events)] /\ KeysOf(q)[0] = <<>>
         /\ \A i \in 1 .. Len(q) : KeysOf(q)[i] =
              IF IsKey(q[i]) THEN Append(KeysOf(q)[i - 1], q[i]) ELSE KeysOf(q)[i - 1]
         /\ KeyEvents(q) = KeysOf(q)[Len(q)]
<1> DEFINE n == Len(q)
           S == Seq(Events)
           Step(i, x) == IF IsKey(q[i]) THEN Append(x, q[i]) ELSE x
           G == [p \in (1 .. n) \X S |-> Step(p[1], p[2])]
           Body(K) == [i \in 0 .. n |-> IF i = 0 THEN <<>> ELSE Step(i, K[i - 1])]
<1>1. n \in Nat /\ <<>> \in S /\ G \in [(1 .. n) \X S -> S]
  <2>1. \A i \in 1 .. n, x \in S : Step(i, x) \in S
    OBVIOUS
  <2> HIDE DEF S, Step
  <2> QED
    BY <2>1 DEF S
<1>2. PICK f : Computes(f, n, S, <<>>, G)
  <2> HIDE DEF n, S, G
  <2> QED
    BY <1>1, Recursion
<1>3. f = Body(f)
  <2>1. f \in [0 .. n -> S] /\ f[0] = <<>> /\ \A i \in 1 .. n : f[i] = G[<<i, f[i - 1]>>]
    BY <1>2 DEF Computes
  <2>2. \A i \in 1 .. n : f[i] = Step(i, f[i - 1])
    <3> HIDE DEF S, Step
    <3> QED
      BY <1>1, <2>1
  <2> HIDE DEF S, Step, G
  <2> QED
    BY <1>1, <2>1, <2>2
<1>4. KeysOf(q) = CHOOSE K : K = Body(K)
  BY DEF KeysOf
<1>5. KeyEvents(q) = KeysOf(q)[n]
  BY DEF KeyEvents, KeysOf
<1> DEFINE g == KeysOf(q)
<1>6. g = Body(g)
  <2> HIDE DEF Body
  <2> QED
    BY <1>3, <1>4
<1>7. /\ g[0] = <<>> /\ \A i \in 1 .. n : g[i] = Step(i, g[i - 1])
      /\ g = [i \in 0 .. n |-> g[i]]
  <2> HIDE DEF g, Step
  <2> QED
    BY <1>1, <1>6, SMTT(30)
<1> HIDE DEF g
<1>8. \A i \in 0 .. n : g[i] \in S
  <2> DEFINE T == {i \in 0 .. n : g[i] \in S}
  <2>1. 0 \in T
    BY <1>1, <1>7
  <2>2. ASSUME NEW i \in 1 .. n, i - 1 \in T PROVE i \in T
    <3>1. i \in 0 .. n /\ i - 1 \in 0 .. n /\ g[i - 1] \in S /\ q[i] \in Events
      BY <2>2
    <3>2. g[i] = Step(i, g[i - 1])
      BY <1>7
    <3>3. Step(i, g[i - 1]) \in S
      BY <3>1
    <3> HIDE DEF Step, S
    <3> QED
      BY <3>1, <3>2, <3>3
  <2>3. T = 0 .. n
    <3>1. T \in SUBSET (0 .. n)
      OBVIOUS
    <3> HIDE DEF T
    <3> QED
      BY <1>1, <2>1, <2>2, <3>1, UpTo
  <2> QED
    BY <2>3
<1>9. g \in [0 .. n -> S]
  <2> HIDE DEF S
  <2> QED
    BY <1>7, <1>8
<1> QED
  BY <1>5, <1>7, <1>9 DEF g

(* One event more in the queue is one key event more, or none.             *)
LEMMA KeyEventsAppend ==
  ASSUME NEW q \in Seq(Events), NEW e \in Events
  PROVE  KeyEvents(Append(q, e)) = IF IsKey(e) THEN Append(KeyEvents(q), e) ELSE KeyEvents(q)
<1> DEFINE n == Len(q)
           p == Append(q, e)
           f == KeysOf(q)
           g == KeysOf(p)
<1>1. n \in Nat /\ p \in Seq(Events) /\ Len(p) = n + 1 /\ p[n + 1] = e /\ \A i \in 1 .. n : p[i] = q[i]
  OBVIOUS
<1> HIDE DEF p
<1>2. /\ f[0] = <<>> /\ KeyEvents(q) = f[n]
      /\ \A i \in 1 .. n : f[i] = IF IsKey(q[i]) THEN Append(f[i - 1], q[i]) ELSE f[i - 1]
  BY KeysOfIs
<1>3. /\ g[0] = <<>> /\ KeyEvents(p) = g[n + 1]
      /\ \A i \in 1 .. n + 1 : g[i] = IF IsKey(p[i]) THEN Append(g[i - 1], p[i]) ELSE g[i - 1]
  BY <1>1, KeysOfIs
<1> HIDE DEF f, g, n
<1> DEFINE T == {i \in 0 .. n : f[i] = g[i]}
<1>4. 0 \in T
  BY <1>1, <1>2, <1>3
<1>5. ASSUME NEW i \in 1 .. n, i - 1 \in T PROVE i \in T
  <2>1. i \in 1 .. n + 1 /\ i \in 0 .. n /\ f[i - 1] = g[i - 1] /\ p[i] = q[i]
    BY <1>1, <1>5
  <2> QED
    BY <1>2, <1>3, <2>1
<1>6. T = 0 .. n
  <2>1. T \in SUBSET (0 .. n)
    OBVIOUS
  <2> HIDE DEF T
  <2> QED
    BY <1>1, <1>4, <1>5, <2>1, UpTo
<1>7. f[n] = g[n]
  BY <1>1, <1>6
<1>8. n + 1 \in 1 .. n + 1 /\ n + 1 - 1 = n
  BY <1>1
<1> QED
  BY <1>1, <1>2, <1>3, <1>7, <1>8 DEF p

(* Positions of the ring.                                                  *)
LEMMA Wraps ==
  ASSUME NEW L \in Nat, L > 0, NEW x \in Int
  PROVE  /\ 0 <= x /\ x < L => x % L = x
         /\ L <= x /\ x < 2 * L => x % L = x - L
         /\ -L <= x /\ x < 0 => x % L = x + L
<1>1. ASSUME 0 <= x, x < L PROVE x % L = x
  BY <1>1
<1>2. ASSUME L <= x, x < 2 * L PROVE x % L = x - L
  <2>1. x - L \in 0 .. L - 1
    BY <1>2
  <2>2. x = 1 * L + (x - L)
    OBVIOUS
  <2> QED
    BY <2>1, <2>2
<1>3. ASSUME -L <= x, x < 0 PROVE x % L = x + L
  <2>1. x + L \in 0 .. L - 1
    BY <1>3
  <2>2. x = (-1) * L + (x + L)
    OBVIOUS
  <2> QED
    BY <2>1, <2>2
<1> QED
  BY <1>1, <1>2, <1>3

(* The decoded codes from f to r.                                          *)
Ring(q, f, r) == [i \in 1 .. (r - f) % KEY_QUEUE_LEN |-> Decode(q[(f + i - 1) % KEY_QUEUE_LEN])]

Places == 0 .. KEY_QUEUE_LEN - 1
KeyCodes == 0 .. 2 * KEYDOWN_MASK - 1

(* How many codes there are, and where.                                    *)
LEMMA RingPlaces ==
  ASSUME NEW f \in Places, NEW r \in Places
  PROVE  /\ (r - f) % KEY_QUEUE_LEN = IF r >= f THEN r - f ELSE r - f + KEY_QUEUE_LEN
         /\ (r + 1) % KEY_QUEUE_LEN = IF r + 1 = KEY_QUEUE_LEN THEN 0 ELSE r + 1
         /\ \A i \in 1 .. KEY_QUEUE_LEN : (f + i - 1) % KEY_QUEUE_LEN =
              IF f + i - 1 < KEY_QUEUE_LEN THEN f + i - 1 ELSE f + i - 1 - KEY_QUEUE_LEN
<1> DEFINE L == KEY_QUEUE_LEN
<1>0. L \in Nat /\ L > 1 /\ f \in 0 .. L - 1 /\ r \in 0 .. L - 1
  BY IoParameters DEF Places
<1> HIDE DEF L
<1>1. (r - f) % L = IF r >= f THEN r - f ELSE r - f + L
  <2>1. r - f \in Int /\ r - f < L /\ -L <= r - f
    BY <1>0
  <2> QED
    BY <1>0, <2>1, Wraps
<1>2. (r + 1) % L = IF r + 1 = L THEN 0 ELSE r + 1
  <2>1. r + 1 \in Int /\ r + 1 < 2 * L /\ 0 <= r + 1
    BY <1>0
  <2> QED
    BY <1>0, <2>1, Wraps
<1>3. ASSUME NEW i \in 1 .. L
      PROVE (f + i - 1) % L = IF f + i - 1 < L THEN f + i - 1 ELSE f + i - 1 - L
  <2>1. f + i - 1 \in Int /\ f + i - 1 < 2 * L /\ 0 <= f + i - 1
    BY <1>0
  <2> QED
    BY <1>0, <2>1, Wraps
<1> QED
  BY <1>1, <1>2, <1>3 DEF L

(* Decoding gives back scancode and direction.                             *)
LEMMA Decoded ==
  ASSUME NEW c \in 0 .. 7, NEW d \in BOOLEAN
  PROVE  /\ c + (IF d THEN KEYDOWN_MASK ELSE 0) \in KeyCodes
         /\ Decode(c + (IF d THEN KEYDOWN_MASK ELSE 0)) = <<c, d>>
<1>1. c % 8 = c /\ (c + 8) % 8 = c
  OBVIOUS
<1> QED
  BY <1>1 DEF Decode, KEYDOWN_MASK, KeyCodes

(* A code added in front of a free place is the last of the ring.          *)
LEMMA RingAdds ==
  ASSUME NEW q \in [Places -> KeyCodes], NEW f \in Places, NEW r \in Places, NEW c \in KeyCodes,
         (r + 1) % KEY_QUEUE_LEN # f
  PROVE  /\ (r + 1) % KEY_QUEUE_LEN \in Places
         /\ Ring([q EXCEPT ![r] = c], f, (r + 1) % KEY_QUEUE_LEN) = Append(Ring(q, f, r), Decode(c))
<1> DEFINE L == KEY_QUEUE_LEN
           s == (r + 1) % L
           n == (r - f) % L
           g == [q EXCEPT ![r] = c]
<1>0. L \in Nat /\ L > 1 /\ f \in 0 .. L - 1 /\ r \in 0 .. L - 1 /\ Places = 0 .. L - 1
  BY IoParameters DEF Places
<1>1. /\ n = IF r >= f THEN r - f ELSE r - f + L
      /\ s = IF r + 1 = L THEN 0 ELSE r + 1
      /\ \A i \in 1 .. L : (f + i - 1) % L = IF f + i - 1 < L THEN f + i - 1 ELSE f + i - 1 - L
  BY RingPlaces
<1>2. s \in 0 .. L - 1 /\ (s - f) % L = IF s >= f THEN s - f ELSE s - f + L
  <2>1. s \in Places
    BY <1>0, <1>1
  <2> QED
    BY <1>0, <2>1, RingPlaces
<1> HIDE DEF L, s, n
<1>3. n \in Nat /\ n + 1 < L /\ (s - f) % L = n + 1
  BY <1>0, <1>1, <1>2 DEF s, L
<1>4. (f + (n + 1) - 1) % L = r
  BY <1>0, <1>1, <1>3
<1>5. ASSUME NEW i \in 1 .. n PROVE (f + i - 1) % L \in 0 .. L - 1 /\ (f + i - 1) % L # r
  BY <1>0, <1>1, <1>3
<1>6. ASSUME NEW i \in 1 .. n + 1
      PROVE  Decode(g[(f + i - 1) % L]) = Append(Ring(q, f, r), Decode(c))[i]
  <2>1. Ring(q, f, r) = [j \in 1 .. n |-> Decode(q[(f + j - 1) % L])]
    BY DEF Ring, L, n
  <2>2. CASE i = n + 1
    <3>1. g[(f + i - 1) % L] = c
      BY <1>0, <1>4, <2>2
    <3> QED
      BY <1>3, <2>1, <2>2, <3>1
  <2>3. CASE i # n + 1
    <3>1. i \in 1 .. n
      BY <1>3, <2>3
    <3>2. g[(f + i - 1) % L] = q[(f + i - 1) % L]
      BY <1>0, <1>5, <3>1
    <3> QED
      BY <1>3, <2>1, <3>1, <3>2
  <2> QED
    BY <2>2, <2>3
<1>7. Ring(g, f, s) = [i \in 1 .. n + 1 |-> Decode(g[(f + i - 1) % L])]
  BY <1>3 DEF Ring, L
<1>8. Append(Ring(q, f, r), Decode(c)) = [i \in 1 .. n + 1 |-> Append(Ring(q, f, r), Decode(c))[i]]
  <2>1. Ring(q, f, r) = [j \in 1 .. n |-> Decode(q[(f + j - 1) % L])]
    BY DEF Ring, L, n
  <2> QED
    BY <1>3, <2>1
<1> QED
  BY <1>0, <1>2, <1>6, <1>7, <1>8 DEF s, L

(* The code at f is the first of a ring that is not empty.                 *)
LEMMA RingTakes ==
  ASSUME NEW q \in [Places -> KeyCodes], NEW f \in Places, NEW r \in Places, f # r
  PROVE  /\ (f + 1) % KEY_QUEUE_LEN \in Places
         /\ Ring(q, f, r) = <<Decode(q[f])>> \o Ring(q, (f + 1) % KEY_QUEUE_LEN, r)
<1> DEFINE L == KEY_QUEUE_LEN
           s == (f + 1) % L
           n == (r - s) % L
<1>0. L \in Nat /\ L > 1 /\ f \in 0 .. L - 1 /\ r \in 0 .. L - 1 /\ Places = 0 .. L - 1
  BY IoParameters DEF Places
<1>1. /\ (r - f) % L = IF r >= f THEN r - f ELSE r - f + L
      /\ \A i \in 1 .. L : (f + i - 1) % L = IF f + i - 1 < L THEN f + i - 1 ELSE f + i - 1 - L
  BY RingPlaces
<1>2. s = IF f + 1 = L THEN 0 ELSE f + 1
  BY RingPlaces
<1>3. /\ s \in 0 .. L - 1 /\ n = IF r >= s THEN r - s ELSE r - s + L
      /\ \A i \in 1 .. L : (s + i - 1) % L = IF s + i - 1 < L THEN s + i - 1 ELSE s + i - 1 - L
  <2>1. s \in Places
    BY <1>0, <1>2
  <2> QED
    BY <1>0, <2>1, RingPlaces
<1> HIDE DEF L, s, n
<1>4. n \in Nat /\ n + 1 < L + 1 /\ (r - f) % L = n + 1
  BY <1>0, <1>1, <1>2, <1>3
<1>5. (f + 1 - 1) % L = f
  BY <1>0, <1>1
<1>6. ASSUME NEW i \in 2 .. n + 1 PROVE (f + i - 1) % L = (s + (i - 1) - 1) % L
  <2>1. i \in 1 .. L /\ i - 1 \in 1 .. L
    BY <1>0, <1>4
  <2> QED
    BY <1>0, <1>1, <1>2, <1>3, <2>1
<1>7. /\ Ring(q, f, r) = [i \in 1 .. n + 1 |-> Decode(q[(f + i - 1) % L])]
      /\ Ring(q, s, r) = [i \in 1 .. n |-> Decode(q[(s + i - 1) % L])]
  BY <1>4 DEF Ring, L, n
<1> DEFINE t == <<Decode(q[f])>> \o Ring(q, s, r)
<1>8. t = [i \in 1 .. n + 1 |-> IF i = 1 THEN Decode(q[f]) ELSE Decode(q[(s + (i - 1) - 1) % L])]
  BY <1>4, <1>7
<1>9. ASSUME NEW i \in 1 .. n + 1
      PROVE  Decode(q[(f + i - 1) % L]) = IF i = 1 THEN Decode(q[f]) ELSE Decode(q[(s + (i - 1) - 1) % L])
  BY <1>4, <1>5, <1>6
<1> HIDE DEF t
<1>10. Ring(q, f, r) = t
  BY <1>7, <1>8, <1>9
<1> QED
  BY <1>0, <1>3, <1>10 DEF s, L, t

(* What the loop over the events works on.                                 *)
LoopStates == [st : {"RUNNING", "QUIT", "ABORT"}, q : [Places -> KeyCodes], r : Places]

(* One event: a key pressed or released while the machine runs is the last *)
(* of the ring, unless the ring is full; any other leaves the ring.        *)
LEMMA OneEvent ==
  ASSUME NEW D \in LoopStates, NEW e \in Events, key_f \in Places
  PROVE  LET E == HandleEvent(D, e) IN
         /\ E \in LoopStates
         /\ E.st = "RUNNING" => D.st = "RUNNING"
         /\ E.st = "RUNNING" => Ring(E.q, key_f, E.r) =
              IF IsKey(e) THEN Append(Ring(D.q, key_f, D.r), e) ELSE Ring(D.q, key_f, D.r)
<1> DEFINE E == HandleEvent(D, e)
<1>1. D.st \in {"RUNNING", "QUIT", "ABORT"} /\ D.q \in [Places -> KeyCodes] /\ D.r \in Places
  BY DEF LoopStates
<1>2. D = [st |-> D.st, q |-> D.q, r |-> D.r]
  BY DEF LoopStates
<1>3. CASE D.st = "ABORT"
  BY <1>3 DEF HandleEvent
<1>4. CASE D.st # "ABORT" /\ e = <<>>
  <2>1. E = [D EXCEPT !.st = "QUIT"]
    BY <1>4 DEF HandleEvent
  <2>2. E.st = "QUIT" /\ E \in LoopStates
    BY <2>1 DEF LoopStates
  <2> QED
    BY <2>2
<1>5. CASE D.st # "ABORT" /\ e # <<>>
  <2>1. PICK c \in Keys, d \in BOOLEAN : e = <<c, d>>
    BY <1>5 DEF Events
  <2>2. e[1] = c /\ e[2] = d /\ c \in 0 .. 7 /\ (IsKey(e) <=> c # 0)
    BY <1>5, <2>1, IoParameters DEF IsKey
  <2>3. E = send_key(D, c, d)
    BY <1>5, <2>2 DEF HandleEvent
  <2>4. CASE ~(D.st = "RUNNING" /\ c # 0)
    <3>1. E = D
      BY <2>3, <2>4 DEF send_key, _KEY_NONE
    <3> QED
      BY <2>2, <2>4, <3>1
  <2>5. CASE D.st = "RUNNING" /\ c # 0
    <3> DEFINE code == c + (IF d THEN KEYDOWN_MASK ELSE 0)
               r == (D.r + 1) % KEY_QUEUE_LEN
    <3>1. code \in KeyCodes /\ Decode(code) = e
      BY <2>1, <2>2, Decoded
    <3>2. E = key_enqueue(D, code)
      BY <2>3, <2>5 DEF send_key, _KEY_NONE
    <3> HIDE DEF code, E
    <3>3. E = [st |-> IF r = key_f THEN "ABORT" ELSE D.st, q |-> [D.q EXCEPT ![D.r] = code], r |-> r]
      <4>1. E = [D EXCEPT !.q[D.r] = code, !.r = r, !.st = IF r = key_f THEN "ABORT" ELSE D.st]
        BY <3>2 DEF key_enqueue
      <4> HIDE DEF r
      <4> QED
        BY <1>2, <4>1
    <3>4. r \in Places
      <4>1. D.r + 1 \in Nat /\ KEY_QUEUE_LEN \in Nat /\ KEY_QUEUE_LEN > 0
        BY <1>1, IoParameters DEF Places
      <4> QED
        BY <4>1 DEF Places
    <3> HIDE DEF r
    <3>5. E \in LoopStates
      <4>1. [D.q EXCEPT ![D.r] = code] \in [Places -> KeyCodes]
        BY <1>1, <3>1
      <4>2. (IF r = key_f THEN "ABORT" ELSE D.st) \in {"RUNNING", "QUIT", "ABORT"}
        BY <1>1
      <4> QED
        BY <3>3, <3>4, <4>1, <4>2 DEF LoopStates
    <3>6. ASSUME r # key_f PROVE Ring(E.q, key_f, E.r) = Append(Ring(D.q, key_f, D.r), e)
      <4>1. E.q = [D.q EXCEPT ![D.r] = code] /\ E.r = r
        BY <3>3
      <4>2. Ring([D.q EXCEPT ![D.r] = code], key_f, r) = Append(Ring(D.q, key_f, D.r), Decode(code))
        BY <1>1, <3>1, <3>6, RingAdds, ZenonT(40) DEF r
      <4> QED
        BY <3>1, <4>1, <4>2
    <3>7. E.st = "RUNNING" => r # key_f
      BY <3>3
    <3> QED
      BY <2>2, <2>5, <3>5, <3>6, <3>7 DEF E
  <2> QED
    BY <2>4, <2>5
<1> QED
  BY <1>3, <1>4, <1>5

(* The state after i of the queued events.                                 *)
HandledUpTo == CHOOSE D : D = [i \in 0 .. Len(sdlq) |->
  IF i = 0 THEN [st |-> io_state, q |-> key_queue, r |-> key_r] ELSE HandleEvent(D[i - 1], sdlq[i])]

(* It is computed one event after the other, and its last value is what    *)
(* the loop leaves.                                                        *)
LEMMA Handling ==
  ASSUME sdlq \in Seq(Events), io_state = "RUNNING", key_queue \in [Places -> KeyCodes],
         key_f \in Places, key_r \in Places
  PROVE  /\ HandledUpTo \in [0 .. Len(sdlq) -> LoopStates]
         /\ HandledUpTo[0] = [st |-> io_state, q |-> key_queue, r |-> key_r]
         /\ \A i \in 1 .. Len(sdlq) : HandledUpTo[i] = HandleEvent(HandledUpTo[i - 1], sdlq[i])
         /\ EventLoop = HandledUpTo[Len(sdlq)]
<1> DEFINE n == Len(sdlq)
           a == [st |-> io_state, q |-> key_queue, r |-> key_r]
           Step(i, x) == HandleEvent(x, sdlq[i])
           G == [p \in (1 .. n) \X LoopStates |-> Step(p[1], p[2])]
           Body(D) == [i \in 0 .. n |-> IF i = 0 THEN a ELSE Step(i, D[i - 1])]
<1>0. ASSUME NEW i \in 1 .. n, NEW x \in LoopStates PROVE Step(i, x) \in LoopStates
  <2>1. sdlq[i] \in Events
    OBVIOUS
  <2> QED
    BY <2>1, OneEvent
<1>1. n \in Nat /\ a \in LoopStates /\ G \in [(1 .. n) \X LoopStates -> LoopStates]
  <2>1. a \in LoopStates
    BY DEF LoopStates
  <2> HIDE DEF Step
  <2> QED
    BY <1>0, <2>1
<1>2. PICK f : Computes(f, n, LoopStates, a, G)
  <2> HIDE DEF n, a, G
  <2> QED
    BY <1>1, Recursion
<1>3. f = Body(f)
  <2>1. f \in [0 .. n -> LoopStates] /\ f[0] = a /\ \A i \in 1 .. n : f[i] = G[<<i, f[i - 1]>>]
    BY <1>2 DEF Computes
  <2> HIDE DEF Step, a
  <2>2. \A i \in 1 .. n : f[i] = Step(i, f[i - 1])
    <3> TAKE i \in 1 .. n
    <3>1. i - 1 \in 0 .. n /\ f[i - 1] \in LoopStates
      BY <1>1, <2>1
    <3>2. f[i] = G[<<i, f[i - 1]>>]
      BY <2>1
    <3> QED
      BY <3>1, <3>2
  <2> HIDE DEF G
  <2> QED
    BY <1>1, <2>1, <2>2
<1>4. HandledUpTo = CHOOSE D : D = Body(D)
  BY DEF HandledUpTo
<1>5. EventLoop = HandledUpTo[n]
  BY DEF EventLoop, HandledUpTo
<1> DEFINE g == HandledUpTo
<1>6. g = Body(g)
  <2> HIDE DEF Body
  <2> QED
    BY <1>3, <1>4
<1>7. /\ g[0] = a /\ \A i \in 1 .. n : g[i] = Step(i, g[i - 1])
      /\ g = [i \in 0 .. n |-> g[i]]
  <2> HIDE DEF g, Step, a
  <2> QED
    BY <1>1, <1>6
<1> HIDE DEF g
<1>8. \A i \in 0 .. n : g[i] \in LoopStates
  <2> DEFINE T == {i \in 0 .. n : g[i] \in LoopStates}
  <2>1. 0 \in T
    BY <1>1, <1>7
  <2>2. ASSUME NEW i \in 1 .. n, i - 1 \in T PROVE i \in T
    <3>1. i \in 0 .. n /\ g[i - 1] \in LoopStates
      BY <2>2
    <3>2. g[i] = Step(i, g[i - 1])
      BY <1>7
    <3> HIDE DEF Step
    <3> QED
      BY <1>0, <3>1, <3>2
  <2>3. T = 0 .. n
    <3>1. T \in SUBSET (0 .. n)
      OBVIOUS
    <3> HIDE DEF T
    <3> QED
      BY <1>1, <2>1, <2>2, <3>1, UpTo
  <2> QED
    BY <2>3
<1>9. g \in [0 .. n -> LoopStates]
  BY <1>7, <1>8
<1> QED
  BY <1>5, <1>7, <1>9 DEF g

(* The loop as a whole: if the machine still runs, the keys of the queue   *)
(* are the last of the ring, in their order.                               *)
LEMMA AllEvents ==
  ASSUME sdlq \in Seq(Events), io_state = "RUNNING", key_queue \in [Places -> KeyCodes],
         key_f \in Places, key_r \in Places
  PROVE  /\ EventLoop \in LoopStates
         /\ EventLoop.st = "RUNNING" =>
              Ring(EventLoop.q, key_f, EventLoop.r) = Ring(key_queue, key_f, key_r) \o KeyEvents(sdlq)
<1> DEFINE n == Len(sdlq)
           D == HandledUpTo
           K == KeysOf(sdlq)
           R == Ring(key_queue, key_f, key_r)
           T == {i \in 0 .. n : D[i].st = "RUNNING" => Ring(D[i].q, key_f, D[i].r) = R \o K[i]}
<1>0. n \in Nat /\ \A i \in 1 .. n : sdlq[i] \in Events
  OBVIOUS
<1>1. /\ D \in [0 .. n -> LoopStates] /\ D[0] = [st |-> io_state, q |-> key_queue, r |-> key_r]
      /\ \A i \in 1 .. n : D[i] = HandleEvent(D[i - 1], sdlq[i])
      /\ EventLoop = D[n]
  BY Handling
<1>2. /\ K \in [0 .. n -> Seq(Events)] /\ K[0] = <<>> /\ KeyEvents(sdlq) = K[n]
      /\ \A i \in 1 .. n : K[i] = IF IsKey(sdlq[i]) THEN Append(K[i - 1], sdlq[i]) ELSE K[i - 1]
  BY KeysOfIs
<1>3. R \in Seq(Nat \X BOOLEAN)
  <2>1. (key_r - key_f) % KEY_QUEUE_LEN \in Nat
    <3>1. key_r - key_f \in Int /\ KEY_QUEUE_LEN \in Nat /\ KEY_QUEUE_LEN > 0
      BY IoParameters DEF Places
    <3> QED
      BY <3>1
  <2>2. ASSUME NEW i \in 1 .. (key_r - key_f) % KEY_QUEUE_LEN
        PROVE  Decode(key_queue[(key_f + i - 1) % KEY_QUEUE_LEN]) \in Nat \X BOOLEAN
    <3>1. (key_f + i - 1) % KEY_QUEUE_LEN \in Places
      <4>1. key_f + i - 1 \in Int /\ KEY_QUEUE_LEN \in Nat /\ KEY_QUEUE_LEN > 0
        BY <2>1, IoParameters DEF Places
      <4> QED
        BY <4>1 DEF Places
    <3>2. key_queue[(key_f + i - 1) % KEY_QUEUE_LEN] \in KeyCodes
      BY <3>1
    <3> DEFINE c == key_queue[(key_f + i - 1) % KEY_QUEUE_LEN]
    <3>3. c \in Nat
      BY <3>2 DEF KeyCodes
    <3> HIDE DEF c
    <3>4. c % 8 \in Nat /\ (c >= 8) \in BOOLEAN
      BY <3>3
    <3>5. Decode(c) \in Nat \X BOOLEAN
      BY <3>4 DEF KEYDOWN_MASK, Decode
    <3> QED
      BY <3>5 DEF c
  <2> QED
    BY <2>1, <2>2, SMTT(30) DEF Ring
<1> HIDE DEF n, D, K, R
<1>4. 0 \in T
  <2>1. D[0].q = key_queue /\ D[0].r = key_r
    BY <1>1
  <2>2. R \o <<>> = R
    BY <1>3
  <2>3. Ring(key_queue, key_f, key_r) = R
    BY DEF R
  <2>4. Ring(D[0].q, key_f, D[0].r) = R \o K[0]
    BY <1>2, <2>1, <2>2, <2>3, Zenon
  <2>5. 0 \in 0 .. n
    BY <1>0
  <2> QED
    BY <2>4, <2>5, Zenon
<1>5. ASSUME NEW i \in 1 .. n, i - 1 \in T PROVE i \in T
  <2>0. i \in 0 .. n /\ i - 1 \in 0 .. n
    BY <1>0
  <2>1. SUFFICES ASSUME D[i].st = "RUNNING" PROVE Ring(D[i].q, key_f, D[i].r) = R \o K[i]
    BY <2>0
  <2> DEFINE E == D[i - 1]  e == sdlq[i]
  <2>2. E \in LoopStates /\ e \in Events /\ D[i] = HandleEvent(E, e)
    BY <1>0, <1>1, <2>0
  <2>3. /\ E.st = "RUNNING"
        /\ Ring(D[i].q, key_f, D[i].r) = IF IsKey(e) THEN Append(Ring(E.q, key_f, E.r), e) ELSE Ring(E.q, key_f, E.r)
    <3> HIDE DEF E, e
    <3> QED
      BY <2>1, <2>2, OneEvent
  <2>4. Ring(E.q, key_f, E.r) = R \o K[i - 1]
    BY <1>5, <2>3
  <2>5. K[i - 1] \in Seq(Events) /\ K[i] = IF IsKey(e) THEN Append(K[i - 1], e) ELSE K[i - 1]
    BY <1>2, <2>0
  <2>6. Append(R \o K[i - 1], e) = R \o Append(K[i - 1], e)
    <3> DEFINE U == Events \cup (Nat \X BOOLEAN)
               y == K[i - 1]
    <3>1. R \in Seq(U) /\ y \in Seq(U) /\ e \in U
      BY <1>3, <2>2, <2>5
    <3> HIDE DEF U, e, y, T, E
    <3>2. Append(R \o y, e) = R \o Append(y, e)
      <4> DEFINE a == Append(R \o y, e)
                 b == R \o Append(y, e)
      <4>1. a \in Seq(U) /\ b \in Seq(U) /\ Len(a) = Len(R) + Len(y) + 1 /\ Len(b) = Len(R) + Len(y) + 1
        BY <3>1
      <4>2. ASSUME NEW j \in 1 .. Len(R) + Len(y) + 1 PROVE a[j] = b[j]
        BY <3>1, SMTT(30)
      <4> HIDE DEF a, b
      <4>3. a = b
        BY <4>1, <4>2
      <4> QED
        BY <4>3 DEF a, b
    <3> QED
      BY <3>2 DEF y
  <2> QED
    BY <2>3, <2>4, <2>5, <2>6
<1>6. T = 0 .. n
  <2>1. T \in SUBSET (0 .. n)
    OBVIOUS
  <2> HIDE DEF T
  <2> QED
    BY <1>0, <1>4, <1>5, <2>1, UpTo
<1>7. n \in T
  BY <1>0, <1>6
<1> QED
  BY <1>0, <1>1, <1>2, <1>7 DEF R

(* A drawing that has begun stays within the frame buffer.                 *)
DrawOK ==
  /\ draw \in [next : 0 .. Pixels + 1, last : 0 .. Pixels, sync : BOOLEAN]
  /\ draw # NoDraw => draw.next >= 1

(* The inductive invariant of keyboard and screen.                         *)
IoInv ==
  /\ IoTypeOK /\ DrawOK
  /\ typed \in Seq(Events \cup (Nat \X BOOLEAN)) /\ got \in Seq(Nat \X BOOLEAN) /\ dropped \in BOOLEAN
  /\ KeysInOrder

(* A ring is a sequence of scancodes with directions.                      *)
LEMMA RingType ==
  ASSUME NEW q \in [Places -> KeyCodes], NEW f \in Places, NEW r \in Places
  PROVE  Ring(q, f, r) \in Seq(Nat \X BOOLEAN)
<1>1. (r - f) % KEY_QUEUE_LEN \in Nat
  <2>1. r - f \in Int /\ KEY_QUEUE_LEN \in Nat /\ KEY_QUEUE_LEN > 0
    BY IoParameters DEF Places
  <2> QED
    BY <2>1
<1>2. ASSUME NEW i \in 1 .. (r - f) % KEY_QUEUE_LEN
      PROVE  Decode(q[(f + i - 1) % KEY_QUEUE_LEN]) \in Nat \X BOOLEAN
  <2>1. (f + i - 1) % KEY_QUEUE_LEN \in Places
    <3>1. f + i - 1 \in Int /\ KEY_QUEUE_LEN \in Nat /\ KEY_QUEUE_LEN > 0
      BY <1>1, IoParameters DEF Places
    <3> QED
      BY <3>1 DEF Places
  <2> DEFINE c == q[(f + i - 1) % KEY_QUEUE_LEN]
  <2>2. c \in Nat
    BY <2>1 DEF KeyCodes
  <2> HIDE DEF c
  <2>3. c % 8 \in Nat /\ (c >= 8) \in BOOLEAN
    BY <2>2
  <2>4. Decode(c) \in Nat \X BOOLEAN
    BY <2>3 DEF KEYDOWN_MASK, Decode
  <2> QED
    BY <2>4 DEF c
<1> QED
  BY <1>1, <1>2 DEF Ring

(* What the types say of the ring, and what is queued in it.               *)
LEMMA RingState ==
  ASSUME IoTypeOK
  PROVE  /\ key_queue \in [Places -> KeyCodes] /\ key_f \in Places /\ key_r \in Places
         /\ Queued = Ring(key_queue, key_f, key_r) /\ Queued \in Seq(Nat \X BOOLEAN)
         /\ sdlq \in Seq(Events) /\ KeyEvents(sdlq) \in Seq(Events)
<1>1. /\ key_queue \in [Places -> KeyCodes] /\ key_f \in Places /\ key_r \in Places /\ sdlq \in Seq(Events)
      /\ Queued = Ring(key_queue, key_f, key_r)
  BY DEF IoTypeOK, Places, KeyCodes, Queued, Ring
<1>2. KeyEvents(sdlq) \in Seq(Events)
  <2>1. Len(sdlq) \in 0 .. Len(sdlq)
    BY <1>1
  <2> QED
    BY <1>1, <2>1, KeysOfIs
<1> QED
  BY <1>1, <1>2, RingType

(* A machine that has just started satisfies the invariant.                *)
LEMMA IoStarts == IoInit => IoInv
<1> SUFFICES ASSUME IoInit PROVE IoInv
  OBVIOUS
<1> USE IoParameters DEF IoInit
<1>0. KEY_QUEUE_LEN - 1 \in Nat /\ 0 \in 0 .. KEY_QUEUE_LEN - 1 /\ 0 \in 0 .. MaxDraws
  OBVIOUS
<1>1. IoTypeOK
  <2>1. key_queue \in [0 .. KEY_QUEUE_LEN - 1 -> 0 .. 2 * KEYDOWN_MASK - 1]
    BY DEF KEYDOWN_MASK
  <2>2. vmem \in [1 .. Pixels -> 0 .. MaxDraws] /\ screen \in [1 .. Pixels -> 0 .. MaxDraws]
    BY <1>0
  <2>3. sdlq \in Seq(Events)
    OBVIOUS
  <2> QED
    BY <1>0, <2>1, <2>2, <2>3, Zenon DEF IoTypeOK
<1>2. DrawOK
  BY DEF DrawOK, NoDraw
<1>3. KeyEvents(sdlq) = <<>>
  <2>1. sdlq \in Seq(Events) /\ Len(sdlq) = 0
    OBVIOUS
  <2> QED
    BY <2>1, KeysOfIs
<1>4. Queued = <<>>
  <2>1. (0 - 0) % KEY_QUEUE_LEN = 0
    OBVIOUS
  <2>2. 1 .. 0 = {}
    OBVIOUS
  <2> QED
    BY <2>1, <2>2 DEF Queued
<1>5. typed = got \o Queued \o KeyEvents(sdlq)
  BY <1>3, <1>4
<1>6. KeysInOrder
  BY <1>5, Zenon DEF KeysInOrder
<1>7. typed \in Seq(Events \cup (Nat \X BOOLEAN)) /\ got \in Seq(Nat \X BOOLEAN) /\ dropped \in BOOLEAN
  <2>1. \A S : <<>> \in Seq(S)
    OBVIOUS
  <2> QED
    BY <2>1, Zenon
<1> QED
  BY <1>1, <1>2, <1>6, <1>7, Zenon DEF IoInv

(* A step that leaves keyboard and events alone keeps the keys in order.   *)
LEMMA KeysKept ==
  ASSUME KeysInOrder, UNCHANGED <<key_queue, key_f, key_r, sdlq, typed, got, dropped>>,
         io_state' # "ABORT" => io_state # "ABORT"
  PROVE  KeysInOrder'
<1>1. Queued' = Queued /\ KeyEvents(sdlq)' = KeyEvents(sdlq)
  BY DEF Queued, KeyEvents, Decode
<1> QED
  BY <1>1, Zenon DEF KeysInOrder

(* The user presses or releases a key, or closes the window.               *)
LEMMA IoUser ==
  ASSUME IoInv, NEW e \in Events, UserEvent(e) PROVE IoInv'
<1> DEFINE U == Events \cup (Nat \X BOOLEAN)
           K == KeyEvents(sdlq)
           Q == Queued
<1>0. IoTypeOK /\ DrawOK /\ typed \in Seq(U) /\ got \in Seq(Nat \X BOOLEAN) /\ dropped \in BOOLEAN /\ KeysInOrder
  BY DEF IoInv
<1>1. sdlq \in Seq(Events) /\ Q \in Seq(Nat \X BOOLEAN) /\ K \in Seq(Events)
  BY <1>0, RingState
<1>2. /\ sdlq' = Append(sdlq, e) /\ typed' = IF IsKey(e) THEN Append(typed, e) ELSE typed
      /\ UNCHANGED <<io_state, key_queue, key_f, key_r, sync, vmem, screen, draw, draws, got, dropped>>
  BY DEF UserEvent, keyboard, vga, drawing
<1>3. IoTypeOK' /\ DrawOK'
  <2>1. sdlq' \in Seq(Events)
    BY <1>1, <1>2
  <2>2. UNCHANGED <<io_state, key_queue, key_f, key_r, sync, vmem, screen, draws>>
    BY <1>2
  <2> QED
    BY <1>0, <1>2, <2>1, <2>2, Zenon DEF IoTypeOK, DrawOK
<1>4. typed' \in Seq(U) /\ got' \in Seq(Nat \X BOOLEAN) /\ dropped' \in BOOLEAN
  <2>1. e \in U
    OBVIOUS
  <2> HIDE DEF U
  <2> QED
    BY <1>0, <1>2, <2>1
<1>5. Queued' = Q
  BY <1>2 DEF Queued, Decode
<1>6. KeyEvents(sdlq)' = IF IsKey(e) THEN Append(K, e) ELSE K
  BY <1>1, <1>2, KeyEventsAppend
<1>7. KeysInOrder'
  <2>1. SUFFICES ASSUME ~dropped', io_state' # "ABORT"
                 PROVE  typed' = got' \o Queued' \o KeyEvents(sdlq)'
    BY DEF KeysInOrder
  <2>2. typed = got \o Q \o K
    BY <1>0, <1>2, <2>1 DEF KeysInOrder
  <2>3. CASE ~IsKey(e)
    BY <1>2, <1>5, <1>6, <2>2, <2>3, Zenon
  <2>4. CASE IsKey(e)
    <3>1. got \in Seq(U) /\ Q \in Seq(U) /\ K \in Seq(U) /\ e \in U
      BY <1>0, <1>1
    <3> HIDE DEF U, K, Q
    <3> DEFINE s == got \o Q
               a == Append(s \o K, e)
               b == s \o Append(K, e)
    <3>2. s \in Seq(U)
      BY <3>1
    <3> HIDE DEF s
    <3>3. a \in Seq(U) /\ b \in Seq(U) /\ Len(a) = Len(s) + Len(K) + 1 /\ Len(b) = Len(s) + Len(K) + 1
      BY <3>1, <3>2
    <3>4. ASSUME NEW j \in 1 .. Len(s) + Len(K) + 1 PROVE a[j] = b[j]
      BY <3>1, <3>2
    <3> HIDE DEF a, b
    <3>5. a = b
      BY <3>3, <3>4
    <3>6. typed' = a
      BY <1>2, <2>2, <2>4 DEF a, s
    <3>7. got' \o Queued' \o KeyEvents(sdlq)' = b
      BY <1>2, <1>5, <1>6, <2>4 DEF b, s
    <3> QED
      BY <3>5, <3>6, <3>7
  <2> QED
    BY <2>3, <2>4
<1> QED
  BY <1>3, <1>4, <1>7, Zenon DEF IoInv

(* The loop stops.                                                         *)
LEMMA IoStop == IoInv /\ Stop => IoInv'
<1> SUFFICES ASSUME IoInv, Stop PROVE IoInv'
  OBVIOUS
<1>1. /\ io_state = "RUNNING" /\ io_state' = "STOP"
      /\ UNCHANGED <<sdlq, key_queue, key_f, key_r, sync, vmem, screen, draw, draws, typed, got, dropped>>
  BY DEF Stop, keyboard, vga, drawing, history
<1>2. KeysInOrder'
  BY <1>1, KeysKept DEF IoInv
<1>3. IoTypeOK' /\ DrawOK'
  <2>1. io_state' \in {"RUNNING", "STOP", "QUIT", "ABORT"}
    BY <1>1
  <2> QED
    BY <1>1, <2>1, Zenon DEF IoInv, IoTypeOK, DrawOK
<1> QED
  BY <1>1, <1>2, <1>3, Zenon DEF IoInv

(* A queue without keys has no key events.                                 *)
LEMMA NoKeys ==
  ASSUME NEW q \in Seq(Events), \A i \in 1 .. Len(q) : ~IsKey(q[i])
  PROVE  KeyEvents(q) = <<>>
<1> DEFINE n == Len(q)
           f == KeysOf(q)
           T == {i \in 0 .. n : f[i] = <<>>}
<1>1. /\ n \in Nat /\ f[0] = <<>> /\ KeyEvents(q) = f[n]
      /\ \A i \in 1 .. n : f[i] = f[i - 1]
  BY KeysOfIs
<1> HIDE DEF f, n
<1>2. 0 \in T
  BY <1>1
<1>3. ASSUME NEW i \in 1 .. n, i - 1 \in T PROVE i \in T
  <2>1. i \in 0 .. n /\ f[i] = f[i - 1] /\ f[i - 1] = <<>>
    BY <1>1, <1>3
  <2> QED
    BY <2>1
<1>4. T = 0 .. n
  <2>1. T \in SUBSET (0 .. n)
    OBVIOUS
  <2> HIDE DEF T
  <2> QED
    BY <1>1, <1>2, <1>3, <2>1, UpTo
<1>5. n \in T
  BY <1>1, <1>4
<1> QED
  BY <1>1, <1>5

(* The prompt clears the queue: if a key was in it, it is dropped; if not, *)
(* nothing was.                                                            *)
LEMMA IoClear == IoInv /\ sdl_clear_event_queue => IoInv'
<1> SUFFICES ASSUME IoInv, sdl_clear_event_queue PROVE IoInv'
  OBVIOUS
<1>0. IoTypeOK /\ DrawOK /\ dropped \in BOOLEAN /\ KeysInOrder
  BY DEF IoInv
<1>1. /\ io_state = "STOP" /\ io_state' = "RUNNING" /\ sdlq' = <<>>
      /\ dropped' = (dropped \/ \E i \in DOMAIN sdlq : IsKey(sdlq[i]))
      /\ UNCHANGED <<key_queue, key_f, key_r, sync, vmem, screen, draw, draws, typed, got>>
  BY DEF sdl_clear_event_queue, keyboard, vga, drawing
<1>2. KeysInOrder'
  <2>1. SUFFICES ASSUME ~dropped' PROVE typed' = got' \o Queued' \o KeyEvents(sdlq)'
    BY DEF KeysInOrder
  <2>2. ~dropped /\ \A i \in DOMAIN sdlq : ~IsKey(sdlq[i])
    BY <1>1, <2>1
  <2>3. sdlq \in Seq(Events)
    BY <1>0, RingState
  <2>4. KeyEvents(sdlq) = <<>>
    BY <2>2, <2>3, NoKeys
  <2>5. KeyEvents(sdlq') = <<>>
    <3>1. sdlq' \in Seq(Events) /\ Len(sdlq') = 0
      BY <1>1
    <3> QED
      BY <3>1, KeysOfIs
  <2>6. Queued' = Queued
    BY <1>1 DEF Queued, Decode
  <2>7. typed = got \o Queued \o KeyEvents(sdlq)
    BY <1>0, <1>1, <2>2 DEF KeysInOrder
  <2> QED
    BY <1>1, <2>4, <2>5, <2>6, <2>7, Zenon
<1>3. IoTypeOK' /\ DrawOK'
  <2>1. io_state' \in {"RUNNING", "STOP", "QUIT", "ABORT"} /\ sdlq' \in Seq(Events)
    BY <1>1
  <2> QED
    BY <1>0, <1>1, <2>1, Zenon DEF IoTypeOK, DrawOK
<1>4. dropped' \in BOOLEAN
  BY <1>1
<1> QED
  BY <1>1, <1>2, <1>3, <1>4, Zenon DEF IoInv

(* device_update: the screen, then the events.                             *)
LEMMA IoUpdate == IoInv /\ io_device_update => IoInv'
<1> SUFFICES ASSUME IoInv, io_device_update PROVE IoInv'
  OBVIOUS
<1> DEFINE E == EventLoop
           U == Events \cup (Nat \X BOOLEAN)
           K == KeyEvents(sdlq)
<1>0. IoTypeOK /\ DrawOK /\ dropped \in BOOLEAN /\ KeysInOrder /\ got \in Seq(Nat \X BOOLEAN)
  BY DEF IoInv
<1>1. /\ key_queue \in [Places -> KeyCodes] /\ key_f \in Places /\ key_r \in Places
      /\ Queued = Ring(key_queue, key_f, key_r) /\ Queued \in Seq(Nat \X BOOLEAN)
      /\ sdlq \in Seq(Events) /\ K \in Seq(Events)
  BY <1>0, RingState
<1>2. /\ io_state = "RUNNING" /\ io_state' = E.st /\ key_queue' = E.q /\ key_r' = E.r
      /\ dropped' = (dropped \/ E.st = "QUIT") /\ sdlq' = <<>>
      /\ UNCHANGED <<key_f, draw, draws, typed, got>>
  BY DEF io_device_update, drawing
<1>3. /\ E \in LoopStates
      /\ E.st = "RUNNING" => Ring(E.q, key_f, E.r) = Ring(key_queue, key_f, key_r) \o K
  BY <1>1, <1>2, AllEvents
<1>4. E.st \in {"RUNNING", "QUIT", "ABORT"} /\ E.q \in [Places -> KeyCodes] /\ E.r \in Places
  BY <1>3 DEF LoopStates
<1> HIDE DEF E, K
<1>5. sync' = 0 /\ vmem' = vmem /\ screen' \in {vmem, screen}
  BY DEF io_device_update, vga_update_screen
<1>6. IoTypeOK'
  <2>1. io_state' \in {"RUNNING", "STOP", "QUIT", "ABORT"} /\ sdlq' \in Seq(Events) /\ sync' \in {0, 1}
    BY <1>2, <1>4, <1>5
  <2>2. {vmem', screen'} \subseteq [1 .. Pixels -> 0 .. MaxDraws]
    <3>1. {vmem, screen} \subseteq [1 .. Pixels -> 0 .. MaxDraws]
      BY <1>0, Zenon DEF IoTypeOK
    <3> QED
      BY <1>5, <3>1, Zenon
  <2>3. /\ key_queue' \in [0 .. KEY_QUEUE_LEN - 1 -> 0 .. 2 * KEYDOWN_MASK - 1]
        /\ key_r' \in 0 .. KEY_QUEUE_LEN - 1
    BY <1>2, <1>4, Zenon DEF Places, KeyCodes
  <2>4. key_f' \in 0 .. KEY_QUEUE_LEN - 1 /\ draws' \in 0 .. MaxDraws
    BY <1>0, <1>2, Zenon DEF IoTypeOK
  <2> QED
    BY <2>1, <2>2, <2>3, <2>4, Zenon DEF IoTypeOK
<1>7. DrawOK'
  BY <1>0, <1>2, Zenon DEF DrawOK
<1>8. KeysInOrder'
  <2>1. SUFFICES ASSUME ~dropped', io_state' # "ABORT"
                 PROVE  typed' = got' \o Queued' \o KeyEvents(sdlq)'
    BY DEF KeysInOrder
  <2>2. E.st = "RUNNING" /\ ~dropped
    BY <1>2, <1>4, <2>1
  <2>3. typed = got \o Queued \o K
    BY <1>0, <1>2, <2>2 DEF KeysInOrder, K
  <2>4. Queued' = Ring(key_queue', key_f', key_r')
    BY DEF Queued, Ring, Decode
  <2>5. Queued' = Queued \o K
    BY <1>1, <1>2, <1>3, <2>2, <2>4, Zenon
  <2>6. KeyEvents(sdlq') = <<>>
    <3>1. sdlq' \in Seq(Events) /\ Len(sdlq') = 0
      BY <1>2
    <3> QED
      BY <3>1, KeysOfIs
  <2>7. got \in Seq(U) /\ Queued \in Seq(U) /\ K \in Seq(U)
    BY <1>0, <1>1
  <2> DEFINE Q == Queued
             a == got \o Q \o K
             b == got \o (Q \o K)
  <2> HIDE DEF Q, U
  <2>8. Q \in Seq(U)
    BY <2>7 DEF Q
  <2>9. a \in Seq(U) /\ b \in Seq(U) /\ Len(a) = Len(got) + Len(Q) + Len(K) /\ Len(b) = Len(got) + Len(Q) + Len(K)
    BY <2>7, <2>8
  <2>10. ASSUME NEW j \in 1 .. Len(got) + Len(Q) + Len(K) PROVE a[j] = b[j]
    BY <2>7, <2>8
  <2> HIDE DEF a, b
  <2>11. a = b
    BY <2>9, <2>10
  <2>12. b \o <<>> = b
    BY <2>9
  <2>13. typed' = a
    BY <1>2, <2>3 DEF a, Q
  <2>14. got' \o Queued' \o KeyEvents(sdlq)' = b \o <<>>
    BY <1>2, <2>5, <2>6 DEF b, Q
  <2> QED
    BY <2>11, <2>12, <2>13, <2>14, Zenon
<1>9. dropped' \in BOOLEAN
  BY <1>2
<1> QED
  BY <1>2, <1>6, <1>7, <1>8, <1>9, Zenon DEF IoInv

(* The guest reads a key: the first of the ring is the last it has got.    *)
LEMMA IoRead == IoInv /\ __am_input_keybrd => IoInv'
<1> SUFFICES ASSUME IoInv, __am_input_keybrd PROVE IoInv'
  OBVIOUS
<1> DEFINE U == Events \cup (Nat \X BOOLEAN)
           K == KeyEvents(sdlq)
           e == Decode(key_queue[key_f])
<1>0. IoTypeOK /\ DrawOK /\ dropped \in BOOLEAN /\ KeysInOrder /\ got \in Seq(Nat \X BOOLEAN)
  BY DEF IoInv
<1>1. /\ key_queue \in [Places -> KeyCodes] /\ key_f \in Places /\ key_r \in Places
      /\ Queued = Ring(key_queue, key_f, key_r) /\ Queued \in Seq(Nat \X BOOLEAN)
      /\ sdlq \in Seq(Events) /\ K \in Seq(Events)
  BY <1>0, RingState
<1>2. /\ key_f # key_r /\ got' = Append(got, e) /\ key_f' = (key_f + 1) % KEY_QUEUE_LEN
      /\ UNCHANGED <<io_state, sdlq, key_queue, key_r, sync, vmem, screen, draw, draws, typed, dropped>>
  BY DEF __am_input_keybrd, key_dequeue, vga, drawing
<1>3. key_f' \in Places /\ Ring(key_queue, key_f, key_r) = <<e>> \o Ring(key_queue, key_f', key_r)
  BY <1>1, <1>2, RingTakes
<1>4. e \in Nat \X BOOLEAN
  <2>1. key_queue[key_f] \in Nat
    BY <1>1 DEF KeyCodes
  <2> DEFINE c == key_queue[key_f]
  <2> HIDE DEF c
  <2>2. c % 8 \in Nat /\ (c >= 8) \in BOOLEAN
    BY <2>1 DEF c
  <2>3. Decode(c) \in Nat \X BOOLEAN
    BY <2>2 DEF KEYDOWN_MASK, Decode
  <2> QED
    BY <2>3 DEF c
<1> HIDE DEF e, K
<1>5. IoTypeOK' /\ DrawOK' /\ got' \in Seq(Nat \X BOOLEAN)
  <2>1. key_f' \in 0 .. KEY_QUEUE_LEN - 1
    BY <1>3 DEF Places
  <2>2. IoTypeOK' /\ DrawOK'
    BY <1>0, <1>2, <2>1, Zenon DEF IoTypeOK, DrawOK
  <2> QED
    BY <1>0, <1>2, <1>4, <2>2
<1>6. KeysInOrder'
  <2>1. SUFFICES ASSUME ~dropped', io_state' # "ABORT"
                 PROVE  typed' = got' \o Queued' \o KeyEvents(sdlq)'
    BY DEF KeysInOrder
  <2>2. typed = got \o Queued \o K
    BY <1>0, <1>2, <2>1 DEF KeysInOrder, K
  <2> DEFINE Q == Queued  R == Queued'
  <2>3. R = Ring(key_queue, key_f', key_r) /\ Q = <<e>> \o R
    <3>1. R = Ring(key_queue, key_f', key_r)
      BY <1>2 DEF Queued, Ring, Decode
    <3> QED
      BY <1>1, <1>3, <3>1
  <2>4. R \in Seq(Nat \X BOOLEAN)
    BY <1>1, <1>3, <2>3, RingType
  <2>5. got \in Seq(U) /\ R \in Seq(U) /\ K \in Seq(U) /\ e \in U
    BY <1>0, <1>1, <1>4, <2>4
  <2> HIDE DEF Q, R, U
  <2> DEFINE a == got \o (<<e>> \o R)
             b == Append(got, e) \o R
  <2>7. a \in Seq(U) /\ b \in Seq(U) /\ Len(a) = Len(got) + Len(R) + 1 /\ Len(b) = Len(got) + Len(R) + 1
    BY <2>5
  <2>8. ASSUME NEW j \in 1 .. Len(got) + Len(R) + 1 PROVE a[j] = b[j]
    BY <2>5
  <2> HIDE DEF a, b
  <2>9. a = b
    BY <2>7, <2>8
  <2>10. typed' = a \o K
    BY <1>2, <2>2, <2>3 DEF a, Q
  <2>11. KeyEvents(sdlq)' = K
    BY <1>2 DEF K
  <2>12. got' \o Queued' = b
    BY <1>2 DEF b, R
  <2> QED
    BY <2>9, <2>10, <2>11, <2>12, Zenon
<1> QED
  BY <1>2, <1>5, <1>6, Zenon DEF IoInv

(* The guest draws: a call begins.                                         *)
LEMMA IoCall ==
  ASSUME IoInv, NEW a \in 1 .. Pixels, NEW b \in 0 .. Pixels, NEW s \in BOOLEAN, FbdrawCall(a, b, s)
  PROVE  IoInv'
<1>1. /\ draw' = [next |-> a, last |-> b, sync |-> s] /\ draws' = draws + 1 /\ draws < MaxDraws
      /\ UNCHANGED <<io_state, sdlq, key_queue, key_f, key_r, sync, vmem, screen, typed, got, dropped>>
  BY DEF FbdrawCall, keyboard, vga, history
<1>2. KeysInOrder'
  BY <1>1, KeysKept DEF IoInv
<1>3. draws' \in 0 .. MaxDraws
  BY <1>1, IoParameters DEF IoInv, IoTypeOK
<1>4. IoTypeOK'
  BY <1>1, <1>3, Zenon DEF IoInv, IoTypeOK
<1>5. DrawOK'
  <2>1. a \in 0 .. Pixels + 1 /\ a >= 1
    BY IoParameters
  <2> QED
    BY <1>1, <2>1 DEF DrawOK
<1> QED
  BY <1>1, <1>2, <1>4, <1>5, Zenon DEF IoInv

(* The guest stores a pixel.                                               *)
LEMMA IoPixel == IoInv /\ PutPixel => IoInv'
<1> SUFFICES ASSUME IoInv, PutPixel PROVE IoInv'
  OBVIOUS
<1>1. /\ draw # NoDraw /\ draw.next <= draw.last /\ vmem' = [vmem EXCEPT ![draw.next] = draws]
      /\ draw' = IF draw.next = draw.last /\ ~draw.sync THEN NoDraw ELSE [draw EXCEPT !.next = @ + 1]
      /\ UNCHANGED <<io_state, sdlq, key_queue, key_f, key_r, sync, screen, draws, typed, got, dropped>>
  BY DEF PutPixel, keyboard, history
<1>2. KeysInOrder'
  BY <1>1, KeysKept DEF IoInv
<1>3. draw.next \in 1 .. Pixels /\ draw.last \in 0 .. Pixels /\ draw \in [next : 0 .. Pixels + 1, last : 0 .. Pixels, sync : BOOLEAN]
  BY <1>1, IoParameters DEF IoInv, DrawOK
<1>4. vmem \in [1 .. Pixels -> 0 .. MaxDraws] /\ screen \in [1 .. Pixels -> 0 .. MaxDraws] /\ draws \in 0 .. MaxDraws
  BY Zenon DEF IoInv, IoTypeOK
<1>5. vmem' \in [1 .. Pixels -> 0 .. MaxDraws]
  BY <1>1, <1>3, <1>4
<1>6. {vmem', screen'} \subseteq [1 .. Pixels -> 0 .. MaxDraws]
  BY <1>1, <1>4, <1>5, Zenon
<1>7. IoTypeOK'
  BY <1>1, <1>6, Zenon DEF IoInv, IoTypeOK
<1>8. DrawOK'
  <2>1. draw.next + 1 \in 0 .. Pixels + 1 /\ draw.next + 1 >= 1
    BY <1>3, IoParameters
  <2>2. CASE draw.next = draw.last /\ ~draw.sync
    BY <1>1, <2>2, IoParameters DEF DrawOK, NoDraw
  <2>3. CASE ~(draw.next = draw.last /\ ~draw.sync)
    <3>1. draw' = [draw EXCEPT !.next = draw.next + 1]
      BY <1>1, <2>3
    <3> QED
      BY <1>3, <2>1, <3>1 DEF DrawOK
  <2> QED
    BY <2>2, <2>3
<1> QED
  BY <1>1, <1>2, <1>7, <1>8, Zenon DEF IoInv

(* The guest asks for a refresh.                                           *)
LEMMA IoSync == IoInv /\ PutSync => IoInv'
<1> SUFFICES ASSUME IoInv, PutSync PROVE IoInv'
  OBVIOUS
<1>1. /\ draw' = NoDraw /\ sync' = 1
      /\ UNCHANGED <<io_state, sdlq, key_queue, key_f, key_r, vmem, screen, draws, typed, got, dropped>>
  BY DEF PutSync, keyboard, history
<1>2. KeysInOrder'
  BY <1>1, KeysKept DEF IoInv
<1>3. IoTypeOK'
  <2>1. sync' \in {0, 1}
    BY <1>1
  <2> QED
    BY <1>1, <2>1, Zenon DEF IoInv, IoTypeOK
<1>4. DrawOK'
  BY <1>1, IoParameters DEF DrawOK, NoDraw
<1> QED
  BY <1>1, <1>2, <1>3, <1>4, Zenon DEF IoInv

(* No key event is lost, doubled, reordered or misdecoded on its way from  *)
(* the user through SDL's queue, the ring and the driver to the guest,     *)
(* until the prompt or the end discards events or the assertion of a full  *)
(* queue fires: for every length of the ring, every number of events and   *)
(* every frame buffer; and the registers stay in range.                    *)
THEOREM KeysDelivered == IoSpec => [](IoTypeOK /\ KeysInOrder)
<1>1. IoInit => IoInv
  BY IoStarts
<1>2. IoInv /\ [IoNext]_ioVars => IoInv'
  <2> SUFFICES ASSUME IoInv, [IoNext]_ioVars PROVE IoInv'
    OBVIOUS
  <2>1. CASE \E e \in Events : UserEvent(e)
    BY <2>1, IoUser
  <2>2. CASE GuestStep
    <3>1. CASE \E a, b \in 0 .. Pixels, s \in BOOLEAN : a >= 1 /\ FbdrawCall(a, b, s)
      <4>1. PICK a \in 0 .. Pixels, b \in 0 .. Pixels, s \in BOOLEAN : a >= 1 /\ FbdrawCall(a, b, s)
        BY <3>1
      <4>2. a \in 1 .. Pixels
        BY <4>1, IoParameters
      <4> QED
        BY <4>1, <4>2, IoCall
    <3> QED
      BY <2>2, <3>1, IoRead, IoPixel, IoSync DEF GuestStep
  <2>3. CASE UNCHANGED ioVars
    <3>1. /\ UNCHANGED <<io_state, sdlq, key_queue, key_f, key_r, sync, vmem, screen, draw, draws, typed, got, dropped>>
      BY <2>3 DEF ioVars
    <3>2. KeysInOrder'
      BY <3>1, KeysKept DEF IoInv
    <3> QED
      BY <3>1, <3>2, Zenon DEF IoInv, IoTypeOK, DrawOK
  <2> QED
    BY <2>1, <2>2, <2>3, IoStop, IoClear, IoUpdate DEF IoNext
<1>3. IoInv => IoTypeOK /\ KeysInOrder
  BY DEF IoInv
<1> QED
  BY <1>1, <1>2, <1>3, PTL DEF IoSpec
=============================================================================

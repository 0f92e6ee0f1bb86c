------------------------------ MODULE NemuIo -------------------------------
(***************************************************************************)
(* Keyboard and screen of NEMU: the events SDL queues, device_update,      *)
(* which the interpreter calls between instructions (device.c), the key    *)
(* queue (keyboard.c), the sync register and the frame buffer (vga.c), the *)
(* drivers of the abstract machine (ioe/input.c, ioe/gpu.c), and the       *)
(* debugger's prompt, which clears the event queue (sdb.c).                *)
(*                                                                         *)
(* Everything but the user runs in one thread: device_update falls between *)
(* two loads or stores of the guest.                                       *)
(***************************************************************************)
EXTENDS Integers, Sequences

CONSTANTS
  KEY_QUEUE_LEN,
  Keys,       \* scancodes; 0 is one without an entry in the keymap
  Pixels,     \* pixels of the frame buffer
  MaxEvents,  \* bound on the events of the user and on those pending
  MaxDraws    \* bound on calls of the drawing driver

ASSUME IoAssumption ==
  /\ KEY_QUEUE_LEN \in Nat \ {0, 1}
  /\ Keys \subseteq 0 .. 7
  /\ Pixels \in Nat \ {0} /\ MaxEvents \in Nat /\ MaxDraws \in Nat

KEYDOWN_MASK == 8
_KEY_NONE == 0

VARIABLES
  io_state,                  \* nemu_state.state; "ABORT" is a failed Assert
  sdlq,                      \* SDL's event queue: <<scancode, is_keydown>>, or <<>> for SDL_QUIT
  key_queue, key_f, key_r,   \* keyboard.c
  sync, vmem, screen,        \* vga.c: vgactl_port_base[1], the frame buffer, the window
  draw,                      \* __am_gpu_fbdraw: the pixels and the sync flag still to write
  draws,                     \* calls of it so far
  typed, got,                \* history: key events of the user, and those the guest read
  dropped                    \* history: the prompt, or the end, discarded events

keyboard == <<key_queue, key_f, key_r>>
vga == <<sync, vmem, screen>>
drawing == <<draw, draws>>
history == <<typed, got, dropped>>
ioVars == <<io_state, sdlq, key_queue, key_f, key_r, sync, vmem, screen, draw, draws,
          typed, got, dropped>>

NoDraw == [next |-> 0, last |-> 0, sync |-> FALSE]

IoInit ==
  /\ io_state = "RUNNING" /\ sdlq = <<>>
  /\ key_queue = [i \in 0 .. KEY_QUEUE_LEN - 1 |-> 0] /\ key_f = 0 /\ key_r = 0
  /\ sync = 0
  /\ vmem = [i \in 1 .. Pixels |-> 0] /\ screen = vmem
  /\ draw = NoDraw /\ draws = 0
  /\ typed = <<>> /\ got = <<>> /\ dropped = FALSE

----------------------------------------------------------------------------
(* The user and the debugger's prompt.                                     *)

IsKey(e) == e # <<>> /\ e[1] # 0

UserEvent(e) ==
  /\ Len(sdlq) + Len(typed) < MaxEvents
  /\ sdlq' = Append(sdlq, e)
  /\ typed' = IF IsKey(e) THEN Append(typed, e) ELSE typed
  /\ UNCHANGED <<io_state, keyboard, vga, drawing, got, dropped>>

(* A breakpoint or the end of `si' leaves the loop.                        *)
Stop ==
  /\ io_state = "RUNNING"
  /\ io_state' = "STOP"
  /\ UNCHANGED <<sdlq, keyboard, vga, drawing, history>>

(* sdb_mainloop: every command line first empties SDL's queue; `c' runs.   *)
sdl_clear_event_queue ==
  /\ io_state = "STOP"
  /\ sdlq' = <<>>
  /\ dropped' = (dropped \/ \E i \in DOMAIN sdlq : IsKey(sdlq[i]))
  /\ io_state' = "RUNNING"
  /\ UNCHANGED <<keyboard, vga, drawing, typed, got>>

----------------------------------------------------------------------------
(* device_update: the screen first, then every queued event.  D is the     *)
(* part of the state the loop over the events changes.                     *)

(* Mutation: the queue overflows silently.                                 *)
key_enqueue_unchecked(D, code) ==
  [D EXCEPT !.q[D.r] = code, !.r = (D.r + 1) % KEY_QUEUE_LEN]

key_enqueue(D, code) ==
  LET r == (D.r + 1) % KEY_QUEUE_LEN
  IN [D EXCEPT !.q[D.r] = code, !.r = r,
               !.st = IF r = key_f THEN "ABORT" ELSE D.st]

send_key(D, scancode, is_keydown) ==
  IF D.st = "RUNNING" /\ scancode # _KEY_NONE
    THEN key_enqueue(D, scancode + (IF is_keydown THEN KEYDOWN_MASK ELSE 0))
    ELSE D

HandleEvent(D, e) ==
  IF D.st = "ABORT" THEN D
  ELSE IF e = <<>> THEN [D EXCEPT !.st = "QUIT"]
  ELSE send_key(D, e[1], e[2])

(* What the loop leaves of D: the state after i of the queued events.      *)
EventLoop ==
  LET D[i \in 0 .. Len(sdlq)] ==
        IF i = 0 THEN [st |-> io_state, q |-> key_queue, r |-> key_r]
                 ELSE HandleEvent(D[i - 1], sdlq[i])
  IN D[Len(sdlq)]

(* Mutation: the sync register is cleared without a refresh.               *)
vga_update_screen_lost == sync' = 0 /\ UNCHANGED <<screen, vmem>>

vga_update_screen ==
  /\ screen' = IF sync # 0 THEN vmem ELSE screen
  /\ sync' = 0
  /\ UNCHANGED vmem

io_device_update ==
  /\ io_state = "RUNNING"
  /\ vga_update_screen
  /\ io_state' = EventLoop.st /\ key_queue' = EventLoop.q /\ key_r' = EventLoop.r
  /\ dropped' = (dropped \/ EventLoop.st = "QUIT")
  /\ sdlq' = <<>>
  /\ UNCHANGED <<key_f, drawing, typed, got>>

----------------------------------------------------------------------------
(* The guest.                                                              *)

(* __am_input_keybrd splits the code the data port returned.               *)
Decode(code) == <<code % KEYDOWN_MASK, code >= KEYDOWN_MASK>>

(* i8042_data_io_handler: an empty queue gives _KEY_NONE, which a program  *)
(* ignores.                                                                *)
key_dequeue == key_f' = (key_f + 1) % KEY_QUEUE_LEN

__am_input_keybrd ==
  /\ io_state = "RUNNING" /\ draw = NoDraw
  /\ key_f # key_r
  /\ got' = Append(got, Decode(key_queue[key_f]))
  /\ key_dequeue
  /\ UNCHANGED <<io_state, sdlq, key_queue, key_r, vga, drawing, typed, dropped>>

(* __am_gpu_fbdraw: called for pixels a .. b, or none, with or without     *)
(* sync; then one store a pixel; then the sync register.                   *)
FbdrawCall(a, b, s) ==
  /\ io_state = "RUNNING" /\ draw = NoDraw
  /\ draws < MaxDraws
  /\ s \/ a <= b
  /\ draw' = [next |-> a, last |-> b, sync |-> s]
  /\ draws' = draws + 1
  /\ UNCHANGED <<io_state, sdlq, keyboard, vga, history>>

PutPixel ==
  /\ io_state = "RUNNING" /\ draw # NoDraw
  /\ draw.next <= draw.last
  /\ vmem' = [vmem EXCEPT ![draw.next] = draws]
  /\ draw' = IF draw.next = draw.last /\ ~draw.sync THEN NoDraw
                                                   ELSE [draw EXCEPT !.next = @ + 1]
  /\ UNCHANGED <<io_state, sdlq, keyboard, sync, screen, draws, history>>

PutSync ==
  /\ io_state = "RUNNING" /\ draw # NoDraw
  /\ draw.next > draw.last /\ draw.sync
  /\ sync' = 1
  /\ draw' = NoDraw
  /\ UNCHANGED <<io_state, sdlq, keyboard, vmem, screen, draws, history>>

----------------------------------------------------------------------------
Events == (Keys \X BOOLEAN) \cup {<<>>}
GuestStep ==
  \/ __am_input_keybrd
  \/ \E a, b \in 0 .. Pixels, s \in BOOLEAN : a >= 1 /\ FbdrawCall(a, b, s)
  \/ PutPixel
  \/ PutSync

IoNext ==
  \/ \E e \in Events : UserEvent(e)
  \/ Stop
  \/ sdl_clear_event_queue
  \/ io_device_update
  \/ GuestStep

(* execute() calls device_update after every instruction while it runs,    *)
(* and the guest executes instructions.  Nobody promises to type, to stop, *)
(* or to answer the prompt.                                                *)
IoSpec == IoInit /\ [][IoNext]_ioVars /\ WF_ioVars(io_device_update) /\ WF_ioVars(GuestStep)

----------------------------------------------------------------------------
(* The state, key codes included, stays in range.                          *)
IoTypeOK ==
  /\ io_state \in {"RUNNING", "STOP", "QUIT", "ABORT"}
  /\ sdlq \in Seq(Events)
  /\ key_queue \in [0 .. KEY_QUEUE_LEN - 1 -> 0 .. 2 * KEYDOWN_MASK - 1]
  /\ key_f \in 0 .. KEY_QUEUE_LEN - 1 /\ key_r \in 0 .. KEY_QUEUE_LEN - 1
  /\ sync \in {0, 1}
  /\ {vmem, screen} \subseteq [1 .. Pixels -> 0 .. MaxDraws]
  /\ draws \in 0 .. MaxDraws

(* Until the prompt or the end discards events, the key events of the user *)
(* are what the guest has read, then what the ring from key_f to key_r     *)
(* holds, then what SDL holds: none lost, doubled, reordered or misdecoded *)
(* by the ring or the driver, unless the overflow assertion fired.         *)
Queued == [i \in 1 .. (key_r - key_f) % KEY_QUEUE_LEN |->
             Decode(key_queue[(key_f + i - 1) % KEY_QUEUE_LEN])]
KeyEvents(events) ==
  LET K[i \in 0 .. Len(events)] ==
        IF i = 0 THEN <<>>
        ELSE IF IsKey(events[i]) THEN Append(K[i - 1], events[i]) ELSE K[i - 1]
  IN K[Len(events)]
KeysInOrder ==
  ~dropped /\ io_state # "ABORT" => typed = got \o Queued \o KeyEvents(sdlq)

(* What was drawn with sync is shown, unless the machine stops or the      *)
(* program draws again: no store of a pixel is left behind the refresh     *)
(* that the sync register asked for, and a refresh in the middle of a draw *)
(* (device.c:44) does not use up the sync that ends it.                    *)
FrameShown ==
  (sync = 1 /\ draw = NoDraw) ~> (screen = vmem \/ io_state # "RUNNING" \/ draw # NoDraw)
============================================================================

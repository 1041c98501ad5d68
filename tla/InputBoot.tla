----------------------------- MODULE InputBoot -----------------------------
(***************************************************************************)
(* Keyboard and PS/2 mouse from sti to the idle loop: start_kernel         *)
(* (src/startup/kinit.c) registers the two interrupt handlers one after    *)
(* the other with interrupts enabled, and init_mouse                       *)
(* (src/drivers/mouse/mouse.c) talks by polling to the controller that the *)
(* handlers read.  irq_handler (src/cpu/irq.c) acknowledges an interrupt   *)
(* whether or not anybody reads its byte.                                  *)
(* The controller is external: one output buffer, filled with what the     *)
(* controller, the keyboard or the mouse has to say, and two interrupt     *)
(* lines that an edge-triggered PIC watches.                               *)
(***************************************************************************)
EXTENDS Integers, Sequences, SequencesExt

\* Bounds: the keys pressed and the mouse movements in one behaviour.
CONSTANTS MaxKeys, MaxMoves

ASSUME BoundsAssumption == MaxKeys \in Nat /\ MaxMoves \in Nat

VARIABLES
  boot,      \* the step of start_kernel and init_mouse that is next
  status,    \* init_mouse's copy of the configuration byte
  handlers,  \* the interrupts in interrupt_handlers: a subset of {1, 12}
  callback,  \* keyboard.c's char_callback is set
  stuck,     \* a command that never returns runs inside the keyboard interrupt
  cycle,     \* mouse_cycle
  bytes,     \* mouse_bytes
  obf,       \* the controller's output buffer
  config,    \* the controller's configuration byte
  response,  \* what the controller has to say
  kbd,       \* the scancodes the keyboard has to send
  aux,       \* the bytes the mouse has to send
  present,   \* there is a mouse
  reporting, \* the mouse reports movements (command 0xF4)
  irr,       \* the interrupts requested
  pressed,   \* history: the keys pressed so far
  moves,     \* history: the movements so far
  handled,   \* history: the bytes keyboard_callback read
  reports,   \* history: the packets mouse_callback_handler completed
  early,     \* history: a key or a movement came before its handler
  gaveUp     \* history: mouse_wait ended before an answer on its way

kernelVars == <<boot, status, handlers, callback, stuck, cycle, bytes>>
inputVars == <<present, pressed, moves, early>>
vars == <<boot, status, handlers, callback, stuck, cycle, bytes,
          obf, config, response, kbd, aux, present, reporting, irr,
          pressed, moves, handled, reports, early, gaveUp>>

\* Mutant of BootSteps: the second acknowledgement is left unread.
BootStepsOneAck == <<"init_keyboard", "disable_keyboard", "enable_mouse", "ask_config",
                     "read_config", "write_config", "set_defaults", "read_ack1",
                     "enable_reporting", "enable_keyboard", "register_mouse",
                     "init_shell", "idle">>

\* Mutant of BootSteps: the keyboard is enabled again before the second acknowledgement
\* is read.
BootStepsKeyboardEarly == <<"init_keyboard", "disable_keyboard", "enable_mouse", "ask_config",
                            "read_config", "write_config", "set_defaults", "read_ack1",
                            "enable_reporting", "enable_keyboard", "read_ack2",
                            "register_mouse", "init_shell", "idle">>

BootSteps == <<"init_keyboard", "disable_keyboard", "enable_mouse", "ask_config",
               "read_config", "write_config", "set_defaults", "read_ack1",
               "enable_reporting", "read_ack2", "enable_keyboard",
               "register_mouse", "init_shell", "idle">>
Configs == [kbdInt : BOOLEAN, auxInt : BOOLEAN, kbdOff : BOOLEAN, auxOff : BOOLEAN]

\* A byte: who sent it, and what it is.  Bit 3 is set in the first byte of a
\* packet and in an acknowledgement (0xFA); in the others it may be.
Empty == [from |-> "nobody"]
ConfigByte(c) == [from |-> "controller", config |-> c]
Key(n) == [from |-> "keyboard", key |-> n]
Ack == [from |-> "mouse", move |-> 0, part |-> 0, bit3 |-> TRUE]
Packet(n, b1, b2) ==
  << [from |-> "mouse", move |-> n, part |-> 0, bit3 |-> TRUE],
     [from |-> "mouse", move |-> n, part |-> 1, bit3 |-> b1],
     [from |-> "mouse", move |-> n, part |-> 2, bit3 |-> b2] >>
MouseBytes == [from : {"mouse"}, move : 0 .. MaxMoves, part : 0 .. 2, bit3 : BOOLEAN]
Keys == {Key(n) : n \in 1 .. MaxKeys}
AllBytes == {Empty} \cup {ConfigByte(c) : c \in Configs} \cup Keys \cup MouseBytes

TypeOK ==
  /\ boot \in Range(BootSteps) /\ status \in Configs
  /\ handlers \subseteq {1, 12} /\ callback \in BOOLEAN /\ stuck \in BOOLEAN
  /\ cycle \in 0 .. 2 /\ bytes \in [0 .. 2 -> AllBytes]
  /\ obf \in AllBytes /\ config \in Configs
  /\ response \in {Empty} \cup {ConfigByte(c) : c \in Configs}
  /\ kbd \in BoundedSeq(Keys, MaxKeys) /\ \A i \in DOMAIN aux : aux[i] \in MouseBytes
  /\ present \in BOOLEAN /\ reporting \in BOOLEAN /\ irr \subseteq {1, 12}
  /\ pressed \in 0 .. MaxKeys /\ moves \in 0 .. MaxMoves
  /\ early \in BOOLEAN /\ gaveUp \in BOOLEAN

\* sti: whether there is a mouse, and what the boot loader left of it, is not known.
Init ==
  /\ boot = "init_keyboard" /\ handlers = {} /\ callback = FALSE /\ stuck = FALSE
  /\ config \in [kbdInt : {TRUE}, auxInt : BOOLEAN, kbdOff : {FALSE}, auxOff : BOOLEAN]
  /\ status = config
  /\ cycle = 0 /\ bytes = [i \in 0 .. 2 |-> Empty]
  /\ obf = Empty /\ response = Empty /\ kbd = <<>> /\ aux = <<>>
  /\ present \in BOOLEAN /\ reporting = FALSE /\ irr = {}
  /\ pressed = 0 /\ moves = 0 /\ handled = <<>> /\ reports = <<>>
  /\ early = FALSE /\ gaveUp = FALSE

-----------------------------------------------------------------------------
\* The controller: its lines follow the buffer and the configuration, and the
\* PIC remembers their rising edges.
Lines(b, c) ==
  {i \in {1, 12} :
     \/ i = 1 /\ b.from \in {"keyboard", "controller"} /\ c.kbdInt /\ ~c.kbdOff
     \/ i = 12 /\ b.from = "mouse" /\ c.auxInt}
Buffer(b, c) ==
  /\ obf' = b /\ config' = c
  /\ irr' = irr \cup (Lines(b, c) \ Lines(obf, config))

Fill ==
  /\ obf = Empty
  /\ \/ /\ response # Empty
        /\ Buffer(response, config)
        /\ response' = Empty /\ UNCHANGED <<kbd, aux>>
     \/ /\ response = Empty /\ kbd # <<>> /\ ~config.kbdOff
        /\ Buffer(Head(kbd), config)
        /\ kbd' = Tail(kbd) /\ UNCHANGED <<response, aux>>
     \/ /\ response = Empty /\ aux # <<>> /\ ~config.auxOff
        /\ Buffer(Head(aux), config)
        /\ aux' = Tail(aux) /\ UNCHANGED <<response, kbd>>
  /\ UNCHANGED <<reporting, handled, reports, gaveUp>>
  /\ UNCHANGED kernelVars /\ UNCHANGED inputVars

\* The user.
Press ==
  /\ pressed < MaxKeys
  /\ pressed' = pressed + 1
  /\ kbd' = Append(kbd, Key(pressed + 1))
  /\ early' = (early \/ 1 \notin handlers)
  /\ UNCHANGED <<obf, config, response, aux, reporting, irr>>
  /\ UNCHANGED <<present, moves, handled, reports, gaveUp>> /\ UNCHANGED kernelVars

Move ==
  /\ moves < MaxMoves /\ reporting
  /\ moves' = moves + 1
  /\ \E b1, b2 \in BOOLEAN : aux' = aux \o Packet(moves + 1, b1, b2)
  /\ early' = (early \/ 12 \notin handlers)
  /\ UNCHANGED <<obf, config, response, kbd, reporting, irr>>
  /\ UNCHANGED <<present, pressed, handled, reports, gaveUp>> /\ UNCHANGED kernelVars

-----------------------------------------------------------------------------
\* irq_handler: the interrupt is acknowledged first, and only then is its
\* handler called, if there is one.  No other interrupt is taken in between.
Acknowledged(i) == i \in irr /\ ~stuck

Unhandled ==
  /\ \E i \in {1, 12} :
       /\ Acknowledged(i) /\ i \notin handlers
       /\ irr' = irr \ {i}
  /\ UNCHANGED <<obf, config, response, kbd, aux, reporting, handled, reports, gaveUp>>
  /\ UNCHANGED kernelVars /\ UNCHANGED inputVars

\* Mutant of ReadInHandler: a byte is read only when somebody wants the character.
ReadForCallback(i) ==
  /\ obf' = (IF i = 1 /\ ~callback THEN obf ELSE Empty) /\ irr' = irr \ {i}
  /\ UNCHANGED <<config, response, kbd, aux, reporting>>

\* inb(0x60) inside the handler of interrupt i.
ReadInHandler(i) ==
  /\ obf' = Empty /\ irr' = irr \ {i}
  /\ UNCHANGED <<config, response, kbd, aux, reporting>>

\* keyboard_callback.  With the shell's callback set, the key may be the Enter
\* of a command that never returns (startx, exit): it is run right here.
KeyboardCallback ==
  /\ Acknowledged(1) /\ 1 \in handlers
  /\ ReadInHandler(1)
  /\ handled' = Append(handled, obf)
  /\ \/ UNCHANGED stuck
     \/ callback /\ stuck' = TRUE
  /\ UNCHANGED <<boot, status, handlers, callback, cycle, bytes, reports, gaveUp>>
  /\ UNCHANGED inputVars

\* Mutant of AfterByte: mouse_cycle is not reset.
AfterByteUnreset(c) == c + 1

\* mouse_callback_handler: the byte after byte c of a packet.
AfterByte(c) == IF c = 2 THEN 0 ELSE c + 1

MouseCallbackHandler ==
  /\ Acknowledged(12) /\ 12 \in handlers
  /\ ReadInHandler(12)
  /\ bytes' = [bytes EXCEPT ![cycle] = obf]
  /\ cycle' = IF cycle = 0 /\ obf.from = "mouse" /\ ~obf.bit3 THEN 0 ELSE AfterByte(cycle)
  /\ reports' = IF cycle = 2 THEN Append(reports, <<bytes[0], bytes[1], obf>>) ELSE reports
  /\ UNCHANGED <<boot, status, handlers, callback, stuck, handled, gaveUp>>
  /\ UNCHANGED inputVars

-----------------------------------------------------------------------------
\* start_kernel and init_mouse: an interrupt requested is taken before the
\* next instruction.
At(step) == boot = step /\ irr = {} /\ ~stuck
NextStep(step) ==
  \E i \in 1 .. Len(BootSteps) - 1 : BootSteps[i] = step /\ boot' = BootSteps[i + 1]
Quietly ==
  /\ UNCHANGED <<stuck, cycle, bytes, handled, reports>> /\ UNCHANGED inputVars
Control == UNCHANGED <<handlers, callback>> /\ Quietly
Device == UNCHANGED <<obf, config, response, kbd, aux, reporting, irr>>

InitKeyboard ==
  /\ At("init_keyboard")
  /\ handlers' = handlers \cup {1}
  /\ UNCHANGED <<status, callback, gaveUp>> /\ Quietly /\ Device

\* outb(0x64, ...): 0xAD, 0xA8, 0x20 and 0xAE.
Tell(c) ==
  /\ Buffer(obf, c)
  /\ UNCHANGED <<status, response, kbd, aux, reporting, gaveUp>> /\ Control

\* Mutant of KeyboardOff: 0xAD is not sent.
KeyboardLeftOn(c) == c

KeyboardOff(c) == [c EXCEPT !.kbdOff = TRUE]
DisableKeyboard == At("disable_keyboard") /\ Tell(KeyboardOff(config))
EnableMouse == At("enable_mouse") /\ Tell([config EXCEPT !.auxOff = FALSE])
EnableKeyboard == At("enable_keyboard") /\ Tell([config EXCEPT !.kbdOff = FALSE])

AskConfig ==
  /\ At("ask_config")
  /\ response' = ConfigByte(config)
  /\ UNCHANGED <<status, obf, config, kbd, aux, reporting, irr, gaveUp>> /\ Control

\* Mutant of ReadPort: a wait without a time-out.
ReadPortPatiently == obf # Empty /\ Buffer(Empty, config) /\ UNCHANGED gaveUp

\* mouse_wait(0) and inb(0x60): the byte that is there, whoever sent it, or
\* after 100000 polls whatever the port returns.
ReadPort ==
  \/ obf # Empty /\ Buffer(Empty, config) /\ UNCHANGED gaveUp
  \/ /\ obf = Empty
     /\ gaveUp' = (gaveUp \/ response # Empty \/ aux # <<>>)
     /\ UNCHANGED <<obf, config, irr>>

Mended(c) == [c EXCEPT !.auxInt = TRUE, !.auxOff = FALSE]
ReadConfig ==
  /\ At("read_config")
  /\ ReadPort
  /\ \/ obf.from = "controller" /\ status' = Mended(obf.config)
     \/ obf.from # "controller" /\ \E c \in Configs : status' = Mended(c)
  /\ UNCHANGED <<response, kbd, aux, reporting>> /\ Control

WriteConfig ==
  /\ At("write_config")
  /\ Buffer(obf, status)
  /\ UNCHANGED <<status, response, kbd, aux, reporting, gaveUp>> /\ Control

\* mouse_write: the mouse, if there is one, acknowledges every command.
MouseWrite(on) ==
  /\ IF present THEN aux' = Append(aux, Ack) /\ reporting' = on
     ELSE UNCHANGED <<aux, reporting>>
  /\ UNCHANGED <<status, obf, config, response, kbd, irr, gaveUp>> /\ Control

SetDefaults == At("set_defaults") /\ MouseWrite(FALSE)
EnableReporting == At("enable_reporting") /\ MouseWrite(TRUE)

ReadAck ==
  /\ At("read_ack1") \/ At("read_ack2")
  /\ ReadPort
  /\ UNCHANGED <<status, response, kbd, aux, reporting>> /\ Control

RegisterMouse ==
  /\ At("register_mouse")
  /\ handlers' = handlers \cup {12}
  /\ UNCHANGED <<status, callback, gaveUp>> /\ Quietly /\ Device

InitShell ==
  /\ At("init_shell")
  /\ callback' = TRUE
  /\ UNCHANGED <<status, handlers, gaveUp>> /\ Quietly /\ Device

Boot ==
  /\ \/ InitKeyboard \/ DisableKeyboard \/ EnableMouse \/ AskConfig \/ ReadConfig
     \/ WriteConfig \/ SetDefaults \/ ReadAck \/ EnableReporting \/ EnableKeyboard
     \/ RegisterMouse \/ InitShell
  /\ NextStep(boot)

Interrupt == Unhandled \/ KeyboardCallback \/ MouseCallbackHandler

Next == Boot \/ Interrupt \/ Fill \/ Press \/ Move

Fairness == WF_vars(Boot) /\ WF_vars(Interrupt) /\ WF_vars(Fill)
Spec == Init /\ [][Next]_vars /\ Fairness

-----------------------------------------------------------------------------
\* Nobody touches keyboard or mouse before its handler is registered, and the
\* controller and the mouse, if there is one, answer init_mouse in time.
Undisturbed == ~early /\ ~gaveUp

\* The configuration as far as init_mouse has got with it.
ConfigKnown ==
  /\ config.kbdInt
  /\ config.kbdOff <=> boot \notin {"init_keyboard", "disable_keyboard",
                                   "register_mouse", "init_shell", "idle"}
  /\ boot \notin {"init_keyboard", "disable_keyboard", "enable_mouse"} => ~config.auxOff
  /\ boot = "write_config" => status = [config EXCEPT !.auxInt = TRUE]
  /\ boot \notin {"init_keyboard", "disable_keyboard", "enable_mouse", "ask_config",
                  "read_config", "write_config"} => config.auxInt

\* The answer that init_mouse waits for is the only byte on its way, and between
\* its questions there is none.
Silent == obf = Empty /\ aux = <<>> /\ irr = {}
Pending(answer, here, coming) == (here = Empty /\ coming) \/ (here = answer /\ ~coming)

AnswersKnown ==
  /\ boot \in {"init_keyboard", "enable_mouse", "ask_config", "write_config",
              "set_defaults", "enable_reporting", "enable_keyboard"} => Silent
  /\ boot = "read_config" =>
       /\ aux = <<>> /\ irr = {}
       /\ response \in {Empty, ConfigByte(config)}
       /\ Pending(ConfigByte(config), obf, response # Empty)
  /\ boot # "read_config" => response = Empty
  /\ boot \in {"read_ack1", "read_ack2"} =>
       /\ IF present THEN aux \in {<<>>, <<Ack>>} /\ Pending(Ack, obf, aux # <<>>)
          ELSE Silent
       /\ irr \subseteq (IF obf = Ack THEN {12} ELSE {})

\* With the keyboard enabled, a byte in the buffer is the one whose handler has
\* been called for.
From(device) == IF obf.from = device THEN 1 ELSE 0
BufferAnnounced ==
  boot \in {"disable_keyboard", "register_mouse", "init_shell", "idle"} =>
    /\ \/ obf = Empty /\ irr = {}
       \/ obf.from = "keyboard" /\ irr = {1}
       \/ obf.from = "mouse" /\ irr = {12} /\ 12 \in handlers
    /\ 12 \notin handlers => aux = <<>>

\* The keys follow each other: those that were handled, the one in the buffer,
\* those the keyboard still has.
KeysInLine ==
  /\ \A i \in DOMAIN handled : handled[i] = Key(i)
  /\ obf.from = "keyboard" => obf = Key(Len(handled) + 1)
  /\ \A i \in DOMAIN kbd : kbd[i] = Key(Len(handled) + From("keyboard") + i)
  /\ pressed = Len(handled) + From("keyboard") + Len(kbd)
  /\ 1 \notin handlers => pressed = 0

\* So do the bytes of the packets, byte n being the first one of a packet if n
\* is a multiple of three.
IsByte(b, n) ==
  /\ b \in MouseBytes
  /\ 3 * (b.move - 1) + b.part = n
  /\ b.part = 0 => b.bit3
BytesRead == 3 * Len(reports) + cycle
PacketsInLine ==
  /\ \A i \in DOMAIN reports : \A part \in 1 .. 3 :
       reports[i][part].move = i /\ reports[i][part].part = part - 1
  /\ \A i \in 0 .. cycle - 1 : bytes[i].move = Len(reports) + 1 /\ bytes[i].part = i
  /\ IF 12 \in handlers
     THEN /\ obf.from = "mouse" => IsByte(obf, BytesRead)
          /\ \A i \in DOMAIN aux : IsByte(aux[i], BytesRead + From("mouse") + i - 1)
          /\ 3 * moves = BytesRead + From("mouse") + Len(aux)
     ELSE moves = 0 /\ reports = <<>> /\ cycle = 0

\* As long as nobody disturbs it, the kernel is never in doubt whose byte is in
\* the one buffer that init_mouse polls and both interrupt handlers read: it is
\* the answer to the last question, or the interrupt of its device is requested
\* and will be answered before anything else is done; and no byte is left out or
\* overtaken on its way.
InputKnown ==
  Undisturbed =>
    ConfigKnown /\ AnswersKnown /\ BufferAnnounced /\ KeysInLine /\ PacketsInLine

\* What init_mouse reads by polling between 0xAD and 0xAE is what it asked for,
\* with keys pressed all the while and no handler taking its answers away: the
\* byte it writes back leaves both devices and both interrupts enabled.
ControllerReady ==
  Undisturbed /\ boot \in {"register_mouse", "init_shell", "idle"} =>
    config = [kbdInt |-> TRUE, auxInt |-> TRUE, kbdOff |-> FALSE, auxOff |-> FALSE]

\* keyboard_callback reads the keys and nothing else, each once and in the order
\* they were pressed; mouse_callback_handler's packets are whole and in order,
\* so mouse_cycle never gets out of step with the mouse.
InputInOrder ==
  Undisturbed =>
    /\ \A i \in DOMAIN handled : handled[i] = Key(i)
    /\ \A i \in DOMAIN reports : \A part \in 1 .. 3 :
         reports[i][part].move = i /\ reports[i][part].part = part - 1

\* start_kernel reaches its idle loop whatever the user and the devices do,
\* unless a command typed on the way never returns.
BootEnds == <>(boot = "idle" \/ stuck)

\* Every key reaches keyboard_callback and every movement
\* mouse_callback_handler, as long as no command inside the keyboard interrupt
\* runs for ever: an acknowledged interrupt never leaves its byte behind.
InputArrives ==
  <>[](Undisturbed /\ ~stuck => Len(handled) = pressed /\ Len(reports) = moves)
=============================================================================

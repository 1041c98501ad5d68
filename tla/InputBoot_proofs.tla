-------------------------- MODULE InputBoot_proofs --------------------------
(***************************************************************************)
(* Theorems about keyboard and mouse from sti on, for every number of keys *)
(* and movements.                                                          *)
(***************************************************************************)
EXTENDS InputBoot, SequenceTheorems, TLAPS

\* The order of start_kernel and init_mouse, step by step.
LEMMA NextSteps ==
  ASSUME NEW step, NextStep(step)
  PROVE  \/ step = "init_keyboard" /\ boot' = "disable_keyboard"
         \/ step = "disable_keyboard" /\ boot' = "enable_mouse"
         \/ step = "enable_mouse" /\ boot' = "ask_config"
         \/ step = "ask_config" /\ boot' = "read_config"
         \/ step = "read_config" /\ boot' = "write_config"
         \/ step = "write_config" /\ boot' = "set_defaults"
         \/ step = "set_defaults" /\ boot' = "read_ack1"
         \/ step = "read_ack1" /\ boot' = "enable_reporting"
         \/ step = "enable_reporting" /\ boot' = "read_ack2"
         \/ step = "read_ack2" /\ boot' = "enable_keyboard"
         \/ step = "enable_keyboard" /\ boot' = "register_mouse"
         \/ step = "register_mouse" /\ boot' = "init_shell"
         \/ step = "init_shell" /\ boot' = "idle"
<1>1. Len(BootSteps) = 14
  BY DEF BootSteps
<1>2. PICK i \in 1 .. 13 : BootSteps[i] = step /\ boot' = BootSteps[i + 1]
  BY <1>1 DEF NextStep
<1> QED
  BY <1>2 DEF BootSteps

LEMMA StepNames ==
  \A s : s \in Range(BootSteps) <=>
    s \in {"init_keyboard", "disable_keyboard", "enable_mouse", "ask_config",
           "read_config", "write_config", "set_defaults", "read_ack1",
           "enable_reporting", "read_ack2", "enable_keyboard",
           "register_mouse", "init_shell", "idle"}
<1>1. DOMAIN BootSteps = 1 .. 14
  BY DEF BootSteps
<1>2. ASSUME NEW i \in 1 .. 14
      PROVE  BootSteps[i] \in
               {"init_keyboard", "disable_keyboard", "enable_mouse", "ask_config",
                "read_config", "write_config", "set_defaults", "read_ack1",
                "enable_reporting", "read_ack2", "enable_keyboard",
                "register_mouse", "init_shell", "idle"}
  BY DEF BootSteps
<1>3. /\ BootSteps[1] = "init_keyboard" /\ BootSteps[2] = "disable_keyboard"
      /\ BootSteps[3] = "enable_mouse" /\ BootSteps[4] = "ask_config"
      /\ BootSteps[5] = "read_config" /\ BootSteps[6] = "write_config"
      /\ BootSteps[7] = "set_defaults" /\ BootSteps[8] = "read_ack1"
      /\ BootSteps[9] = "enable_reporting" /\ BootSteps[10] = "read_ack2"
      /\ BootSteps[11] = "enable_keyboard" /\ BootSteps[12] = "register_mouse"
      /\ BootSteps[13] = "init_shell" /\ BootSteps[14] = "idle"
  BY DEF BootSteps
<1> QED
  BY <1>1, <1>2, <1>3 DEF Range

\* A bounded sequence is a sequence of bounded length.
LEMMA BoundedSequences ==
  ASSUME NEW S, NEW n \in Nat, NEW s
  PROVE  s \in BoundedSeq(S, n) <=> s \in Seq(S) /\ Len(s) <= n
<1>1. ASSUME s \in BoundedSeq(S, n) PROVE s \in Seq(S) /\ Len(s) <= n
  <2>1. PICK m \in 0 .. n : s \in [1 .. m -> S]
    BY <1>1 DEF BoundedSeq, SeqOf
  <2>2. s \in Seq(S)
    BY <2>1, SeqDef
  <2>3. DOMAIN s = 1 .. m /\ DOMAIN s = 1 .. Len(s) /\ Len(s) \in Nat
    BY <2>1, <2>2, LenProperties
  <2>4. Len(s) = m
    BY <2>1, <2>3
  <2> QED
    BY <2>1, <2>2, <2>4
<1>2. ASSUME s \in Seq(S), Len(s) <= n PROVE s \in BoundedSeq(S, n)
  <2>1. Len(s) \in 0 .. n /\ s \in [1 .. Len(s) -> S]
    BY <1>2, LenProperties
  <2> QED
    BY <2>1 DEF BoundedSeq, SeqOf
<1> QED
  BY <1>1, <1>2

-----------------------------------------------------------------------------
(***************************************************************************)
(* Types.                                                                  *)
(***************************************************************************)
Steps == {"init_keyboard", "disable_keyboard", "enable_mouse", "ask_config",
          "read_config", "write_config", "set_defaults", "read_ack1",
          "enable_reporting", "read_ack2", "enable_keyboard",
          "register_mouse", "init_shell", "idle"}

BootType ==
  /\ boot \in Steps /\ status \in Configs
  /\ callback \in BOOLEAN /\ handlers \subseteq {1, 12}
  /\ 1 \in handlers <=> boot # "init_keyboard"
  /\ 12 \in handlers <=> boot \in {"init_shell", "idle"}
HandlerType ==
  /\ stuck \in BOOLEAN /\ cycle \in 0 .. 2 /\ bytes \in [0 .. 2 -> AllBytes]
  /\ handled \in Seq(AllBytes) /\ reports \in Seq(AllBytes \X AllBytes \X AllBytes)
ControllerType ==
  /\ obf \in AllBytes /\ config \in Configs
  /\ response \in {Empty} \cup {ConfigByte(c) : c \in Configs}
  /\ irr \subseteq {1, 12}
  /\ kbd \in Seq(Keys) /\ Len(kbd) <= pressed
  /\ aux \in Seq(MouseBytes) /\ reporting \in BOOLEAN
UserType ==
  /\ present \in BOOLEAN /\ early \in BOOLEAN /\ gaveUp \in BOOLEAN
  /\ pressed \in 0 .. MaxKeys /\ moves \in 0 .. MaxMoves

InductiveType == BootType /\ HandlerType /\ ControllerType /\ UserType

LEMMA TypesSuffice == InductiveType => TypeOK
<1> SUFFICES ASSUME BootType, HandlerType, ControllerType, UserType PROVE TypeOK
  BY DEF InductiveType
<1>1. boot \in Range(BootSteps)
  BY StepNames DEF BootType, Steps
<1>2. Len(kbd) <= MaxKeys
  BY BoundsAssumption, LenProperties DEF ControllerType, UserType
<1>3. kbd \in BoundedSeq(Keys, MaxKeys)
  BY <1>2, BoundedSequences, BoundsAssumption DEF ControllerType
<1>4. \A i \in DOMAIN aux : aux[i] \in MouseBytes
  BY ElementOfSeq, LenProperties DEF ControllerType
<1> QED
  BY <1>1, <1>3, <1>4 DEF TypeOK, BootType, HandlerType, ControllerType, UserType

LEMMA ByteTypes ==
  /\ Empty \in AllBytes /\ Ack \in MouseBytes /\ MouseBytes \subseteq AllBytes
  /\ Keys \subseteq AllBytes
  /\ \A c \in Configs : ConfigByte(c) \in AllBytes
  /\ \A n \in 1 .. MaxKeys : Key(n) \in Keys
BY BoundsAssumption DEF AllBytes, Ack, MouseBytes, Keys, Configs

\* Who has sent a byte tells what it is.
LEMMA Senders ==
  ASSUME NEW b \in AllBytes
  PROVE  /\ b.from \in {"nobody", "controller", "keyboard", "mouse"}
         /\ b.from = "nobody" => b = Empty
         /\ b.from = "controller" => b.config \in Configs /\ b = ConfigByte(b.config)
         /\ b.from = "keyboard" => b \in Keys /\ b.key \in Nat /\ b = Key(b.key)
         /\ b.from = "mouse" => b \in MouseBytes
         /\ b \in MouseBytes => b.from = "mouse" /\ b.bit3 \in BOOLEAN
         /\ b \in Keys => b.from = "keyboard"
BY DEF AllBytes, Empty, ConfigByte, Keys, Key, MouseBytes

LEMMA TypeInit == Init => InductiveType
<1> SUFFICES ASSUME Init PROVE BootType /\ HandlerType /\ ControllerType /\ UserType
  BY DEF InductiveType
<1>1. config \in Configs
  BY DEF Init, Configs
<1>2. BootType
  BY <1>1 DEF Init, BootType, Steps
<1>3. HandlerType
  BY ByteTypes, EmptySeq DEF Init, HandlerType
<1>4. UserType
  BY BoundsAssumption DEF Init, UserType
<1>5. kbd \in Seq(Keys) /\ Len(kbd) <= pressed /\ aux \in Seq(MouseBytes)
  BY EmptySeq DEF Init
<1>6. obf \in AllBytes /\ response \in {Empty} \cup {ConfigByte(c) : c \in Configs}
  BY ByteTypes DEF Init
<1>7. irr \subseteq {1, 12} /\ reporting \in BOOLEAN
  BY DEF Init
<1> QED
  BY <1>1, <1>2, <1>3, <1>4, <1>5, <1>6, <1>7 DEF ControllerType

\* A packet is three bytes of the mouse.
LEMMA PacketBytes ==
  ASSUME NEW n \in 1 .. MaxMoves, NEW b1 \in BOOLEAN, NEW b2 \in BOOLEAN
  PROVE  /\ Packet(n, b1, b2) \in Seq(MouseBytes) /\ Len(Packet(n, b1, b2)) = 3
         /\ \A i \in 1 .. 3 : /\ Packet(n, b1, b2)[i] \in MouseBytes
                              /\ Packet(n, b1, b2)[i].move = n
                              /\ Packet(n, b1, b2)[i].part = i - 1
                              /\ i = 1 => Packet(n, b1, b2)[i].bit3
<1>1. \A m \in 1 .. MaxMoves : m \in 0 .. MaxMoves
  BY BoundsAssumption
<1> QED
  BY <1>1 DEF Packet, MouseBytes

LEMMA LinesType == ASSUME NEW b, NEW c PROVE Lines(b, c) \subseteq {1, 12}
BY DEF Lines

LEMMA FillType == ASSUME InductiveType, Fill PROVE InductiveType'
<1> USE DEF InductiveType
<1>1. UNCHANGED kernelVars /\ UNCHANGED inputVars /\ UNCHANGED <<reporting, handled, reports, gaveUp>>
  BY DEF Fill
<1>2. BootType' /\ HandlerType' /\ UserType'
  BY <1>1 DEF BootType, HandlerType, UserType, kernelVars, inputVars
<1>3. ASSUME NEW b \in AllBytes, Buffer(b, config)
      PROVE  obf' \in AllBytes /\ config' \in Configs /\ irr' \subseteq {1, 12}
  BY <1>3, LinesType DEF Buffer, ControllerType
<1>4. reporting' \in BOOLEAN /\ pressed' = pressed
  BY <1>1 DEF ControllerType, inputVars
<1>5. ASSUME response # Empty /\ Buffer(response, config) /\ response' = Empty /\ UNCHANGED <<kbd, aux>>
      PROVE  ControllerType'
  <2>1. response \in AllBytes
    BY DEF ControllerType, AllBytes
  <2>2. obf' \in AllBytes /\ config' \in Configs /\ irr' \subseteq {1, 12}
    BY <1>3, <1>5, <2>1
  <2> QED
    BY <1>4, <1>5, <2>2 DEF ControllerType
<1>6. ASSUME kbd # <<>> /\ Buffer(Head(kbd), config) /\ kbd' = Tail(kbd) /\ UNCHANGED <<response, aux>>
      PROVE  ControllerType'
  <2>1. kbd \in Seq(Keys) /\ Len(kbd) \in Nat /\ Len(kbd) <= pressed /\ pressed \in Nat
    BY LenProperties DEF ControllerType, UserType
  <2>2. Head(kbd) \in AllBytes /\ kbd' \in Seq(Keys) /\ Len(kbd') = Len(kbd) - 1
    BY <1>6, <2>1, HeadTailProperties, ByteTypes
  <2>3. Len(kbd') <= pressed'
    BY <1>4, <2>1, <2>2
  <2>4. obf' \in AllBytes /\ config' \in Configs /\ irr' \subseteq {1, 12}
    BY <1>3, <1>6, <2>2
  <2>5. response' \in {Empty} \cup {ConfigByte(c) : c \in Configs} /\ aux' \in Seq(MouseBytes)
    BY <1>6 DEF ControllerType
  <2> QED
    BY <1>4, <2>2, <2>3, <2>4, <2>5 DEF ControllerType
<1>7. ASSUME aux # <<>> /\ Buffer(Head(aux), config) /\ aux' = Tail(aux) /\ UNCHANGED <<response, kbd>>
      PROVE  ControllerType'
  <2>1. Head(aux) \in AllBytes /\ aux' \in Seq(MouseBytes)
    BY <1>7, HeadTailProperties, ByteTypes DEF ControllerType
  <2>2. obf' \in AllBytes /\ config' \in Configs /\ irr' \subseteq {1, 12}
    BY <1>3, <1>7, <2>1
  <2>3. response' \in {Empty} \cup {ConfigByte(c) : c \in Configs}
    BY <1>7 DEF ControllerType
  <2>4. kbd' \in Seq(Keys) /\ Len(kbd') <= pressed'
    BY <1>4, <1>7 DEF ControllerType
  <2> QED
    BY <1>4, <2>1, <2>2, <2>3, <2>4 DEF ControllerType
<1>8. ControllerType'
  BY <1>5, <1>6, <1>7 DEF Fill
<1> QED
  BY <1>2, <1>8

LEMMA UserActionType == ASSUME InductiveType, Press \/ Move PROVE InductiveType'
<1> USE DEF InductiveType
<1>1. CASE Press
  <2>1. Key(pressed + 1) \in Keys /\ pressed + 1 \in 0 .. MaxKeys
    BY <1>1, BoundsAssumption, ByteTypes DEF Press, UserType
  <2>2. kbd' \in Seq(Keys) /\ Len(kbd') = Len(kbd) + 1 /\ Len(kbd) \in Nat
    BY <1>1, <2>1, LenProperties, AppendProperties DEF Press, ControllerType
  <2>3. ControllerType' /\ UserType'
    BY <1>1, <2>1, <2>2 DEF Press, ControllerType, UserType
  <2> QED
    BY <1>1, <2>3 DEF Press, BootType, HandlerType, kernelVars
<1>2. CASE Move
  <2>1. moves + 1 \in 1 .. MaxMoves /\ moves + 1 \in 0 .. MaxMoves
    BY <1>2, BoundsAssumption DEF Move, UserType
  <2>2. aux' \in Seq(MouseBytes)
    BY <1>2, <2>1, PacketBytes, ConcatProperties DEF Move, ControllerType
  <2>3. ControllerType' /\ UserType'
    BY <1>2, <2>1, <2>2 DEF Move, ControllerType, UserType
  <2> QED
    BY <1>2, <2>3 DEF Move, BootType, HandlerType, kernelVars
<1> QED
  BY <1>1, <1>2

LEMMA InterruptType == ASSUME InductiveType, Interrupt PROVE InductiveType'
<1> USE DEF InductiveType
<1>1. ASSUME NEW i \in {1, 12}, ReadInHandler(i), UNCHANGED pressed
      PROVE  ControllerType'
  BY <1>1, ByteTypes DEF ReadInHandler, ControllerType
<1>2. CASE Unhandled
  <2>1. BootType' /\ HandlerType' /\ UserType'
    BY <1>2 DEF Unhandled, kernelVars, inputVars, BootType, HandlerType, UserType
  <2>2. irr' \subseteq {1, 12} /\ reporting' \in BOOLEAN
    BY <1>2 DEF Unhandled, ControllerType
  <2> QED
    BY <1>2, <2>1, <2>2 DEF Unhandled, inputVars, ControllerType
<1>3. CASE KeyboardCallback
  <2>1. BootType' /\ UserType' /\ ControllerType'
    BY <1>1, <1>3 DEF KeyboardCallback, inputVars, BootType, UserType
  <2>2. handled' \in Seq(AllBytes)
    BY <1>3, AppendProperties DEF KeyboardCallback, HandlerType, ControllerType
  <2>3. stuck' \in BOOLEAN
    BY <1>3 DEF KeyboardCallback, HandlerType
  <2>4. HandlerType'
    BY <1>3, <2>2, <2>3 DEF KeyboardCallback, HandlerType
  <2> QED
    BY <2>1, <2>4
<1>4. CASE MouseCallbackHandler
  <2>1. BootType' /\ UserType' /\ ControllerType'
    BY <1>1, <1>4 DEF MouseCallbackHandler, inputVars, BootType, UserType
  <2>2. cycle \in 0 .. 2 /\ bytes \in [0 .. 2 -> AllBytes] /\ obf \in AllBytes
    BY DEF HandlerType, ControllerType
  <2>3. cycle' \in 0 .. 2 /\ bytes' \in [0 .. 2 -> AllBytes]
    BY <1>4, <2>2 DEF MouseCallbackHandler, AfterByte
  <2>4. <<bytes[0], bytes[1], obf>> \in AllBytes \X AllBytes \X AllBytes
    BY <2>2
  <2>5. reports' \in Seq(AllBytes \X AllBytes \X AllBytes)
    BY <1>4, <2>4, AppendProperties DEF MouseCallbackHandler, HandlerType
  <2>6. stuck' \in BOOLEAN
    BY <1>4 DEF MouseCallbackHandler, HandlerType
  <2>7. HandlerType'
    BY <1>4, <2>3, <2>5, <2>6 DEF MouseCallbackHandler, HandlerType
  <2> QED
    BY <2>1, <2>7
<1> QED
  BY <1>2, <1>3, <1>4 DEF Interrupt

\* What a step of start_kernel and init_mouse does to the buffer.
LEMMA BufferType ==
  ASSUME InductiveType, NEW b \in AllBytes, NEW c \in Configs, Buffer(b, c)
  PROVE  obf' \in AllBytes /\ config' \in Configs /\ irr' \subseteq {1, 12}
BY LinesType DEF Buffer, ControllerType, InductiveType

LEMMA ReadPortType ==
  ASSUME InductiveType, ReadPort
  PROVE  obf' \in AllBytes /\ config' \in Configs /\ irr' \subseteq {1, 12} /\ gaveUp' \in BOOLEAN
<1>1. obf \in AllBytes /\ config \in Configs /\ irr \subseteq {1, 12} /\ gaveUp \in BOOLEAN
  BY DEF InductiveType, ControllerType, UserType
<1>2. CASE obf # Empty /\ Buffer(Empty, config) /\ UNCHANGED gaveUp
  BY <1>1, <1>2, BufferType, ByteTypes
<1>3. CASE obf = Empty /\ gaveUp' = (gaveUp \/ response # Empty \/ aux # <<>>)
           /\ UNCHANGED <<obf, config, irr>>
  <2>1. gaveUp' \in BOOLEAN
    BY <1>3
  <2> QED
    BY <1>1, <1>3, <2>1
<1> QED
  BY <1>2, <1>3 DEF ReadPort

LEMMA ConfigTypes ==
  ASSUME NEW c \in Configs
  PROVE  /\ KeyboardOff(c) \in Configs /\ Mended(c) \in Configs
         /\ [c EXCEPT !.auxOff = FALSE] \in Configs /\ [c EXCEPT !.kbdOff = FALSE] \in Configs
BY DEF Configs, KeyboardOff, Mended

\* A step of start_kernel leaves the handlers' variables and the user's alone.
LEMMA BootQuietly == Boot => Quietly
<1> SUFFICES ASSUME Boot PROVE Quietly
  OBVIOUS
<1>1. InitKeyboard \/ RegisterMouse \/ InitShell => Quietly
  BY DEF InitKeyboard, RegisterMouse, InitShell
<1>2. DisableKeyboard \/ EnableMouse \/ EnableKeyboard \/ WriteConfig => Quietly
  BY DEF DisableKeyboard, EnableMouse, EnableKeyboard, WriteConfig, Tell, Control
<1>3. AskConfig \/ ReadConfig \/ ReadAck \/ SetDefaults \/ EnableReporting => Quietly
  BY DEF AskConfig, ReadConfig, ReadAck, SetDefaults, EnableReporting, MouseWrite, Control
<1> QED
  BY <1>1, <1>2, <1>3 DEF Boot

\* The handlers that are registered follow from the step.
LEMMA BootHandlers ==
  ASSUME InductiveType, Boot
  PROVE  /\ boot' \in Steps /\ handlers' \subseteq {1, 12}
         /\ 1 \in handlers' <=> boot' # "init_keyboard"
         /\ 12 \in handlers' <=> boot' \in {"init_shell", "idle"}
         /\ callback' \in BOOLEAN
<1>1. /\ boot \in Steps /\ handlers \subseteq {1, 12} /\ callback \in BOOLEAN
      /\ 1 \in handlers <=> boot # "init_keyboard"
      /\ 12 \in handlers <=> boot \in {"init_shell", "idle"}
  BY DEF InductiveType, BootType
<1>2. NextStep(boot)
  BY DEF Boot
<1>3. CASE InitKeyboard
  <2>1. boot = "init_keyboard" /\ handlers' = handlers \cup {1} /\ callback' = callback
    BY <1>3 DEF InitKeyboard, At
  <2> QED
    BY <1>1, <1>2, <2>1, NextSteps DEF Steps
<1>4. CASE RegisterMouse
  <2>1. boot = "register_mouse" /\ handlers' = handlers \cup {12} /\ callback' = callback
    BY <1>4 DEF RegisterMouse, At
  <2> QED
    BY <1>1, <1>2, <2>1, NextSteps DEF Steps
<1>5. CASE InitShell
  <2>1. boot = "init_shell" /\ handlers' = handlers /\ callback' = TRUE
    BY <1>5 DEF InitShell, At
  <2> QED
    BY <1>1, <1>2, <2>1, NextSteps DEF Steps
<1>6. CASE DisableKeyboard \/ EnableMouse \/ AskConfig \/ ReadConfig \/ WriteConfig
           \/ SetDefaults \/ ReadAck \/ EnableReporting \/ EnableKeyboard
  <2>1. /\ boot \notin {"init_keyboard", "register_mouse", "init_shell"}
        /\ handlers' = handlers /\ callback' = callback
    BY <1>6 DEF DisableKeyboard, EnableMouse, AskConfig, ReadConfig, WriteConfig, SetDefaults,
                ReadAck, EnableReporting, EnableKeyboard, At, Tell, MouseWrite, Control
  <2> QED
    BY <1>1, <1>2, <2>1, NextSteps DEF Steps
<1> QED
  BY <1>3, <1>4, <1>5, <1>6 DEF Boot

\* The types that a step of start_kernel may change.
LEMMA BootController ==
  ASSUME InductiveType, Boot
  PROVE  ControllerType' /\ status' \in Configs /\ gaveUp' \in BOOLEAN
<1> USE DEF InductiveType
<1>1. pressed' = pressed
  BY BootQuietly DEF Quietly, inputVars
<1>2. /\ obf \in AllBytes /\ config \in Configs /\ irr \subseteq {1, 12} /\ aux \in Seq(MouseBytes)
      /\ reporting \in BOOLEAN /\ status \in Configs /\ gaveUp \in BOOLEAN
      /\ kbd \in Seq(Keys) /\ Len(kbd) <= pressed
      /\ response \in {Empty} \cup {ConfigByte(c) : c \in Configs}
  BY DEF BootType, ControllerType, UserType
<1>3. CASE InitKeyboard \/ RegisterMouse \/ InitShell
  <2>1. UNCHANGED <<status, gaveUp>> /\ Device
    BY <1>3 DEF InitKeyboard, RegisterMouse, InitShell
  <2> QED
    BY <1>1, <1>2, <2>1 DEF Device, ControllerType
<1>4. ASSUME NEW c \in Configs, Buffer(obf, c),
             UNCHANGED <<status, response, kbd, aux, reporting, gaveUp>>
      PROVE  ControllerType' /\ status' \in Configs /\ gaveUp' \in BOOLEAN
  <2>1. obf' \in AllBytes /\ config' \in Configs /\ irr' \subseteq {1, 12}
    BY <1>2, <1>4, BufferType
  <2> QED
    BY <1>1, <1>2, <1>4, <2>1 DEF ControllerType
<1>5. CASE DisableKeyboard \/ EnableMouse \/ EnableKeyboard \/ WriteConfig
  BY <1>2, <1>4, <1>5, ConfigTypes
     DEF DisableKeyboard, EnableMouse, EnableKeyboard, WriteConfig, Tell
<1>6. CASE AskConfig
  <2>1. response' \in {Empty} \cup {ConfigByte(c) : c \in Configs}
    BY <1>2, <1>6 DEF AskConfig
  <2> QED
    BY <1>1, <1>2, <1>6, <2>1 DEF AskConfig, ControllerType
<1>7. CASE ReadConfig
  <2>1. obf.from = "controller" => obf.config \in Configs
    BY <1>2, Senders
  <2>2. status' \in Configs
    BY <1>7, <2>1, ConfigTypes DEF ReadConfig
  <2>3. obf' \in AllBytes /\ config' \in Configs /\ irr' \subseteq {1, 12} /\ gaveUp' \in BOOLEAN
    BY <1>7, ReadPortType DEF ReadConfig
  <2>4. UNCHANGED <<response, kbd, aux, reporting>>
    BY <1>7 DEF ReadConfig
  <2> QED
    BY <1>1, <1>2, <2>2, <2>3, <2>4 DEF ControllerType
<1>8. CASE ReadAck
  <2>1. obf' \in AllBytes /\ config' \in Configs /\ irr' \subseteq {1, 12} /\ gaveUp' \in BOOLEAN
    BY <1>8, ReadPortType DEF ReadAck
  <2>2. UNCHANGED <<status, response, kbd, aux, reporting>>
    BY <1>8 DEF ReadAck
  <2> QED
    BY <1>1, <1>2, <2>1, <2>2 DEF ControllerType
<1>9. ASSUME NEW on \in BOOLEAN, MouseWrite(on)
      PROVE  ControllerType' /\ status' \in Configs /\ gaveUp' \in BOOLEAN
  <2>1. aux' \in Seq(MouseBytes)
    BY <1>2, <1>9, ByteTypes, AppendProperties DEF MouseWrite
  <2>2. reporting' \in BOOLEAN
    BY <1>2, <1>9 DEF MouseWrite
  <2>3. UNCHANGED <<status, obf, config, response, kbd, irr, gaveUp>>
    BY <1>9 DEF MouseWrite
  <2> QED
    BY <1>1, <1>2, <2>1, <2>2, <2>3 DEF ControllerType
<1>10. CASE SetDefaults \/ EnableReporting
  BY <1>9, <1>10 DEF SetDefaults, EnableReporting
<1> QED
  BY <1>3, <1>5, <1>6, <1>7, <1>8, <1>10 DEF Boot

LEMMA BootActionType == ASSUME InductiveType, Boot PROVE InductiveType'
<1>1. Quietly
  BY BootQuietly
<1>2. BootType'
  BY BootHandlers, BootController DEF BootType
<1>3. HandlerType' /\ UserType'
  BY <1>1, BootController DEF Quietly, inputVars, InductiveType, HandlerType, UserType
<1> QED
  BY <1>2, <1>3, BootController DEF InductiveType

LEMMA TypeNext == ASSUME InductiveType, [Next]_vars PROVE InductiveType'
<1>1. CASE UNCHANGED vars
  <2>1. BootType' /\ HandlerType'
    BY <1>1 DEF vars, InductiveType, BootType, HandlerType
  <2>2. ControllerType' /\ UserType'
    BY <1>1 DEF vars, InductiveType, ControllerType, UserType
  <2> QED
    BY <2>1, <2>2 DEF InductiveType
<1> QED
  BY <1>1, BootActionType, InterruptType, FillType, UserActionType DEF Next

LEMMA TypeInvariant == Spec => []InductiveType
<1>1. InductiveType /\ [Next]_vars => InductiveType'
  BY TypeNext
<1> QED
  BY <1>1, TypeInit, PTL DEF Spec

\* Every variable of the kernel, of the controller and of the devices keeps its
\* type, whatever the user and the controller do: mouse_cycle, which indexes the
\* three elements of mouse_bytes, never leaves 0 .. 2.
THEOREM TypeCorrect == Spec => []TypeOK
BY TypeInvariant, TypesSuffice, PTL

-----------------------------------------------------------------------------
(***************************************************************************)
(* InputKnown is inductive: as long as nobody disturbs the boot, each step *)
(* leaves no doubt whose byte is in the buffer.                            *)
(***************************************************************************)
Known == ConfigKnown /\ AnswersKnown /\ BufferAnnounced /\ KeysInLine /\ PacketsInLine

\* What was not disturbed after a step was not disturbed before it.
LEMMA UndisturbedBefore ==
  ASSUME InductiveType, Next, Undisturbed' PROVE Undisturbed
<1>1. CASE Boot
  <2>1. early' = early
    BY <1>1, BootQuietly DEF Quietly, inputVars
  <2>2. ReadPort => (~gaveUp' => ~gaveUp)
    BY DEF ReadPort
  <2>3. ~gaveUp' => ~gaveUp
    BY <1>1, <2>2 DEF Boot, InitKeyboard, DisableKeyboard, EnableMouse, AskConfig, ReadConfig,
                      WriteConfig, SetDefaults, ReadAck, EnableReporting, EnableKeyboard,
                      RegisterMouse, InitShell, Tell, MouseWrite
  <2> QED
    BY <2>1, <2>3 DEF Undisturbed
<1>2. CASE Interrupt
  BY <1>2 DEF Interrupt, Unhandled, KeyboardCallback, MouseCallbackHandler, inputVars, Undisturbed
<1>3. CASE Fill
  BY <1>3 DEF Fill, inputVars, Undisturbed
<1>4. CASE Press \/ Move
  <2>1. early \in BOOLEAN
    BY DEF InductiveType, UserType
  <2>2. \/ early' = (early \/ 1 \notin handlers)
        \/ early' = (early \/ 12 \notin handlers)
    BY <1>4 DEF Press, Move
  <2>3. early => early'
    BY <2>1, <2>2
  <2>4. gaveUp' = gaveUp
    BY <1>4 DEF Press, Move
  <2> QED
    BY <2>3, <2>4 DEF Undisturbed
<1> QED
  BY <1>1, <1>2, <1>3, <1>4 DEF Next

\* A byte that one sender sent is not another's.
LEMMA Distinct ==
  /\ Empty.from = "nobody" /\ Ack.from = "mouse" /\ Ack # Empty
  /\ \A c : ConfigByte(c).from = "controller" /\ ConfigByte(c).config = c /\ ConfigByte(c) # Empty
  /\ \A n : Key(n).from = "keyboard"
BY DEF Empty, Ack, ConfigByte, Key

LEMMA LinesOf ==
  ASSUME NEW b, NEW c
  PROVE  /\ 1 \in Lines(b, c) <=>
              (b.from \in {"keyboard", "controller"} /\ c.kbdInt /\ ~c.kbdOff)
         /\ 12 \in Lines(b, c) <=> (b.from = "mouse" /\ c.auxInt)
         /\ b.from = "nobody" => Lines(b, c) = {}
BY DEF Lines

\* Keys are neither read nor sent.
LEMMA KeysStay ==
  ASSUME KeysInLine, UNCHANGED <<handled, kbd, pressed>>, 1 \in handlers => 1 \in handlers',
         obf' = obf \/ (obf.from # "keyboard" /\ obf'.from # "keyboard")
  PROVE  KeysInLine'
BY DEF KeysInLine, From

\* Nor are the bytes of the mouse's packets.
LEMMA PacketsStay ==
  ASSUME PacketsInLine, UNCHANGED <<reports, cycle, bytes, moves>>,
         12 \in handlers' <=> 12 \in handlers,
         12 \in handlers => (UNCHANGED aux
                             /\ (obf' = obf \/ (obf.from # "mouse" /\ obf'.from # "mouse")))
  PROVE  PacketsInLine'
<1>1. CASE 12 \notin handlers
  BY <1>1 DEF PacketsInLine
<1>2. CASE 12 \in handlers
  <2>1. BytesRead' = BytesRead /\ From("mouse")' = From("mouse") /\ aux' = aux
    BY <1>2 DEF BytesRead, From
  <2>2. obf'.from = "mouse" => obf' = obf
    BY <1>2
  <2> QED
    BY <1>2, <2>1, <2>2 DEF PacketsInLine
<1> QED
  BY <1>1, <1>2

LEMMA KnownInit == Init => Known
<1> SUFFICES ASSUME Init PROVE Known
  OBVIOUS
<1>1. ConfigKnown /\ AnswersKnown /\ BufferAnnounced
  BY Distinct DEF Init, ConfigKnown, AnswersKnown, BufferAnnounced, Silent
<1>2. From("keyboard") = 0 /\ Len(kbd) = 0 /\ Len(handled) = 0
  BY Distinct DEF Init, From
<1>3. KeysInLine /\ PacketsInLine
  BY <1>2, Distinct DEF Init, KeysInLine, PacketsInLine
<1> QED
  BY <1>1, <1>3 DEF Known

\* Where init_mouse is, when the buffer and the keyboard's queue are what they are.
LEMMA BootPlaces ==
  ASSUME InductiveType, Known
  PROVE  /\ boot \in Steps
         /\ kbd # <<>> => 1 \in handlers
         /\ aux # <<>> => boot \in {"read_ack1", "read_ack2", "init_shell", "idle"}
         /\ response # Empty => boot = "read_config"
<1>1. boot \in Steps /\ kbd \in Seq(Keys) /\ Len(handled) \in Nat
  BY LenProperties DEF InductiveType, BootType, ControllerType, HandlerType
<1>2. ASSUME kbd # <<>> PROVE 1 \in handlers
  <2>1. Len(kbd) \in Nat \ {0} /\ From("keyboard") \in Nat
    BY <1>1, <1>2, EmptySeq DEF From
  <2>2. pressed = Len(handled) + From("keyboard") + Len(kbd) /\ (1 \notin handlers => pressed = 0)
    BY DEF Known, KeysInLine
  <2> QED
    BY <1>1, <2>1, <2>2
<1>3. aux # <<>> => boot \in {"read_ack1", "read_ack2", "init_shell", "idle"}
  BY <1>1 DEF Known, AnswersKnown, BufferAnnounced, Silent, InductiveType, BootType, Steps
<1> QED
  BY <1>1, <1>2, <1>3 DEF Known, AnswersKnown

\* The user presses a key.
LEMMA KnownPress ==
  ASSUME InductiveType, InductiveType', Known, Press, Undisturbed' PROVE Known'
<1>1. 1 \in handlers
  BY DEF Press, Undisturbed
<1>2. ConfigKnown' /\ AnswersKnown' /\ BufferAnnounced'
  BY DEF Press, kernelVars, Known, ConfigKnown, AnswersKnown, BufferAnnounced, Silent, Pending
<1>3. PacketsInLine'
  BY PacketsStay DEF Press, kernelVars, Known
<1>4. kbd \in Seq(Keys) /\ Len(kbd) \in Nat /\ Len(handled) \in Nat /\ From("keyboard") \in Nat
  BY LenProperties DEF InductiveType, ControllerType, HandlerType, From
<1>5. pressed = Len(handled) + From("keyboard") + Len(kbd) /\ pressed \in Nat
  BY <1>4 DEF Known, KeysInLine
<1>6. Key(pressed + 1) \in Keys
  BY BoundsAssumption, ByteTypes, <1>5 DEF Press, InductiveType, UserType
<1>7. /\ kbd' = Append(kbd, Key(pressed + 1)) /\ UNCHANGED <<handled, obf, handlers>>
      /\ From("keyboard")' = From("keyboard") /\ pressed' = pressed + 1
  BY DEF Press, kernelVars, From
<1>8. /\ Len(kbd') = Len(kbd) + 1 /\ DOMAIN kbd' = 1 .. Len(kbd) + 1 /\ DOMAIN kbd = 1 .. Len(kbd)
      /\ \A i \in 1 .. Len(kbd) : kbd'[i] = kbd[i]
      /\ kbd'[Len(kbd) + 1] = Key(pressed + 1)
  BY <1>4, <1>6, <1>7, AppendProperties, LenProperties
<1>9. ASSUME NEW i \in DOMAIN kbd' PROVE kbd'[i] = Key(Len(handled) + From("keyboard") + i)
  <2>1. CASE i \in 1 .. Len(kbd)
    BY <1>8, <2>1 DEF Known, KeysInLine
  <2>2. CASE i = Len(kbd) + 1
    <3>1. Len(handled) + From("keyboard") + i = pressed + 1
      BY <1>4, <1>5, <2>2
    <3> QED
      BY <1>8, <2>2, <3>1
  <2> QED
    BY <1>4, <1>8, <1>9, <2>1, <2>2
<1>10. pressed' = Len(handled) + From("keyboard") + Len(kbd')
  BY <1>4, <1>5, <1>7, <1>8
<1>11. KeysInLine'
  BY <1>1, <1>7, <1>9, <1>10 DEF Known, KeysInLine
<1> QED
  BY <1>2, <1>3, <1>11 DEF Known

\* The counters of the packets are numbers.
LEMMA Counters ==
  ASSUME InductiveType
  PROVE  /\ BytesRead \in Nat /\ From("mouse") \in Nat /\ Len(aux) \in Nat /\ moves \in Nat
         /\ Len(reports) \in Nat /\ cycle \in 0 .. 2 /\ DOMAIN aux = 1 .. Len(aux)
         /\ aux \in Seq(MouseBytes) /\ DOMAIN reports = 1 .. Len(reports)
<1>1. Len(reports) \in Nat /\ Len(aux) \in Nat /\ aux \in Seq(MouseBytes)
      /\ DOMAIN aux = 1 .. Len(aux) /\ DOMAIN reports = 1 .. Len(reports)
  BY LenProperties DEF InductiveType, HandlerType, ControllerType
<1> QED
  BY <1>1, BoundsAssumption DEF InductiveType, HandlerType, UserType, BytesRead, From

\* The number of a byte, from its movement and its place in the packet.
LEMMA ByteNumber ==
  ASSUME NEW b \in MouseBytes, NEW m \in Int, NEW part \in Int, NEW n \in Int,
         b.move = m, b.part = part
  PROVE  IsByte(b, n) <=> (3 * (m - 1) + part = n /\ (part = 0 => b.bit3))
BY DEF IsByte

\* The user moves the mouse.
LEMMA KnownMove ==
  ASSUME InductiveType, InductiveType', Known, Move, Undisturbed' PROVE Known'
<1>1. 12 \in handlers /\ boot \in {"init_shell", "idle"}
  BY DEF Move, Undisturbed, InductiveType, BootType
<1>2. ConfigKnown' /\ AnswersKnown' /\ BufferAnnounced'
  BY <1>1 DEF Move, kernelVars, Known, ConfigKnown, AnswersKnown, BufferAnnounced, Silent
<1>3. KeysInLine'
  BY KeysStay DEF Move, kernelVars, Known
<1>4. moves + 1 \in 1 .. MaxMoves
  BY BoundsAssumption DEF Move, InductiveType, UserType
<1>5. PICK b1 \in BOOLEAN, b2 \in BOOLEAN : aux' = aux \o Packet(moves + 1, b1, b2)
  BY DEF Move
<1> DEFINE P == Packet(moves + 1, b1, b2)
<1>6. /\ P \in Seq(MouseBytes) /\ Len(P) = 3
      /\ \A i \in 1 .. 3 : /\ P[i] \in MouseBytes /\ P[i].move = moves + 1
                           /\ P[i].part = i - 1 /\ (i = 1 => P[i].bit3)
  BY <1>4, PacketBytes
<1>7. /\ Len(aux') = Len(aux) + 3 /\ aux' \in Seq(MouseBytes)
      /\ \A i \in 1 .. Len(aux) + 3 : aux'[i] = IF i <= Len(aux) THEN aux[i] ELSE P[i - Len(aux)]
  <2>1. aux \in Seq(MouseBytes) /\ P \in Seq(MouseBytes) /\ Len(P) = 3 /\ aux' = aux \o P
    BY <1>5, <1>6, Counters
  <2> HIDE DEF P
  <2>2. /\ Len(aux') = Len(aux) + Len(P) /\ aux' \in Seq(MouseBytes)
        /\ \A i \in 1 .. Len(aux) + Len(P) :
             aux'[i] = IF i <= Len(aux) THEN aux[i] ELSE P[i - Len(aux)]
    BY <2>1, ConcatProperties
  <2> QED
    BY <2>1, <2>2
<1>8. /\ UNCHANGED <<reports, cycle, bytes, obf, handlers>> /\ moves' = moves + 1
      /\ BytesRead' = BytesRead /\ From("mouse")' = From("mouse")
  BY DEF Move, kernelVars, BytesRead, From
<1>9. 3 * moves = BytesRead + From("mouse") + Len(aux)
  BY <1>1 DEF Known, PacketsInLine
<1>10. ASSUME NEW i \in DOMAIN aux' PROVE IsByte(aux'[i], BytesRead + From("mouse") + i - 1)
  <2>1. i \in 1 .. Len(aux) + 3
    BY <1>7, Counters, LenProperties
  <2>2. CASE i <= Len(aux)
    BY <1>1, <1>7, <2>1, <2>2, Counters DEF Known, PacketsInLine
  <2>3. CASE i > Len(aux)
    <3>1. PICK j \in 1 .. 3 : j = i - Len(aux)
      BY <2>1, <2>3, Counters
    <3>2. aux'[i] = P[j]
      BY <1>7, <2>1, <2>3, <3>1, Counters
    <3>3. P[j].part = j - 1 /\ P[j].move = moves + 1 /\ P[j] \in MouseBytes /\ (j = 1 => P[j].bit3)
      BY <1>6
    <3>4. 3 * (moves + 1 - 1) + (j - 1) = BytesRead + From("mouse") + i - 1
      BY <1>9, <2>1, <3>1, Counters
    <3>5. moves + 1 \in Int /\ j - 1 \in Int /\ BytesRead + From("mouse") + i - 1 \in Int
      BY <2>1, Counters
    <3> HIDE DEF P
    <3>6. PICK m \in Int, part \in Int, n \in Int :
            m = moves + 1 /\ part = j - 1 /\ n = BytesRead + From("mouse") + i - 1
      BY <3>5
    <3>7. /\ P[j] \in MouseBytes /\ P[j].move = m /\ P[j].part = part
          /\ 3 * (m - 1) + part = n /\ (part = 0 => P[j].bit3)
      <4>1. 3 * (m - 1) + part = n
        BY <3>4, <3>6, Counters
      <4>2. part = 0 => j = 1
        BY <3>6
      <4> QED
        BY <3>3, <3>6, <4>1, <4>2
    <3>8. IsByte(P[j], n)
      BY <3>7, ByteNumber
    <3> QED
      BY <3>2, <3>6, <3>8
  <2> QED
    BY <2>1, <2>2, <2>3, Counters
<1>11. 3 * moves' = BytesRead' + From("mouse")' + Len(aux')
  <2>1. Len(aux') = Len(aux) + 3
    BY <1>7
  <2> HIDE DEF P
  <2>2. 3 * (moves + 1) = BytesRead + From("mouse") + (Len(aux) + 3)
    BY <1>9, Counters
  <2> QED
    BY <1>8, <2>1, <2>2
<1>12. PacketsInLine'
  <2>1. 12 \in handlers' /\ (obf'.from = "mouse" => IsByte(obf', BytesRead'))
    BY <1>1, <1>8 DEF Known, PacketsInLine
  <2>2. \A i \in DOMAIN aux' : IsByte(aux'[i], BytesRead' + From("mouse")' + i - 1)
    BY <1>8, <1>10
  <2>3. \A i \in DOMAIN reports : \A part \in 1 .. 3 :
          reports[i][part].move = i /\ reports[i][part].part = part - 1
    BY DEF Known, PacketsInLine
  <2>4. \A i \in 0 .. cycle - 1 : bytes[i].move = Len(reports) + 1 /\ bytes[i].part = i
    BY DEF Known, PacketsInLine
  <2> QED
    BY <1>8, <1>11, <2>1, <2>2, <2>3, <2>4 DEF PacketsInLine, IsByte
<1> QED
  BY <1>2, <1>3, <1>12 DEF Known

\* With the keyboard enabled and nothing in the buffer, no interrupt is requested.
LEMMA QuietWhenEmpty ==
  ASSUME BufferAnnounced, obf = Empty,
         boot \in {"disable_keyboard", "register_mouse", "init_shell", "idle"}
  PROVE  irr = {} /\ (12 \notin handlers => aux = <<>>)
BY Distinct DEF BufferAnnounced

\* The controller puts its answer into the buffer.
LEMMA KnownFillAnswer ==
  ASSUME InductiveType, Known, obf = Empty, response # Empty, Buffer(response, config),
         response' = Empty, UNCHANGED <<kbd, aux>>, UNCHANGED <<reporting, handled, reports, gaveUp>>,
         UNCHANGED kernelVars, UNCHANGED inputVars
  PROVE  Known'
<1>1. boot = "read_config" /\ 12 \notin handlers
  BY BootPlaces DEF InductiveType, BootType
<1>2. /\ aux = <<>> /\ irr = {} /\ response = ConfigByte(config) /\ config.kbdOff
  BY <1>1 DEF Known, AnswersKnown, ConfigKnown
<1>3. Lines(response, config) = {}
  <2>1. 1 \notin Lines(response, config) /\ 12 \notin Lines(response, config)
    BY <1>2, LinesOf, Distinct
  <2> QED
    BY <2>1, LinesType
<1>4. obf' = ConfigByte(config) /\ config' = config /\ irr' = {}
  BY <1>2, <1>3 DEF Buffer
<1>5. ConfigKnown' /\ AnswersKnown' /\ BufferAnnounced'
  BY <1>1, <1>2, <1>4, Distinct
     DEF kernelVars, Known, ConfigKnown, AnswersKnown, BufferAnnounced, Pending
<1>6. KeysInLine'
  BY <1>4, Distinct, KeysStay DEF kernelVars, inputVars, Known
<1>7. PacketsInLine'
  BY <1>1, PacketsStay DEF kernelVars, inputVars, Known
<1> QED
  BY <1>5, <1>6, <1>7 DEF Known

\* The keyboard puts its next key into the buffer.
LEMMA KnownFillKey ==
  ASSUME InductiveType, Known, obf = Empty, kbd # <<>>, ~config.kbdOff, Buffer(Head(kbd), config),
         kbd' = Tail(kbd), UNCHANGED <<response, aux>>,
         UNCHANGED <<reporting, handled, reports, gaveUp>>,
         UNCHANGED kernelVars, UNCHANGED inputVars
  PROVE  Known'
<1>1. boot \in {"disable_keyboard", "register_mouse", "init_shell", "idle"} /\ 1 \in handlers
  BY BootPlaces DEF Known, ConfigKnown, InductiveType, BootType, Steps
<1>2. irr = {} /\ (12 \notin handlers => aux = <<>>)
  BY <1>1, QuietWhenEmpty DEF Known
<1>3. /\ kbd \in Seq(Keys) /\ Len(kbd) \in Nat \ {0} /\ Len(handled) \in Nat /\ From("keyboard") = 0
      /\ DOMAIN kbd = 1 .. Len(kbd)
  BY EmptySeq, LenProperties, Distinct DEF InductiveType, ControllerType, HandlerType, From
<1>4. /\ Head(kbd) = kbd[1] /\ Tail(kbd) \in Seq(Keys) /\ Len(Tail(kbd)) = Len(kbd) - 1
      /\ \A i \in 1 .. Len(kbd) - 1 : Tail(kbd)[i] = kbd[i + 1]
      /\ DOMAIN Tail(kbd) = 1 .. Len(kbd) - 1
  BY <1>3, HeadTailProperties, LenProperties
<1>5. \A i \in 1 .. Len(kbd) : kbd[i] = Key(Len(handled) + i)
  BY <1>3 DEF Known, KeysInLine
<1>6. Head(kbd) = Key(Len(handled) + 1)
  BY <1>3, <1>4, <1>5
<1>7. Lines(Head(kbd), config) \ Lines(obf, config) = {1}
  <2>1. 1 \in Lines(Head(kbd), config) /\ 12 \notin Lines(Head(kbd), config)
    BY <1>6, LinesOf, Distinct DEF Known, ConfigKnown
  <2>2. Lines(obf, config) = {}
    BY LinesOf, Distinct
  <2> QED
    BY <2>1, <2>2, LinesType
<1>8. obf' = Key(Len(handled) + 1) /\ config' = config /\ irr' = {1}
  BY <1>2, <1>6, <1>7 DEF Buffer
<1>9. ConfigKnown' /\ AnswersKnown' /\ BufferAnnounced'
  BY <1>1, <1>2, <1>8, Distinct
     DEF kernelVars, Known, ConfigKnown, AnswersKnown, BufferAnnounced
<1>10. From("keyboard")' = 1
  BY <1>8, Distinct DEF From
<1>11. ASSUME NEW i \in DOMAIN kbd' PROVE kbd'[i] = Key(Len(handled) + 1 + i)
  <2>1. i + 1 \in 1 .. Len(kbd) /\ kbd'[i] = kbd[i + 1]
    BY <1>3, <1>4
  <2>2. Len(handled) + (i + 1) = Len(handled) + 1 + i
    BY <1>3, <1>4
  <2> QED
    BY <1>5, <2>1, <2>2
<1>12. pressed = Len(handled) + 1 + (Len(kbd) - 1)
  BY <1>3 DEF Known, KeysInLine
<1>13. KeysInLine'
  <2>1. pressed' = pressed /\ handled' = handled /\ handlers' = handlers
    BY DEF inputVars, kernelVars
  <2>2. pressed' = Len(handled') + From("keyboard")' + Len(kbd')
    BY <1>4, <1>10, <1>12, <2>1
  <2>3. \A i \in DOMAIN kbd' : kbd'[i] = Key(Len(handled') + From("keyboard")' + i)
    BY <1>10, <1>11, <2>1
  <2> QED
    BY <1>1, <1>8, <2>1, <2>2, <2>3 DEF Known, KeysInLine
<1>14. PacketsInLine'
  BY <1>8, Distinct, PacketsStay DEF kernelVars, inputVars, Known
<1> QED
  BY <1>9, <1>13, <1>14 DEF Known

\* The mouse puts its next byte into the buffer.
LEMMA KnownFillMouse ==
  ASSUME InductiveType, InductiveType', Known, obf = Empty, response = Empty, aux # <<>>,
         Buffer(Head(aux), config), aux' = Tail(aux), UNCHANGED <<response, kbd>>,
         UNCHANGED <<reporting, handled, reports, gaveUp>>,
         UNCHANGED kernelVars, UNCHANGED inputVars
  PROVE  Known'
<1>1. boot \in {"read_ack1", "read_ack2", "init_shell", "idle"}
  BY BootPlaces
<1>2. /\ aux \in Seq(MouseBytes) /\ Len(aux) \in Nat \ {0} /\ DOMAIN aux = 1 .. Len(aux)
      /\ Head(aux) = aux[1] /\ aux[1] \in MouseBytes
  BY EmptySeq, LenProperties, ElementOfSeq DEF InductiveType, ControllerType
<1>3. /\ Tail(aux) \in Seq(MouseBytes) /\ Len(Tail(aux)) = Len(aux) - 1
      /\ \A i \in 1 .. Len(aux) - 1 : Tail(aux)[i] = aux[i + 1]
      /\ DOMAIN Tail(aux) = 1 .. Len(aux) - 1
  BY <1>2, HeadTailProperties, LenProperties
<1>4. Head(aux).from = "mouse"
  BY <1>2, Senders, ByteTypes
<1>5. /\ irr' = irr \cup Lines(Head(aux), config) /\ Lines(Head(aux), config) \subseteq {12}
      /\ config.auxInt => Lines(Head(aux), config) = {12}
      /\ obf' = Head(aux) /\ config' = config
  <2>1. 1 \notin Lines(Head(aux), config) /\ (config.auxInt => 12 \in Lines(Head(aux), config))
    BY <1>4, LinesOf
  <2>2. Lines(obf, config) = {}
    BY LinesOf, Distinct
  <2> QED
    BY <2>1, <2>2, LinesType DEF Buffer
<1>6. UNCHANGED <<boot, status, handlers, callback, stuck, cycle, bytes, present, pressed, moves, early>>
  BY DEF kernelVars, inputVars
<1>7. KeysInLine'
  BY <1>4, <1>5, <1>6, Distinct, KeysStay DEF Known
<1>8. ConfigKnown'
  BY <1>5, <1>6 DEF Known, ConfigKnown
<1>9. CASE boot \in {"read_ack1", "read_ack2"}
  <2>1. present /\ aux = <<Ack>> /\ irr = {}
    BY <1>9, Distinct DEF Known, AnswersKnown, Silent
  <2>2. obf' = Ack /\ aux' = <<>> /\ irr' \subseteq {12}
    BY <1>5, <2>1
  <2>3. AnswersKnown' /\ BufferAnnounced'
    BY <1>6, <1>9, <2>1, <2>2, Distinct DEF Known, AnswersKnown, BufferAnnounced, Pending
  <2>4. 12 \notin handlers
    BY <1>9 DEF InductiveType, BootType
  <2>5. PacketsInLine'
    BY <1>6, <2>4, PacketsStay DEF Known
  <2> QED
    BY <1>7, <1>8, <2>3, <2>5 DEF Known
<1>10. CASE boot \in {"init_shell", "idle"}
  <2>1. 12 \in handlers /\ irr = {} /\ config.auxInt
    BY <1>10, QuietWhenEmpty DEF Known, ConfigKnown, InductiveType, BootType
  <2>2. irr' = {12}
    BY <1>5, <2>1
  <2>3. AnswersKnown' /\ BufferAnnounced'
    BY <1>4, <1>5, <1>6, <1>10, <2>1, <2>2 DEF Known, AnswersKnown, BufferAnnounced
  <2>4. From("mouse") = 0 /\ From("mouse")' = 1 /\ BytesRead' = BytesRead
    BY <1>4, <1>5, <1>6, Distinct DEF From, BytesRead
  <2>5. ASSUME NEW i \in 1 .. Len(aux) PROVE IsByte(aux[i], BytesRead + i - 1)
    <3>1. IsByte(aux[i], BytesRead + From("mouse") + i - 1)
      BY <1>2, <2>1 DEF Known, PacketsInLine
    <3>2. BytesRead + From("mouse") + i - 1 = BytesRead + i - 1
      BY <1>2, <2>4, Counters
    <3> QED
      BY <3>1, <3>2
  <2>6. 3 * moves = BytesRead + Len(aux)
    BY <2>1, <2>4, Counters DEF Known, PacketsInLine
  <2>7. IsByte(obf', BytesRead)
    BY <1>2, <1>5, <2>5, Counters
  <2>8. ASSUME NEW i \in DOMAIN aux' PROVE IsByte(aux'[i], BytesRead + 1 + i - 1)
    <3>1. i + 1 \in 1 .. Len(aux) /\ aux'[i] = aux[i + 1]
      BY <1>2, <1>3
    <3>2. BytesRead + (i + 1) - 1 = BytesRead + 1 + i - 1
      BY <3>1, <1>3, Counters
    <3> QED
      BY <2>5, <3>1, <3>2
  <2>9. 3 * moves = BytesRead + 1 + Len(aux')
    BY <1>2, <1>3, <2>6, Counters
  <2>10. PacketsInLine'
    <3>1. 12 \in handlers' /\ UNCHANGED <<reports, bytes, cycle, moves>>
      BY <1>6, <2>1
    <3>2. \A i \in DOMAIN aux' : IsByte(aux'[i], BytesRead' + From("mouse")' + i - 1)
      BY <2>4, <2>8
    <3>3. 3 * moves' = BytesRead' + From("mouse")' + Len(aux')
      BY <2>4, <2>9, <3>1
    <3>4. \A i \in DOMAIN reports : \A part \in 1 .. 3 :
            reports[i][part].move = i /\ reports[i][part].part = part - 1
      BY DEF Known, PacketsInLine
    <3>5. \A i \in 0 .. cycle - 1 : bytes[i].move = Len(reports) + 1 /\ bytes[i].part = i
      BY DEF Known, PacketsInLine
    <3> QED
      BY <2>4, <2>7, <3>1, <3>2, <3>3, <3>4, <3>5 DEF PacketsInLine, IsByte
  <2> QED
    BY <1>7, <1>8, <2>3, <2>10 DEF Known
<1> QED
  BY <1>1, <1>9, <1>10

LEMMA KnownFill == ASSUME InductiveType, InductiveType', Known, Fill PROVE Known'
BY KnownFillAnswer, KnownFillKey, KnownFillMouse DEF Fill

LEMMA KnownUnhandled ==
  ASSUME InductiveType, Known, Unhandled PROVE Known'
<1>1. PICK i \in {1, 12} : i \in irr /\ i \notin handlers /\ irr' = irr \ {i}
  BY DEF Unhandled, Acknowledged
<1>2. /\ UNCHANGED <<obf, config, response, kbd, aux, reporting, handled, reports, gaveUp>>
      /\ UNCHANGED <<boot, status, handlers, callback, stuck, cycle, bytes>>
      /\ UNCHANGED <<present, pressed, moves, early>>
  BY DEF Unhandled, kernelVars, inputVars
<1>3. boot \in {"read_ack1", "read_ack2"}
  BY <1>1 DEF Known, AnswersKnown, BufferAnnounced, Silent, InductiveType, BootType, Steps
<1>4. ConfigKnown' /\ AnswersKnown' /\ BufferAnnounced'
  BY <1>1, <1>2, <1>3
     DEF Known, ConfigKnown, AnswersKnown, BufferAnnounced, Pending, Silent
<1>5. KeysInLine' /\ PacketsInLine'
  BY <1>2, KeysStay, PacketsStay DEF Known
<1> QED
  BY <1>4, <1>5 DEF Known

\* Whose interrupt is requested when a handler is called.
LEMMA HandlerCalled ==
  ASSUME InductiveType, Known, NEW i \in {1, 12}, i \in irr, i \in handlers
  PROVE  /\ boot \in {"disable_keyboard", "register_mouse", "init_shell", "idle"}
         /\ irr = {i}
         /\ i = 1 => obf.from = "keyboard"
         /\ i = 12 => obf.from = "mouse"
<1>1. boot \in {"disable_keyboard", "register_mouse", "init_shell", "idle"}
  BY Distinct DEF Known, AnswersKnown, Silent, InductiveType, BootType, Steps
<1> QED
  BY <1>1 DEF Known, BufferAnnounced

LEMMA KnownKeyboardCallback ==
  ASSUME InductiveType, InductiveType', Known, KeyboardCallback PROVE Known'
<1>1. /\ 1 \in irr /\ 1 \in handlers /\ obf' = Empty /\ irr' = irr \ {1}
      /\ handled' = Append(handled, obf)
      /\ UNCHANGED <<config, response, kbd, aux, reporting>>
      /\ UNCHANGED <<boot, status, handlers, callback, cycle, bytes, reports, gaveUp>>
      /\ UNCHANGED <<present, pressed, moves, early>>
  BY DEF KeyboardCallback, Acknowledged, ReadInHandler, inputVars
<1>2. /\ boot \in {"disable_keyboard", "register_mouse", "init_shell", "idle"}
      /\ irr = {1} /\ obf.from = "keyboard"
  BY <1>1, HandlerCalled
<1>3. irr' = {} /\ (12 \notin handlers => aux = <<>>)
  BY <1>1, <1>2 DEF Known, BufferAnnounced
<1>4. ConfigKnown' /\ AnswersKnown' /\ BufferAnnounced'
  BY <1>1, <1>2, <1>3 DEF Known, ConfigKnown, AnswersKnown, BufferAnnounced
<1>5. /\ handled \in Seq(AllBytes) /\ Len(handled) \in Nat /\ DOMAIN handled = 1 .. Len(handled)
      /\ Len(kbd) \in Nat /\ DOMAIN kbd = 1 .. Len(kbd)
  BY LenProperties DEF InductiveType, HandlerType, ControllerType
<1>6. /\ Len(handled') = Len(handled) + 1 /\ DOMAIN handled' = 1 .. Len(handled) + 1
      /\ \A i \in 1 .. Len(handled) : handled'[i] = handled[i]
      /\ handled'[Len(handled) + 1] = obf
  <2>1. obf \in AllBytes
    BY DEF InductiveType, ControllerType
  <2> QED
    BY <1>1, <1>5, <2>1, AppendProperties, LenProperties
<1>7. obf = Key(Len(handled) + 1) /\ From("keyboard") = 1 /\ From("keyboard")' = 0
  BY <1>1, <1>2, Distinct DEF From, Known, KeysInLine
<1>8. \A i \in DOMAIN handled' : handled'[i] = Key(i)
  <2>1. \A i \in 1 .. Len(handled) : handled[i] = Key(i)
    BY <1>5 DEF Known, KeysInLine
  <2> QED
    BY <1>5, <1>6, <1>7, <2>1
<1>9. ASSUME NEW i \in DOMAIN kbd PROVE kbd[i] = Key(Len(handled') + 0 + i)
  <2>1. kbd[i] = Key(Len(handled) + From("keyboard") + i)
    BY DEF Known, KeysInLine
  <2>2. Len(handled) + From("keyboard") + i = Len(handled') + 0 + i
    BY <1>5, <1>6, <1>7
  <2> QED
    BY <2>1, <2>2
<1>10. pressed = Len(handled') + 0 + Len(kbd)
  BY <1>5, <1>6, <1>7 DEF Known, KeysInLine
<1>11. KeysInLine'
  BY <1>1, <1>7, <1>8, <1>9, <1>10, Distinct DEF KeysInLine
<1>12. PacketsInLine'
  BY <1>1, <1>2, Distinct, PacketsStay DEF Known
<1> QED
  BY <1>4, <1>11, <1>12 DEF Known

\* The byte that the handler of the mouse reads is the one it waits for: it
\* belongs to the packet after the last report, at the place mouse_cycle.
LEMMA ByteExpected ==
  ASSUME InductiveType, Known, 12 \in handlers, obf.from = "mouse"
  PROVE  /\ obf.move = Len(reports) + 1 /\ obf.part = cycle
         /\ cycle = 0 => obf.bit3
<1>1. IsByte(obf, BytesRead)
  BY DEF Known, PacketsInLine
<1>2. obf \in MouseBytes
  BY <1>1 DEF IsByte
<1>3. PICK m \in Int, part \in Int : m = obf.move /\ part = obf.part /\ part \in 0 .. 2
  BY <1>2, BoundsAssumption DEF MouseBytes
<1>4. BytesRead \in Int /\ BytesRead = 3 * Len(reports) + cycle
      /\ Len(reports) \in Int /\ cycle \in 0 .. 2
  BY Counters DEF BytesRead
<1>5. 3 * (m - 1) + part = BytesRead /\ (part = 0 => obf.bit3)
  <2>1. PICK n \in Int : n = BytesRead
    BY <1>4
  <2> QED
    BY <1>1, <1>2, <1>3, <2>1, ByteNumber
<1>6. m = Len(reports) + 1 /\ part = cycle
  <2>1. \A r \in Int, c \in 0 .. 2 : 3 * (m - 1) + part = 3 * r + c => m = r + 1 /\ part = c
    BY <1>3
  <2> QED
    BY <1>4, <1>5, <2>1
<1> QED
  BY <1>3, <1>5, <1>6

LEMMA KnownMouseCallback ==
  ASSUME InductiveType, InductiveType', Known, MouseCallbackHandler PROVE Known'
<1>1. /\ 12 \in irr /\ 12 \in handlers /\ obf' = Empty /\ irr' = irr \ {12}
      /\ bytes' = [bytes EXCEPT ![cycle] = obf]
      /\ reports' = IF cycle = 2 THEN Append(reports, <<bytes[0], bytes[1], obf>>) ELSE reports
      /\ UNCHANGED <<config, response, kbd, aux, reporting>>
      /\ UNCHANGED <<boot, status, handlers, callback, stuck, handled, gaveUp>>
      /\ UNCHANGED <<present, pressed, moves, early>>
  BY DEF MouseCallbackHandler, Acknowledged, ReadInHandler, inputVars
<1>2. /\ boot \in {"disable_keyboard", "register_mouse", "init_shell", "idle"}
      /\ irr = {12} /\ obf.from = "mouse"
  BY <1>1, HandlerCalled
<1>3. irr' = {}
  BY <1>1, <1>2
<1>4. ConfigKnown' /\ AnswersKnown' /\ BufferAnnounced'
  BY <1>1, <1>2, <1>3 DEF Known, ConfigKnown, AnswersKnown, BufferAnnounced
<1>5. KeysInLine'
  BY <1>1, <1>2, Distinct, KeysStay DEF Known
<1>6. /\ obf.move = Len(reports) + 1 /\ obf.part = cycle /\ (cycle = 0 => obf.bit3)
  BY <1>1, <1>2, ByteExpected
<1>7. cycle' = IF cycle = 2 THEN 0 ELSE cycle + 1
  <2>1. cycle' = AfterByte(cycle)
    BY <1>6, Zenon DEF MouseCallbackHandler
  <2> QED
    BY <2>1 DEF AfterByte
<1>8. /\ cycle \in 0 .. 2 /\ bytes \in [0 .. 2 -> AllBytes] /\ obf \in AllBytes
      /\ reports \in Seq(AllBytes \X AllBytes \X AllBytes) /\ Len(reports) \in Nat
      /\ DOMAIN reports = 1 .. Len(reports)
  BY LenProperties DEF InductiveType, HandlerType, ControllerType
<1>9. \A i \in 0 .. cycle - 1 : bytes[i].move = Len(reports) + 1 /\ bytes[i].part = i
  BY DEF Known, PacketsInLine
<1>10. \A i \in 1 .. Len(reports) : \A part \in 1 .. 3 :
         reports[i][part].move = i /\ reports[i][part].part = part - 1
  BY <1>8 DEF Known, PacketsInLine
<1>11. ASSUME cycle = 2
       PROVE  /\ BytesRead' = BytesRead + 1
              /\ \A i \in DOMAIN reports' : \A part \in 1 .. 3 :
                   reports'[i][part].move = i /\ reports'[i][part].part = part - 1
              /\ 0 .. cycle' - 1 = {}
  <2> DEFINE packet == <<bytes[0], bytes[1], obf>>
  <2>1. packet \in AllBytes \X AllBytes \X AllBytes /\ reports' = Append(reports, packet) /\ cycle' = 0
    BY <1>1, <1>7, <1>8, <1>11
  <2>2. \A part \in 1 .. 3 : packet[part].move = Len(reports) + 1 /\ packet[part].part = part - 1
    <3>1. /\ bytes[0].move = Len(reports) + 1 /\ bytes[0].part = 0
          /\ bytes[1].move = Len(reports) + 1 /\ bytes[1].part = 1
      BY <1>9, <1>11
    <3>2. packet[1] = bytes[0] /\ packet[2] = bytes[1] /\ packet[3] = obf
      OBVIOUS
    <3>3. ASSUME NEW part \in 1 .. 3
          PROVE  packet[part].move = Len(reports) + 1 /\ packet[part].part = part - 1
      <4> HIDE DEF packet
      <4>1. CASE part = 1
        BY <3>1, <3>2, <4>1
      <4>2. CASE part = 2
        BY <3>1, <3>2, <4>2
      <4>3. CASE part = 3
        BY <1>6, <1>11, <3>2, <4>3
      <4> QED
        BY <4>1, <4>2, <4>3
    <3> QED
      BY <3>3
  <2> HIDE DEF packet
  <2>3. /\ Len(reports') = Len(reports) + 1 /\ DOMAIN reports' = 1 .. Len(reports) + 1
        /\ \A i \in 1 .. Len(reports) : reports'[i] = reports[i]
        /\ reports'[Len(reports) + 1] = packet
    BY <1>8, <2>1, AppendProperties, LenProperties
  <2>4. \A i \in DOMAIN reports' : \A part \in 1 .. 3 :
          reports'[i][part].move = i /\ reports'[i][part].part = part - 1
    <3>1. \A i \in 1 .. Len(reports) + 1 : i \in 1 .. Len(reports) \/ i = Len(reports) + 1
      BY <1>8
    <3> QED
      BY <1>10, <2>2, <2>3, <3>1
  <2>5. BytesRead' = BytesRead + 1
    BY <1>8, <1>11, <2>1, <2>3 DEF BytesRead
  <2>6. 0 .. cycle' - 1 = {}
    BY <2>1
  <2> QED
    BY <2>4, <2>5, <2>6
<1>12. ASSUME cycle # 2
       PROVE  /\ BytesRead' = BytesRead + 1 /\ reports' = reports
              /\ \A i \in 0 .. cycle' - 1 :
                   bytes'[i].move = Len(reports') + 1 /\ bytes'[i].part = i
  <2>1. reports' = reports /\ cycle' = cycle + 1 /\ BytesRead' = BytesRead + 1
    BY <1>1, <1>7, <1>8, <1>12 DEF BytesRead
  <2>2. ASSUME NEW i \in 0 .. cycle PROVE bytes'[i].move = Len(reports) + 1 /\ bytes'[i].part = i
    <3>1. CASE i = cycle
      BY <1>1, <1>6, <1>8, <3>1
    <3>2. CASE i # cycle
      <4>1. bytes'[i] = bytes[i] /\ i \in 0 .. cycle - 1
        BY <1>1, <1>8, <3>2
      <4> QED
        BY <1>9, <4>1
    <3> QED
      BY <3>1, <3>2
  <2>3. cycle' - 1 = cycle
    BY <1>8, <2>1
  <2> QED
    BY <2>1, <2>2, <2>3
<1>13. BytesRead' = BytesRead + 1 /\ From("mouse") = 1 /\ From("mouse")' = 0
  BY <1>1, <1>2, <1>11, <1>12, Distinct DEF From
<1>14. ASSUME NEW i \in DOMAIN aux PROVE IsByte(aux[i], BytesRead' + From("mouse")' + i - 1)
  <2>1. IsByte(aux[i], BytesRead + From("mouse") + i - 1)
    BY <1>1 DEF Known, PacketsInLine
  <2>2. BytesRead + From("mouse") + i - 1 = BytesRead' + From("mouse")' + i - 1
    BY <1>13, Counters
  <2> QED
    BY <2>1, <2>2
<1>15. 3 * moves = BytesRead' + From("mouse")' + Len(aux)
  <2>1. 3 * moves = BytesRead + From("mouse") + Len(aux)
    BY <1>1 DEF Known, PacketsInLine
  <2> QED
    BY <1>13, <2>1, Counters
<1>16. /\ \A i \in DOMAIN reports' : \A part \in 1 .. 3 :
            reports'[i][part].move = i /\ reports'[i][part].part = part - 1
       /\ \A i \in 0 .. cycle' - 1 : bytes'[i].move = Len(reports') + 1 /\ bytes'[i].part = i
  BY <1>8, <1>10, <1>11, <1>12
<1>17. PacketsInLine'
  <2>1. obf'.from # "mouse" /\ 12 \in handlers' /\ aux' = aux /\ moves' = moves
    BY <1>1, Distinct
  <2> QED
    BY <1>14, <1>15, <1>16, <2>1 DEF PacketsInLine, IsByte
<1> QED
  BY <1>4, <1>5, <1>17 DEF Known

LEMMA KnownInterrupt ==
  ASSUME InductiveType, InductiveType', Known, Interrupt PROVE Known'
BY KnownUnhandled, KnownKeyboardCallback, KnownMouseCallback DEF Interrupt

-----------------------------------------------------------------------------
\* The steps of start_kernel and init_mouse.
LEMMA BootContext ==
  ASSUME InductiveType, Known, Boot
  PROVE  /\ NextStep(boot) /\ Quietly /\ irr = {} /\ kbd' = kbd
         /\ 1 \in handlers => 1 \in handlers'
         /\ 12 \in handlers <=> boot \in {"init_shell", "idle"}
         /\ 12 \in handlers' <=> boot' \in {"init_shell", "idle"}
         /\ UNCHANGED <<stuck, cycle, bytes, handled, reports>>
         /\ UNCHANGED <<present, pressed, moves, early>>
<1>1. NextStep(boot) /\ Quietly
  BY BootQuietly DEF Boot
<1>2. irr = {} /\ kbd' = kbd
  BY DEF Boot, InitKeyboard, DisableKeyboard, EnableMouse, AskConfig, ReadConfig, WriteConfig,
         SetDefaults, ReadAck, EnableReporting, EnableKeyboard, RegisterMouse, InitShell,
         At, Tell, MouseWrite, Device
<1>3. 1 \in handlers => 1 \in handlers'
  <2>1. boot # "init_keyboard" => boot' # "init_keyboard"
    BY <1>1, NextSteps
  <2> QED
    BY <2>1, BootHandlers DEF InductiveType, BootType
<1> QED
  BY <1>1, <1>2, <1>3, BootHandlers DEF Quietly, inputVars, InductiveType, BootType

\* No step of init_mouse reads or sends a key or a byte of a packet.
LEMMA BootKeepsInput ==
  ASSUME InductiveType, Known, Boot,
         obf' = obf \/ (obf.from # "keyboard" /\ obf' = Empty
                        /\ boot \in {"read_config", "read_ack1", "read_ack2"}),
         boot = "init_shell" => aux' = aux
  PROVE  KeysInLine' /\ (boot # "register_mouse" => PacketsInLine')
<1>1. KeysInLine'
  BY BootContext, KeysStay, Distinct DEF Known
<1>2. ASSUME boot # "register_mouse" PROVE PacketsInLine'
  <2>1. 12 \in handlers' <=> 12 \in handlers
    BY <1>2, BootContext, NextSteps
  <2>2. 12 \in handlers => boot = "init_shell"
    BY BootContext, NextSteps
  <2> QED
    BY <2>1, <2>2, BootContext, PacketsStay DEF Known
<1> QED
  BY <1>1, <1>2

\* Telling the controller its configuration disturbs no empty buffer.
LEMMA BufferEmpty ==
  ASSUME NEW b, b = Empty, NEW c, Buffer(b, c), irr = {}
  PROVE  obf' = Empty /\ config' = c /\ irr' = {}
BY LinesOf, Distinct DEF Buffer

\* Where interrupts are dealt with, init_mouse finds an empty buffer.
LEMMA BufferFree ==
  ASSUME InductiveType, Known, Boot,
         boot \notin {"read_config", "read_ack1", "read_ack2"}
  PROVE  obf = Empty /\ aux = (IF 12 \in handlers THEN aux ELSE <<>>)
<1>1. boot \in Steps /\ boot # "idle"
  BY BootContext, NextSteps DEF InductiveType, BootType
<1> QED
  BY <1>1, BootContext DEF Known, AnswersKnown, BufferAnnounced, Silent, Steps

\* Three steps do not speak to the controller.
LEMMA KnownRegister ==
  ASSUME InductiveType, InductiveType', Known, Boot, InitKeyboard \/ RegisterMouse \/ InitShell
  PROVE  Known'
<1>1. /\ UNCHANGED <<status, gaveUp>> /\ boot \in {"init_keyboard", "register_mouse", "init_shell"}
      /\ UNCHANGED <<obf, config, response, kbd, aux, reporting, irr>>
  BY DEF InitKeyboard, RegisterMouse, InitShell, Device, At
<1>2. obf = Empty /\ irr = {} /\ (12 \notin handlers => aux = <<>>)
  BY <1>1, BufferFree, BootContext
<1>3. \/ boot = "init_keyboard" /\ boot' = "disable_keyboard"
      \/ boot = "register_mouse" /\ boot' = "init_shell"
      \/ boot = "init_shell" /\ boot' = "idle"
  BY <1>1, BootContext, NextSteps
<1>4. 12 \notin handlers' => 12 \notin handlers
  BY <1>3, BootContext
<1>5. ConfigKnown' /\ AnswersKnown' /\ BufferAnnounced'
  BY <1>1, <1>2, <1>3, <1>4 DEF Known, ConfigKnown, AnswersKnown, BufferAnnounced
<1>6. KeysInLine' /\ (boot # "register_mouse" => PacketsInLine')
  BY <1>1, BootKeepsInput
<1>7. ASSUME boot = "register_mouse" PROVE PacketsInLine'
  <2>1. 12 \notin handlers /\ 12 \in handlers'
    BY <1>3, <1>7, BootContext
  <2>2. moves = 0 /\ reports = <<>> /\ cycle = 0 /\ aux = <<>>
    BY <1>2, <2>1 DEF Known, PacketsInLine
  <2>3. BytesRead' = 0 /\ From("mouse")' = 0 /\ Len(aux') = 0 /\ moves' = 0 /\ obf'.from # "mouse"
    BY <1>1, <1>2, <2>2, BootContext, Distinct DEF BytesRead, From
  <2>4. reports' = <<>> /\ cycle' = 0 /\ aux' = <<>>
    BY <1>1, <2>2, BootContext
  <2> QED
    BY <2>1, <2>3, <2>4 DEF PacketsInLine
<1> QED
  BY <1>5, <1>6, <1>7 DEF Known

\* Four steps tell the controller its configuration.
LEMMA KnownTell ==
  ASSUME InductiveType, InductiveType', Known, Boot,
         DisableKeyboard \/ EnableMouse \/ EnableKeyboard \/ WriteConfig
  PROVE  Known'
<1>1. boot \in {"disable_keyboard", "enable_mouse", "enable_keyboard", "write_config"}
      /\ UNCHANGED <<response, kbd, aux, reporting, gaveUp>>
  BY DEF DisableKeyboard, EnableMouse, EnableKeyboard, WriteConfig, Tell, At
<1>2. obf = Empty /\ irr = {} /\ aux = <<>> /\ 12 \notin handlers
  BY <1>1, BufferFree, BootContext
<1>3. \E c : Buffer(obf, c)
  BY DEF DisableKeyboard, EnableMouse, EnableKeyboard, WriteConfig, Tell
<1>4. obf' = Empty /\ irr' = {} /\ aux' = <<>>
  BY <1>1, <1>2, <1>3, BufferEmpty
<1>5. KeysInLine' /\ PacketsInLine'
  BY <1>1, <1>2, <1>4, BootKeepsInput
<1>6. config \in Configs /\ status \in Configs
  BY DEF InductiveType, BootType, ControllerType
<1>7. ConfigKnown' /\ boot' \in {"enable_mouse", "ask_config", "register_mouse", "set_defaults"}
  <2>1. CASE DisableKeyboard
    <3>1. boot = "disable_keyboard" /\ config' = KeyboardOff(config)
      BY <1>2, <2>1, BufferEmpty DEF DisableKeyboard, At, Tell
    <3>2. boot' = "enable_mouse"
      BY <3>1, BootContext, NextSteps
    <3> QED
      BY <1>6, <3>1, <3>2 DEF Known, ConfigKnown, KeyboardOff, Configs
  <2>2. CASE EnableMouse
    <3>1. boot = "enable_mouse" /\ config' = [config EXCEPT !.auxOff = FALSE]
      BY <1>2, <2>2, BufferEmpty DEF EnableMouse, At, Tell
    <3>2. boot' = "ask_config"
      BY <3>1, BootContext, NextSteps
    <3> QED
      BY <1>6, <3>1, <3>2 DEF Known, ConfigKnown, Configs
  <2>3. CASE EnableKeyboard
    <3>1. boot = "enable_keyboard" /\ config' = [config EXCEPT !.kbdOff = FALSE]
      BY <1>2, <2>3, BufferEmpty DEF EnableKeyboard, At, Tell
    <3>2. boot' = "register_mouse"
      BY <3>1, BootContext, NextSteps
    <3> QED
      BY <1>6, <3>1, <3>2 DEF Known, ConfigKnown, Configs
  <2>4. CASE WriteConfig
    <3>1. boot = "write_config" /\ config' = status
      BY <1>2, <2>4, BufferEmpty DEF WriteConfig, At
    <3>2. boot' = "set_defaults"
      BY <3>1, BootContext, NextSteps
    <3>3. status = [config EXCEPT !.auxInt = TRUE]
      BY <3>1 DEF Known, ConfigKnown
    <3>4. status.kbdInt = config.kbdInt /\ status.auxInt /\ status.kbdOff = config.kbdOff
          /\ status.auxOff = config.auxOff
      BY <1>6, <3>3 DEF Configs
    <3> QED
      BY <3>1, <3>2, <3>4 DEF Known, ConfigKnown
  <2> QED
    BY <2>1, <2>2, <2>3, <2>4
<1>8. response' = Empty
  BY <1>1 DEF Known, AnswersKnown
<1>9. AnswersKnown' /\ BufferAnnounced'
  BY <1>2, <1>4, <1>7, <1>8 DEF AnswersKnown, BufferAnnounced, Silent
<1> QED
  BY <1>5, <1>7, <1>9 DEF Known

\* Asking for the configuration puts the answer on its way.
LEMMA KnownAskConfig ==
  ASSUME InductiveType, InductiveType', Known, Boot, AskConfig PROVE Known'
<1>1. boot = "ask_config" /\ response' = ConfigByte(config)
      /\ UNCHANGED <<status, obf, config, kbd, aux, reporting, irr, gaveUp>>
  BY DEF AskConfig, At
<1>2. boot' = "read_config" /\ 12 \notin handlers
  BY <1>1, BootContext, NextSteps
<1>3. obf = Empty /\ aux = <<>> /\ irr = {}
  BY <1>1, <1>2, BufferFree, BootContext
<1>4. ConfigKnown' /\ AnswersKnown' /\ BufferAnnounced'
  BY <1>1, <1>2, <1>3, Distinct
     DEF Known, ConfigKnown, AnswersKnown, BufferAnnounced, Pending
<1>5. KeysInLine' /\ PacketsInLine'
  BY <1>1, BootKeepsInput
<1> QED
  BY <1>4, <1>5 DEF Known

\* An answer that is waited for in vain is one that init_mouse gives up.
LEMMA ReadPortAnswer ==
  ASSUME NEW answer, answer # Empty, Pending(answer, obf, response # Empty \/ aux # <<>>),
         ReadPort, ~gaveUp', irr = {}
  PROVE  /\ obf = answer /\ response = Empty /\ aux = <<>>
         /\ obf' = Empty /\ config' = config /\ irr' = {}
<1>1. obf # Empty
  <2>1. obf = Empty => gaveUp'
    BY DEF ReadPort, Pending
  <2> QED
    BY <2>1
<1>2. Buffer(Empty, config) /\ obf = answer /\ response = Empty /\ aux = <<>>
  BY <1>1 DEF ReadPort, Pending
<1> QED
  BY <1>2, BufferEmpty

\* What init_mouse reads first is the configuration it asked for.
LEMMA KnownReadConfig ==
  ASSUME InductiveType, InductiveType', Known, Boot, ReadConfig, ~gaveUp' PROVE Known'
<1>1. boot = "read_config" /\ ReadPort /\ UNCHANGED <<response, kbd, aux, reporting>>
  BY DEF ReadConfig, At
<1>2. boot' = "write_config"
  BY <1>1, BootContext, NextSteps
<1>3. irr = {} /\ aux = <<>> /\ Pending(ConfigByte(config), obf, response # Empty)
  BY <1>1, BootContext DEF Known, AnswersKnown
<1>4. Pending(ConfigByte(config), obf, response # Empty \/ aux # <<>>)
  BY <1>3 DEF Pending
<1>5. /\ obf = ConfigByte(config) /\ response = Empty
      /\ obf' = Empty /\ config' = config /\ irr' = {}
  BY <1>1, <1>3, <1>4, ReadPortAnswer, Distinct
<1>6. status' = Mended(config)
  BY <1>5, Distinct DEF ReadConfig
<1>7. config \in Configs /\ ~config.auxOff
  BY <1>1 DEF InductiveType, ControllerType, Known, ConfigKnown
<1>8. Mended(config) = [config EXCEPT !.auxInt = TRUE]
  BY <1>7 DEF Mended, Configs
<1>9. ConfigKnown' /\ AnswersKnown' /\ BufferAnnounced'
  BY <1>1, <1>2, <1>3, <1>5, <1>6, <1>8
     DEF Known, ConfigKnown, AnswersKnown, BufferAnnounced, Silent
<1>10. KeysInLine' /\ PacketsInLine'
  BY <1>1, <1>5, BootKeepsInput, Distinct
<1> QED
  BY <1>9, <1>10 DEF Known

\* The mouse acknowledges what init_mouse writes to it.
LEMMA KnownMouseWrite ==
  ASSUME InductiveType, InductiveType', Known, Boot, SetDefaults \/ EnableReporting PROVE Known'
<1>1. /\ boot \in {"set_defaults", "enable_reporting"}
      /\ UNCHANGED <<status, obf, config, response, kbd, irr, gaveUp>>
      /\ aux' = IF present THEN Append(aux, Ack) ELSE aux
  BY DEF SetDefaults, EnableReporting, MouseWrite, At
<1>2. boot' \in {"read_ack1", "read_ack2"} /\ 12 \notin handlers
  BY <1>1, BootContext, NextSteps
<1>3. obf = Empty /\ aux = <<>> /\ irr = {} /\ response = Empty
  BY <1>1, <1>2, BufferFree, BootContext DEF Known, AnswersKnown
<1>4. aux' = (IF present THEN <<Ack>> ELSE <<>>) /\ present' = present
  BY <1>1, <1>3, BootContext
<1>5. ConfigKnown' /\ AnswersKnown' /\ BufferAnnounced'
  BY <1>1, <1>2, <1>3, <1>4, Distinct
     DEF Known, ConfigKnown, AnswersKnown, BufferAnnounced, Pending, Silent
<1>6. KeysInLine' /\ PacketsInLine'
  BY <1>1, BootKeepsInput
<1> QED
  BY <1>5, <1>6 DEF Known

\* init_mouse reads the acknowledgement, or nothing when there is no mouse.
LEMMA KnownReadAck ==
  ASSUME InductiveType, InductiveType', Known, Boot, ReadAck, ~gaveUp' PROVE Known'
<1>1. /\ boot \in {"read_ack1", "read_ack2"} /\ ReadPort
      /\ UNCHANGED <<status, response, kbd, aux, reporting>>
  BY DEF ReadAck, At
<1>2. boot' \in {"enable_reporting", "enable_keyboard"}
  BY <1>1, BootContext, NextSteps
<1>3. irr = {} /\ response = Empty
  BY <1>1, BootContext DEF Known, AnswersKnown
<1>4. /\ obf' = Empty /\ aux' = <<>> /\ irr' = {} /\ config' = config
      /\ obf.from # "keyboard"
  <2>1. CASE present
    <3>1. Pending(Ack, obf, response # Empty \/ aux # <<>>)
      BY <1>1, <1>3, <2>1 DEF Known, AnswersKnown, Pending
    <3> QED
      BY <1>1, <1>3, <3>1, ReadPortAnswer, Distinct
  <2>2. CASE ~present
    <3>1. obf = Empty /\ aux = <<>>
      BY <1>1, <2>2 DEF Known, AnswersKnown, Silent
    <3> QED
      BY <1>1, <1>3, <3>1, Distinct DEF ReadPort
  <2> QED
    BY <2>1, <2>2
<1>5. ConfigKnown' /\ AnswersKnown' /\ BufferAnnounced'
  BY <1>1, <1>2, <1>3, <1>4
     DEF Known, ConfigKnown, AnswersKnown, BufferAnnounced, Silent
<1>6. KeysInLine' /\ PacketsInLine'
  BY <1>1, <1>4, BootKeepsInput
<1> QED
  BY <1>5, <1>6 DEF Known

LEMMA KnownBoot ==
  ASSUME InductiveType, InductiveType', Known, Boot, Undisturbed' PROVE Known'
<1>1. ~gaveUp'
  BY DEF Undisturbed
<1> QED
  BY <1>1, KnownRegister, KnownTell, KnownAskConfig, KnownReadConfig, KnownMouseWrite, KnownReadAck
     DEF Boot

LEMMA KnownNext ==
  ASSUME InductiveType, InductiveType', InputKnown, [Next]_vars PROVE InputKnown'
<1>1. SUFFICES ASSUME Undisturbed' PROVE Known'
  BY DEF InputKnown, Known
<1>2. CASE UNCHANGED vars
  <2>1. Known
    BY <1>1, <1>2 DEF vars, Undisturbed, InputKnown, Known
  <2>2. ConfigKnown' /\ AnswersKnown' /\ BufferAnnounced'
    BY <1>2, <2>1 DEF vars, Known, ConfigKnown, AnswersKnown, BufferAnnounced, Silent, Pending
  <2>3. KeysInLine' /\ PacketsInLine'
    BY <1>2, <2>1, KeysStay, PacketsStay DEF vars, Known
  <2> QED
    BY <2>2, <2>3 DEF Known
<1>3. CASE Next
  <2>1. Known
    BY <1>1, <1>3, UndisturbedBefore DEF InputKnown, Known
  <2> QED
    BY <1>1, <1>3, <2>1, KnownBoot, KnownInterrupt, KnownFill, KnownPress, KnownMove DEF Next
<1> QED
  BY <1>2, <1>3

\* As long as nobody disturbs the boot, the byte in the one buffer that
\* init_mouse and both interrupt handlers read is known: the answer that was
\* asked for, or one whose interrupt is requested and taken before the next
\* instruction; and keys and packets stay in line on their way.
THEOREM InputKnownHolds == Spec => []InputKnown
<1>1. Init => InputKnown
  BY KnownInit DEF InputKnown, Known
<1>2. InductiveType /\ InductiveType' /\ InputKnown /\ [Next]_vars => InputKnown'
  BY KnownNext
<1> QED
  BY <1>1, <1>2, TypeInvariant, PTL DEF Spec

\* The configuration byte that init_mouse reads, mends and writes back is the
\* controller's: when the mouse's handler is registered both devices and both
\* interrupts are enabled, whatever the boot loader left.
THEOREM ControllerReadyHolds == Spec => []ControllerReady
<1>1. InductiveType /\ InputKnown => ControllerReady
  <2> SUFFICES ASSUME InductiveType, InputKnown, Undisturbed,
                      boot \in {"register_mouse", "init_shell", "idle"}
               PROVE  config = [kbdInt |-> TRUE, auxInt |-> TRUE, kbdOff |-> FALSE, auxOff |-> FALSE]
    BY DEF ControllerReady
  <2>1. config \in Configs
    BY DEF InductiveType, ControllerType
  <2>2. config.kbdInt /\ config.auxInt /\ ~config.kbdOff /\ ~config.auxOff
    BY DEF InputKnown, ConfigKnown
  <2> QED
    BY <2>1, <2>2 DEF Configs
<1> QED
  BY <1>1, InputKnownHolds, TypeInvariant, PTL

\* Every key that keyboard_callback reads is the next one pressed, and every
\* packet that mouse_callback_handler completes is the next movement, its three
\* bytes in their places.
THEOREM InputInOrderHolds == Spec => []InputInOrder
<1>1. InputKnown => InputInOrder
  BY DEF InputKnown, KeysInLine, PacketsInLine, InputInOrder
<1> QED
  BY <1>1, InputKnownHolds, PTL

=============================================================================

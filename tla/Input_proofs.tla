----------------------------- MODULE Input_proofs -----------------------------
(***************************************************************************)
(* What MCDrivers checks of the start of the kernel for two keys and of    *)
(* the keyboard for four, proved for any: the kernel finds memory laid out *)
(* for it, after boot input reaches its handlers, the line is the one that *)
(* was typed, the command done is the one it names, and numbers in it are  *)
(* what they say.                                                          *)
(***************************************************************************)
EXTENDS Integers, Boot, Typing, NatSets, SequenceTheorems, TLAPS

-----------------------------------------------------------------------------
\* The start of the kernel.

\* The order kernel_main works in, one point at a time.
After(here) ==
    CASE here = "pic" -> "idt" [] here = "idt" -> "kbd" [] here = "kbd" -> "mouse"
      [] here = "mouse" -> "aux" [] here = "aux" -> "ask" [] here = "ask" -> "read"
      [] here = "read" -> "set" [] here = "set" -> "defaults" [] here = "defaults" -> "ack1"
      [] here = "ack1" -> "enable" [] here = "enable" -> "ack2" [] here = "ack2" -> "unmask"
      [] here = "unmask" -> "pit" [] here = "pit" -> "sched" [] here = "sched" -> "callback"
      [] here = "callback" -> "sti" [] here = "sti" -> "run" [] OTHER -> "run"
StartPoints == {"pic", "idt", "kbd", "mouse", "aux", "ask", "read", "set", "defaults", "ack1",
               "enable", "ack2", "unmask", "pit", "sched", "callback", "sti", "run"}

LEMMA BootOrderPoints ==
    /\ Len(BootOrder) = 18
    /\ \A i \in 1..17 : BootOrder[i + 1] = After(BootOrder[i])
    /\ \A p : (\E i \in 1..18 : p = BootOrder[i]) <=> p \in StartPoints
<1> DEFINE S == BootOrder
<1>1. Len(S) = 18
  BY DEF BootOrder
<1>2. /\ S[1] = "pic" /\ S[2] = "idt" /\ S[3] = "kbd" /\ S[4] = "mouse" /\ S[5] = "aux"
      /\ S[6] = "ask" /\ S[7] = "read" /\ S[8] = "set" /\ S[9] = "defaults" /\ S[10] = "ack1"
      /\ S[11] = "enable" /\ S[12] = "ack2" /\ S[13] = "unmask" /\ S[14] = "pit"
      /\ S[15] = "sched" /\ S[16] = "callback" /\ S[17] = "sti" /\ S[18] = "run"
  BY DEF BootOrder
<1> HIDE DEF S
<1>3. ASSUME NEW i \in 1..17 PROVE S[i + 1] = After(S[i])
  <2>1. i \in {1, 2, 3, 4, 5, 6, 7, 8, 9, 10, 11, 12, 13, 14, 15, 16, 17}
    OBVIOUS
  <2> QED
    BY <1>2, <2>1 DEF After
<1>4. ASSUME NEW p PROVE (\E i \in 1..18 : p = S[i]) <=> p \in StartPoints
  <2>1. \A i \in 1..18 : i \in {1, 2, 3, 4, 5, 6, 7, 8, 9, 10, 11, 12, 13, 14, 15, 16, 17, 18}
    OBVIOUS
  <2>2. ASSUME NEW i \in 1..18 PROVE S[i] \in StartPoints
    BY <1>2, <2>1 DEF StartPoints
  <2>3. p \in StartPoints => \E i \in 1..18 : p = S[i]
    BY <1>2 DEF StartPoints
  <2> QED
    BY <2>2, <2>3
<1> QED
  BY <1>1, <1>3, <1>4 DEF S

LEMMA StepPoint ==
    ASSUME NEW here, Step(here)
    PROVE  boot_pc = here /\ boot_pc' = After(here) /\ here \in StartPoints /\ boot_pc' \in StartPoints
<1>1. PICK i \in 1..17 : here = BootOrder[i] /\ boot_pc = here /\ boot_pc' = BootOrder[i + 1]
  BY BootOrderPoints DEF Step
<1>2. i \in 1..18 /\ i + 1 \in 1..18
  OBVIOUS
<1> QED
  BY <1>1, <1>2, BootOrderPoints

\* Where kernel_main is with the controller's configuration and with the mouse.
BeforeSet == {"pic", "idt", "kbd", "mouse", "aux", "ask", "read", "set"}
Acking == {"ack1", "ack2"}
Late == {"ack2", "unmask", "pit", "sched", "callback", "sti", "run"}

\* The mouse owes at most the answers to the commands it has been sent.
OwedOK ==
    /\ boot_pc \in BeforeSet \cup {"defaults"} => owed = 0
    /\ boot_pc \in {"ack1", "enable"} => owed <= 1
BootTypes ==
    /\ BootTypeOK
    /\ keys \in Seq(Byte) /\ aux \in Seq(Byte)
    /\ OwedOK

\* What is set up before the interrupts can come.
OrderInv ==
    /\ interrupts => boot_pc = "run"
    /\ boot_pc # "pic" => masked \subseteq {1, 12}
    /\ boot_pc \notin {"pic", "idt", "kbd"} => 1 \in handlers /\ 1 \notin masked
    /\ boot_pc \notin {"pic", "idt", "kbd", "mouse"} => 12 \in handlers
    /\ boot_pc \in {"pit", "sched", "callback", "sti", "run"} => 12 \notin masked
    /\ boot_pc \in {"sched", "callback", "sti", "run"} => 0 \in handlers
    /\ boot_pc \in {"callback", "sti", "run"} => ring
    /\ boot_pc \in {"sti", "run"} => callback

\* What the controller does to the keyboard, and which bytes are whose.
KbdOn(c) == c.kbd_irq /\ ~c.kbd_off
ConfigByte(b) == b # NoByte /\ b.from = "config" => KbdOn(b.bits)
Sources ==
    /\ \A i \in 1..Len(keys) : keys[i].from = "key"
    /\ \A i \in 1..Len(aux) : aux[i].from \in {"ack", "report"}
    /\ answer # NoByte => answer.from = "config"
ConfigInv ==
    /\ boot_pc \in BeforeSet => KbdOn(config)
    /\ boot_pc \in BeforeSet => ConfigByte(out) /\ ConfigByte(answer)
    /\ boot_pc = "set" => mistaken \/ KbdOn(status)
    /\ boot_pc \notin BeforeSet =>
         config.mouse_irq /\ ~config.mouse_off /\ (mistaken \/ KbdOn(config))

\* Once the first answer has been read, a byte in the buffer has its request.
StuckInv ==
    boot_pc \notin BeforeSet \cup {"defaults", "ack1"} /\ out # NoByte /\ Raises(out)
        => Irq(out) \in irr

\* As long as every polling read got its byte and no more: requests are for the byte
\* in the buffer, and of answers there is the one awaited or none.
Owned == \A n \in {1, 12} : n \in irr => out # NoByte /\ Irq(out) = n
AllReports(q) == \A i \in 1..Len(q) : q[i].from = "report"
NotFromMouse == out # NoByte => Irq(out) = 1
Settled == owed = 0 /\ AllReports(aux) /\ (out # NoByte => out.from # "ack")
AckComing ==
    \/ owed = 1 /\ aux = <<>> /\ NotFromMouse
    \/ owed = 0 /\ aux # <<>> /\ Head(aux).from = "ack" /\ AllReports(Tail(aux)) /\ NotFromMouse
    \/ owed = 0 /\ AllReports(aux) /\ out # NoByte /\ out.from = "ack"
NoReport ==
    /\ \A i \in 1..Len(aux) : aux[i].from # "report"
    /\ out # NoByte => out.from # "report"
AckInv ==
    /\ boot_pc \notin Acking => Settled
    /\ boot_pc \in Acking => AckComing
    /\ boot_pc \notin Late => NoReport
StartInStep == ~disturbed => Owned /\ AckInv /\ ~stray

BootInv == BootTypes /\ Sources /\ OrderInv /\ ConfigInv /\ StuckInv /\ StartInStep

LEMMA BytesTyped ==
    /\ Ack \in Byte /\ Moved \in Byte /\ \A c \in Config : Key(c) \in Byte
    /\ Ack.from = "ack" /\ Moved.from = "report" /\ \A c \in Config : Key(c).from = "key"
    /\ NoByte \notin Byte
<1>1. Ack \in Byte /\ Ack.from = "ack" /\ \A b \in Byte : b # NoByte
  BY DEF Ack, Byte, Config, NoByte
<1>2. Moved \in Byte /\ Moved.from = "report"
  BY <1>1 DEF Moved, Byte
<1>3. \A c \in Config : Key(c) \in Byte /\ Key(c).from = "key"
  BY DEF Key, Byte
<1> QED
  BY <1>1, <1>2, <1>3

LEMMA BootTyped ==
    ASSUME BootTypes
    PROVE  /\ boot_pc \in StartPoints /\ config \in Config /\ status \in Config
           /\ out \in Byte \cup {NoByte} /\ answer \in Byte \cup {NoByte} /\ latest \in Byte
           /\ Byte60 \in Byte /\ Byte60.bits \in Config /\ Irq(Byte60) \in {1, 12}
           /\ owed \in Nat /\ typed \in Nat /\ moved \in Nat /\ MaxKeys \in Nat /\ MaxReports \in Nat
           /\ irr \subseteq {0, 1, 12} /\ masked \subseteq {0, 1, 2, 12}
           /\ handlers \subseteq {0, 1, 12}
<1>1. boot_pc \in StartPoints
  <2>1. \E i \in 1..18 : boot_pc = BootOrder[i]
    BY BootOrderPoints DEF BootTypes, BootTypeOK
  <2> QED
    BY <2>1, BootOrderPoints
<1>2. Byte60 \in Byte
  BY DEF BootTypes, BootTypeOK, Byte60
<1>3. Byte60.bits \in Config /\ Irq(Byte60) \in {1, 12}
  BY <1>2 DEF Byte, Irq
<1> QED
  BY <1>1, <1>2, <1>3, BootBoundAssumption DEF BootTypes, BootTypeOK

\* The type part of the next state, put together.
LEMMA NextTypes ==
    ASSUME boot_pc' \in StartPoints, handlers' \subseteq {0, 1, 12}, masked' \subseteq {0, 1, 2, 12},
           irr' \subseteq {0, 1, 12}, config' \in Config, status' \in Config,
           out' \in Byte \cup {NoByte}, answer' \in Byte \cup {NoByte}, latest' \in Byte,
           keys' \in Seq(Byte), aux' \in Seq(Byte), owed' \in 0..2, typed' \in 0..MaxKeys,
           moved' \in 0..MaxReports,
           {interrupts', ring', callback', mistaken', disturbed', stray'} \subseteq BOOLEAN,
           OwedOK'
    PROVE  BootTypes'
<1>1. \E i \in 1..Len(BootOrder) : boot_pc' = BootOrder[i]
  BY BootOrderPoints
<1>2. \A q \in {keys', aux'} : \A i \in 1..Len(q) : q[i] \in Byte
  OBVIOUS
<1>3. BootTypeOK'
  BY <1>1, <1>2 DEF BootTypeOK
<1> QED
  BY <1>3 DEF BootTypes

LEMMA BootInitInv == BootInit => BootInv
<1> SUFFICES ASSUME BootInit PROVE BootInv
  OBVIOUS
<1>1. /\ boot_pc = "pic" /\ "pic" \in StartPoints /\ config \in Config /\ config.kbd_irq /\ ~config.kbd_off
      /\ keys = <<>> /\ aux = <<>> /\ keys \in Seq(Byte) /\ aux \in Seq(Byte)
      /\ Len(keys) = 0 /\ Len(aux) = 0 /\ out = NoByte /\ answer = NoByte /\ latest = Ack
      /\ status = config /\ owed = 0 /\ irr = {} /\ interrupts = FALSE /\ stray = FALSE
  BY DEF BootInit, StartPoints
<1>2. OwedOK
  BY <1>1 DEF OwedOK
<1>3. typed \in 0..MaxKeys /\ moved \in 0..MaxReports /\ owed \in 0..2
  BY BootBoundAssumption DEF BootInit
<1>4. BootTypes
  <2>1. \E i \in 1..Len(BootOrder) : boot_pc = BootOrder[i]
    BY <1>1, BootOrderPoints
  <2>2. \A q \in {keys, aux} : \A i \in 1..Len(q) : q[i] \in Byte
    BY <1>1
  <2> QED
    BY <1>1, <1>2, <1>3, <2>1, <2>2, BytesTyped DEF BootInit, BootTypes, BootTypeOK
<1>5. Sources /\ OrderInv /\ ConfigInv /\ StuckInv
  BY <1>1 DEF Sources, OrderInv, ConfigInv, StuckInv, KbdOn, ConfigByte, BeforeSet
<1>6. StartInStep
  BY <1>1 DEF StartInStep, Owned, AckInv, Settled, AllReports, NoReport, Acking
<1> QED
  BY <1>4, <1>5, <1>6 DEF BootInv

-----------------------------------------------------------------------------
\* Steps that leave the bytes and the controller alone.
LEMMA QuietStep ==
    ASSUME BootInv,
           UNCHANGED <<status, controller, bootHistory>>,
           irr' \subseteq irr \cup {0}, {1, 12} \cap irr \subseteq irr' \/ boot_pc' \in BeforeSet,
           boot_pc \in BeforeSet <=> boot_pc' \in BeforeSet, boot_pc' # "set" \/ boot_pc = "set",
           boot_pc \in Acking <=> boot_pc' \in Acking, boot_pc \in Late <=> boot_pc' \in Late,
           boot_pc' \in {"defaults", "ack1"} <=> boot_pc \in {"defaults", "ack1"}
    PROVE  Sources' /\ ConfigInv' /\ StuckInv' /\ StartInStep'
<1>1. Sources'
  BY DEF BootInv, Sources, controller
<1>2. ConfigInv'
  BY DEF BootInv, ConfigInv, controller, bootHistory, ConfigByte
<1>3. StuckInv'
  BY DEF BootInv, StuckInv, controller, Raises, Irq
<1>4. StartInStep'
  <2>1. Owned => Owned'
    BY DEF Owned, controller
  <2>2. AckInv => AckInv'
    BY DEF AckInv, Settled, AckComing, NoReport, AllReports, NotFromMouse, controller
  <2> QED
    BY <2>1, <2>2 DEF BootInv, StartInStep, bootHistory
<1> QED
  BY <1>1, <1>2, <1>3, <1>4

\* kernel_main's steps that set up the kernel's own tables and masks.
SetUp ==
    PicInit \/ IdtInit \/ SetHandler("kbd", 1) \/ SetHandler("mouse", 12) \/ SetHandler("pit", 0)
    \/ UnmaskMouse \/ SchedInit \/ SetCallback \/ Sti

LEMMA SetUpInv == ASSUME BootInv, SetUp PROVE BootInv'
<1>1. UNCHANGED <<status, controller, bootHistory>> /\ BootTypes
  BY DEF SetUp, PicInit, IdtInit, SetHandler, UnmaskMouse, SchedInit, SetCallback, Sti, BootInv
<1>2. PICK here \in {"pic", "idt", "kbd", "mouse", "unmask", "pit", "sched", "callback", "sti"} :
            Step(here) /\ (here # "pic" => irr' = irr) /\ (here = "pic" => irr' = {})
  BY DEF SetUp, PicInit, IdtInit, SetHandler, UnmaskMouse, SchedInit, SetCallback, Sti
<1>3. boot_pc = here /\ boot_pc' = After(here) /\ boot_pc' \in StartPoints
  BY <1>2, StepPoint
<1>4. /\ boot_pc \in BeforeSet <=> boot_pc' \in BeforeSet
      /\ boot_pc' # "set" /\ boot_pc \notin Acking /\ boot_pc' \notin Acking
      /\ boot_pc \in Late <=> boot_pc' \in Late
      /\ boot_pc' \notin {"defaults", "ack1"} /\ boot_pc \notin {"defaults", "ack1"}
      /\ here = "pic" => boot_pc' \in BeforeSet
  BY <1>2, <1>3 DEF After, BeforeSet, Acking, Late
<1>5. Sources' /\ ConfigInv' /\ StuckInv' /\ StartInStep'
  BY <1>1, <1>2, <1>4, QuietStep
<1>6. OrderInv' /\ handlers' \subseteq {0, 1, 12} /\ masked' \subseteq {0, 1, 2, 12}
      /\ {interrupts', ring', callback'} \subseteq BOOLEAN
  <2>1. OrderInv /\ masked \subseteq {0, 1, 2, 12} /\ handlers \subseteq {0, 1, 12}
        /\ {interrupts, ring, callback} \subseteq BOOLEAN
    BY <1>1, BootTyped DEF BootInv, BootTypes, BootTypeOK
  <2>2. CASE PicInit
    BY <2>1, <2>2, StepPoint DEF PicInit, OrderInv, After
  <2>3. CASE IdtInit
    BY <2>1, <2>3, StepPoint DEF IdtInit, OrderInv, After
  <2>4. CASE SetHandler("kbd", 1)
    BY <2>1, <2>4, StepPoint DEF SetHandler, OrderInv, After
  <2>5. CASE SetHandler("mouse", 12)
    BY <2>1, <2>5, StepPoint DEF SetHandler, OrderInv, After
  <2>6. CASE SetHandler("pit", 0)
    BY <2>1, <2>6, StepPoint DEF SetHandler, OrderInv, After
  <2>7. CASE UnmaskMouse
    BY <2>1, <2>7, StepPoint DEF UnmaskMouse, OrderInv, After
  <2>8. CASE SchedInit
    BY <2>1, <2>8, StepPoint DEF SchedInit, OrderInv, After
  <2>9. CASE SetCallback
    BY <2>1, <2>9, StepPoint DEF SetCallback, OrderInv, After
  <2>10. CASE Sti
    BY <2>1, <2>10, StepPoint DEF Sti, OrderInv, After
  <2> QED
    BY <2>2, <2>3, <2>4, <2>5, <2>6, <2>7, <2>8, <2>9, <2>10 DEF SetUp
<1>7. OwedOK'
  BY <1>1, <1>2, <1>3 DEF BootTypes, OwedOK, After, BeforeSet, controller
<1>8. BootTypes'
  <2>1. /\ UNCHANGED <<status, config, out, latest, answer, keys, aux, owed, typed, moved, mistaken,
                       disturbed, stray>>
        /\ irr' \subseteq {0, 1, 12}
    BY <1>1, <1>2, BootTyped DEF controller, bootHistory
  <2>2. /\ config \in Config /\ status \in Config /\ out \in Byte \cup {NoByte}
        /\ answer \in Byte \cup {NoByte} /\ latest \in Byte /\ keys \in Seq(Byte) /\ aux \in Seq(Byte)
        /\ owed \in 0..2 /\ typed \in 0..MaxKeys /\ moved \in 0..MaxReports
        /\ {mistaken, disturbed, stray} \subseteq BOOLEAN
    BY <1>1 DEF BootTypes, BootTypeOK
  <2> QED
    BY <1>3, <1>6, <1>7, <2>1, <2>2, NextTypes
<1> QED
  BY <1>5, <1>6, <1>8 DEF BootInv

-----------------------------------------------------------------------------
\* Bytes on the way.
LEMMA QueueFacts ==
    ASSUME NEW q \in Seq(Byte), NEW b \in Byte
    PROVE  /\ Append(q, b) \in Seq(Byte) /\ Len(Append(q, b)) = Len(q) + 1 /\ Len(q) \in Nat
           /\ Append(q, b)[Len(q) + 1] = b
           /\ \A i \in 1..Len(q) : Append(q, b)[i] = q[i]
           /\ Append(q, b) # <<>>
           /\ q = <<>> => Head(Append(q, b)) = b /\ Tail(Append(q, b)) = <<>>
           /\ q # <<>> => /\ Head(Append(q, b)) = Head(q)
                          /\ Tail(Append(q, b)) = Append(Tail(q), b)
OBVIOUS

LEMMA DequeueFacts ==
    ASSUME NEW q \in Seq(Byte), q # <<>>
    PROVE  /\ Head(q) \in Byte /\ Head(q) = q[1] /\ Tail(q) \in Seq(Byte)
           /\ Len(q) \in Nat /\ Len(q) >= 1 /\ Len(Tail(q)) = Len(q) - 1
           /\ \A i \in 1..Len(Tail(q)) : Tail(q)[i] = q[i + 1] /\ i + 1 \in 1..Len(q)
           /\ 1 \in 1..Len(q)
OBVIOUS

LEMMA KernelStays == ASSUME BootInv, UNCHANGED kernelState PROVE OrderInv'
BY DEF BootInv, OrderInv, kernelState

\* A byte enters the controller's buffer.
LEMMA FillInv == ASSUME BootInv, FillAnswer \/ FillKey \/ FillAux PROVE BootInv'
<1>1. PICK byte \in Byte :
         /\ Fill(byte)
         /\ \/ byte = answer /\ answer # NoByte /\ answer' = NoByte /\ UNCHANGED <<keys, aux>>
            \/ /\ answer = NoByte /\ keys # <<>> /\ byte = Head(keys) /\ keys' = Tail(keys)
               /\ UNCHANGED <<answer, aux>>
            \/ /\ answer = NoByte /\ aux # <<>> /\ byte = Head(aux) /\ aux' = Tail(aux)
               /\ UNCHANGED <<answer, keys>>
  <2>1. answer \in Byte \cup {NoByte} /\ keys \in Seq(Byte) /\ aux \in Seq(Byte)
    BY BootTyped DEF BootInv, BootTypes
  <2>2. (answer # NoByte => answer \in Byte) /\ (keys # <<>> => Head(keys) \in Byte)
        /\ (aux # <<>> => Head(aux) \in Byte)
    BY <2>1, DequeueFacts
  <2> QED
    BY <2>2 DEF FillAnswer, FillKey, FillAux
<1>2. /\ out = NoByte /\ out' = byte /\ out' # NoByte
      /\ irr' = IF Raises(byte) THEN irr \cup {Irq(byte)} ELSE irr
      /\ UNCHANGED <<kernelState, config, latest, owed, bootHistory>> /\ BootTypes
  BY <1>1, BytesTyped DEF Fill, BootInv
<1>3. Irq(byte) \in {1, 12} /\ (byte.from \in {"key", "config"} <=> Irq(byte) = 1)
  BY <1>1 DEF Irq, Byte
<1>4. \/ byte = answer /\ byte.from = "config" /\ aux' = aux /\ keys' = keys
      \/ byte.from = "key" /\ aux' = aux /\ keys # <<>> /\ keys' = Tail(keys) /\ answer' = answer
      \/ byte.from \in {"ack", "report"} /\ aux # <<>> /\ byte = Head(aux) /\ aux' = Tail(aux) /\ keys' = keys
         /\ answer' = answer
  BY <1>1, <1>2, DequeueFacts DEF BootInv, BootTypes, Sources
<1>5. answer' \in {answer, NoByte} /\ keys' \in Seq(Byte) /\ aux' \in Seq(Byte)
  BY <1>1, <1>2, DequeueFacts DEF BootTypes
<1>6. Sources'
  <2>1. keys \in Seq(Byte) /\ aux \in Seq(Byte) /\ Sources
    BY <1>2 DEF BootTypes, BootInv
  <2>2. answer' # NoByte => answer'.from = "config"
    BY <1>5, <2>1 DEF Sources
  <2>3. \A i \in 1..Len(keys') : keys'[i].from = "key"
    <3>1. CASE keys' = keys
      BY <2>1, <3>1 DEF Sources
    <3>2. CASE keys # <<>> /\ keys' = Tail(keys)
      <4>1. \A i \in 1..Len(keys') : keys'[i] = keys[i + 1] /\ i + 1 \in 1..Len(keys)
        BY <2>1, <3>2, DequeueFacts
      <4> QED
        BY <2>1, <4>1 DEF Sources
    <3> QED
      BY <1>4, <3>1, <3>2
  <2>4. \A i \in 1..Len(aux') : aux'[i].from \in {"ack", "report"}
    <3>1. CASE aux' = aux
      BY <2>1, <3>1 DEF Sources
    <3>2. CASE aux # <<>> /\ aux' = Tail(aux)
      <4>1. \A i \in 1..Len(aux') : aux'[i] = aux[i + 1] /\ i + 1 \in 1..Len(aux)
        BY <2>1, <3>2, DequeueFacts
      <4> QED
        BY <2>1, <4>1 DEF Sources
    <3> QED
      BY <1>1, <3>1, <3>2
  <2> QED
    BY <2>2, <2>3, <2>4 DEF Sources
<1>7. BootTypes'
  <2>1. irr' \subseteq {0, 1, 12} /\ out' \in Byte \cup {NoByte} /\ answer' \in Byte \cup {NoByte}
    BY <1>1, <1>2, <1>3, <1>5, BootTyped
  <2>2. OwedOK'
    BY <1>2 DEF BootTypes, OwedOK, kernelState
  <2> QED
    BY <1>2, <1>5, <2>1, <2>2, BootTyped, NextTypes DEF BootTypes, BootTypeOK, kernelState, bootHistory
<1>8. ConfigInv'
  BY <1>2, <1>4, <1>5 DEF BootInv, ConfigInv, ConfigByte, kernelState, bootHistory
<1>9. StuckInv'
  BY <1>2 DEF StuckInv, Raises, Irq
<1>10. StartInStep'
  <2> SUFFICES ASSUME ~disturbed PROVE Owned' /\ AckInv' /\ ~stray'
    BY <1>2 DEF StartInStep, bootHistory
  <2>1. Owned /\ AckInv /\ ~stray
    BY DEF BootInv, StartInStep
  <2>2. Owned'
    BY <1>2, <1>3, <2>1 DEF Owned
  <2>3. AckInv'
    <3>1. CASE byte.from \in {"key", "config"}
      <4>1. aux' = aux /\ owed' = owed /\ boot_pc' = boot_pc /\ Irq(out') = 1
            /\ out'.from # "ack" /\ out'.from # "report"
        BY <1>2, <1>3, <1>4, <3>1 DEF kernelState
      <4> QED
        BY <1>2, <2>1, <4>1 DEF AckInv, Settled, AckComing, NoReport, AllReports, NotFromMouse
    <3>2. CASE byte.from \in {"ack", "report"}
      <4>1. /\ aux # <<>> /\ byte = Head(aux) /\ aux' = Tail(aux)
            /\ owed' = owed /\ boot_pc' = boot_pc /\ aux \in Seq(Byte)
        BY <1>2, <1>4, <3>2 DEF kernelState, BootTypes
      <4>2. boot_pc \notin Acking => Settled'
        BY <1>2, <2>1, <4>1, DequeueFacts DEF AckInv, Settled, AllReports
      <4>3. boot_pc \in Acking => AckComing'
        BY <1>2, <2>1, <4>1, DequeueFacts DEF AckInv, AckComing, AllReports
      <4>4. boot_pc \notin Late => NoReport'
        BY <1>2, <2>1, <4>1, DequeueFacts DEF AckInv, NoReport
      <4> QED
        BY <4>1, <4>2, <4>3, <4>4 DEF AckInv
    <3> QED
      BY <1>4, <3>1, <3>2
  <2> QED
    BY <1>2, <2>1, <2>2, <2>3 DEF bootHistory
<1> QED
  BY <1>2, <1>6, <1>7, <1>8, <1>9, <1>10, KernelStays DEF BootInv

\* A byte is on its way.
LEMMA ArrivalInv == ASSUME BootInv, TypeKey \/ MouseAnswers \/ MouseMoves PROVE BootInv'
<1>1. /\ UNCHANGED <<kernelState, irr, config, out, latest, answer, mistaken, disturbed, stray>>
      /\ BootTypes /\ Sources
  BY DEF TypeKey, MouseAnswers, MouseMoves, bootHistory, BootInv
<1>2. PICK byte \in Byte :
         \/ /\ TypeKey /\ byte.from = "key" /\ keys' = Append(keys, byte)
            /\ UNCHANGED <<aux, owed, moved>> /\ typed < MaxKeys /\ typed' = typed + 1
         \/ /\ MouseAnswers /\ byte.from = "ack" /\ aux' = Append(aux, byte)
            /\ UNCHANGED <<keys, typed, moved>> /\ owed > 0 /\ owed' = owed - 1
         \/ /\ MouseMoves /\ byte.from = "report" /\ aux' = Append(aux, byte) /\ boot_pc \in Late /\ owed = 0
            /\ UNCHANGED <<keys, owed, typed>> /\ moved < MaxReports /\ moved' = moved + 1
  <2>1. CASE TypeKey
    BY <2>1, BytesTyped DEF TypeKey
  <2>2. CASE MouseAnswers
    BY <2>2, BytesTyped DEF MouseAnswers, bootHistory
  <2>3. CASE MouseMoves
    BY <2>3, BytesTyped DEF MouseMoves, Late
  <2> QED
    BY <2>1, <2>2, <2>3
<1>3. keys' \in Seq(Byte) /\ aux' \in Seq(Byte)
  <2>1. keys \in Seq(Byte) /\ aux \in Seq(Byte)
    BY <1>1 DEF BootTypes
  <2>2. Append(keys, byte) \in Seq(Byte) /\ Append(aux, byte) \in Seq(Byte)
    BY ONLY <2>1, byte \in Byte, AppendProperties
  <2>3. keys' \in {keys, Append(keys, byte)} /\ aux' \in {aux, Append(aux, byte)}
    BY <1>2
  <2> QED
    BY <2>1, <2>2, <2>3
<1>4. Sources'
  <2>1. keys \in Seq(Byte) /\ aux \in Seq(Byte)
    BY <1>1 DEF BootTypes
  <2>2. CASE byte.from = "key" /\ keys' = Append(keys, byte) /\ aux' = aux
    <3>1. \A i \in 1..Len(keys') : keys'[i] = byte \/ (i \in 1..Len(keys) /\ keys'[i] = keys[i])
      BY <2>1, <2>2, QueueFacts
    <3> QED
      BY <1>1, <2>2, <3>1 DEF Sources
  <2>3. CASE byte.from \in {"ack", "report"} /\ aux' = Append(aux, byte) /\ keys' = keys
    <3>1. \A i \in 1..Len(aux') : aux'[i] = byte \/ (i \in 1..Len(aux) /\ aux'[i] = aux[i])
      BY <2>1, <2>3, QueueFacts
    <3> QED
      BY <1>1, <2>3, <3>1 DEF Sources
  <2> QED
    BY <1>2, <2>2, <2>3
<1>5. owed \in 0..2 /\ owed' \in 0..2 /\ owed' <= owed
  BY <1>1, <1>2, BootTyped DEF BootTypes, BootTypeOK
<1>6. BootTypes'
  <2>1. OwedOK'
    BY <1>1, <1>5 DEF BootTypes, OwedOK, kernelState
  <2>2. typed' \in 0..MaxKeys /\ moved' \in 0..MaxReports
    <3>1. typed \in 0..MaxKeys /\ moved \in 0..MaxReports
      BY <1>1 DEF BootTypes, BootTypeOK
    <3>2. typed' = typed \/ (typed < MaxKeys /\ typed' = typed + 1)
      BY <1>2
    <3>3. moved' = moved \/ (moved < MaxReports /\ moved' = moved + 1)
      BY <1>2
    <3> QED
      BY <3>1, <3>2, <3>3, BootBoundAssumption
  <2> QED
    BY <1>1, <1>3, <1>5, <2>1, <2>2, BootTyped, NextTypes DEF BootTypes, BootTypeOK, kernelState
<1>7. ConfigInv' /\ StuckInv'
  BY <1>1 DEF BootInv, ConfigInv, StuckInv, ConfigByte, kernelState, Raises, Irq
<1>8. StartInStep'
  <2> SUFFICES ASSUME ~disturbed PROVE Owned' /\ AckInv' /\ ~stray'
    BY <1>1 DEF StartInStep
  <2>1. Owned /\ AckInv /\ ~stray /\ aux \in Seq(Byte)
    BY <1>1 DEF BootInv, StartInStep, BootTypes
  <2>2. Owned'
    BY <1>1, <2>1 DEF Owned
  <2>3. CASE aux' = aux /\ owed' = owed
    BY <1>1, <2>1, <2>2, <2>3 DEF AckInv, Settled, AckComing, NoReport, AllReports, NotFromMouse, kernelState
  <2>4. CASE owed > 0 /\ owed' = owed - 1 /\ byte.from = "ack" /\ aux' = Append(aux, byte)
    <3>1. boot_pc \in Acking /\ owed = 1 /\ aux = <<>> /\ NotFromMouse
      BY <2>1, <2>4 DEF AckInv, Settled, AckComing
    <3>2. aux' # <<>> /\ Head(aux').from = "ack" /\ Tail(aux') = <<>> /\ Len(aux') = 1
          /\ aux'[1] = byte /\ owed' = 0
      BY <2>1, <2>4, <3>1, QueueFacts
    <3>3. AckComing'
      <4>1. AllReports(Tail(aux'))
        <5>1. 1..Len(Tail(aux')) = {}
          <6>1. Len(<<>>) = 0 /\ 1..0 = {}
            OBVIOUS
          <6> QED
            BY <3>2, <6>1
        <5> QED
          BY <5>1 DEF AllReports
      <4> QED
        BY <1>1, <3>1, <3>2, <4>1 DEF AckComing, AllReports, NotFromMouse
    <3>4. boot_pc \notin Late => NoReport'
      BY <1>1, <2>1, <2>4, <3>2 DEF AckInv, NoReport
    <3> QED
      BY <1>1, <2>1, <2>2, <3>1, <3>3, <3>4 DEF AckInv, kernelState
  <2>5. CASE boot_pc \in Late /\ owed = 0 /\ owed' = owed /\ byte.from = "report" /\ aux' = Append(aux, byte)
    <3>1. \A q \in Seq(Byte) : AllReports(q) => AllReports(Append(q, byte))
      BY <2>5, QueueFacts DEF AllReports
    <3>2. aux # <<>> => Tail(aux) \in Seq(Byte)
      BY <2>1, DequeueFacts
    <3>3. Settled => Settled'
      BY <1>1, <2>1, <2>5, <3>1 DEF Settled
    <3>4. AckComing => AckComing'
      <4>1. CASE aux # <<>> /\ Head(aux).from = "ack" /\ AllReports(Tail(aux)) /\ NotFromMouse
        <5>1. aux' # <<>> /\ Head(aux') = Head(aux) /\ Tail(aux') = Append(Tail(aux), byte)
          BY <2>1, <2>5, <4>1, QueueFacts
        <5>2. AllReports(Tail(aux'))
          BY <3>1, <3>2, <4>1, <5>1
        <5> QED
          BY <1>1, <2>5, <4>1, <5>1, <5>2 DEF AckComing, NotFromMouse, AllReports
      <4>2. CASE AllReports(aux) /\ out # NoByte /\ out.from = "ack"
        <5>1. AllReports(aux')
          BY <2>1, <2>5, <3>1, <4>2
        <5> QED
          BY <1>1, <2>5, <4>2, <5>1 DEF AckComing, AllReports
      <4> QED
        BY <2>5, <4>1, <4>2 DEF AckComing
    <3> QED
      BY <1>1, <2>1, <2>2, <2>5, <3>3, <3>4 DEF AckInv, kernelState
  <2> QED
    BY <1>2, <2>3, <2>4, <2>5
<1> QED
  BY <1>1, <1>4, <1>6, <1>7, <1>8, KernelStays DEF BootInv

-----------------------------------------------------------------------------
\* mouse_init's commands, and its reads.
LEMMA CommandInv ==
    ASSUME BootInv,
           EnableAux \/ AskConfig \/ WriteConfig \/ MouseWrite("defaults") \/ MouseWrite("enable")
    PROVE  BootInv'
<1>1. /\ UNCHANGED <<sameCpu, status, irr, out, latest, keys, aux, bootHistory>>
      /\ BootTypes /\ Sources
  BY DEF EnableAux, AskConfig, WriteConfig, MouseWrite, BootInv
<1>2. PICK here \in {"aux", "ask", "set", "defaults", "enable"} :
         /\ Step(here)
         /\ here = "aux" => /\ config' = [config EXCEPT !.mouse_off = FALSE]
                            /\ answer' = answer /\ owed' = owed
         /\ here = "ask" => /\ answer' = [from |-> "config", bits |-> config]
                            /\ config' = config /\ owed' = owed
         /\ here = "set" => /\ config' = WithMouse(status) /\ answer' = answer /\ owed' = owed
         /\ here \in {"defaults", "enable"} => /\ owed' = owed + 1 /\ config' = config
                                               /\ answer' = answer
  BY DEF EnableAux, AskConfig, WriteConfig, MouseWrite
<1>3. boot_pc = here /\ boot_pc' = After(here) /\ boot_pc' \in StartPoints
  BY <1>2, StepPoint
<1>4. /\ config' \in Config /\ config'.kbd_irq \in BOOLEAN
      /\ here = "aux" => config'.kbd_irq = config.kbd_irq /\ config'.kbd_off = config.kbd_off
      /\ here = "set" => /\ config'.kbd_irq = status.kbd_irq /\ config'.kbd_off = status.kbd_off
                         /\ config'.mouse_irq /\ ~config'.mouse_off
  BY <1>1, <1>2, BootTyped DEF Config, WithMouse
<1>5. answer' \in Byte \cup {NoByte} /\ (answer' # NoByte => answer'.from = "config")
  BY <1>1, <1>2, BootTyped DEF Byte, Sources
<1>6. BootTypes'
  <2>1. owed \in Nat /\ OwedOK /\ owed \in 0..2
    BY <1>1, BootTyped DEF BootTypes, BootTypeOK
  <2>2. OwedOK' /\ owed' \in 0..2
    BY <1>2, <1>3, <2>1 DEF OwedOK, After, BeforeSet
  <2> QED
    BY <1>1, <1>3, <1>4, <1>5, <2>2, BootTyped, NextTypes DEF BootTypes, BootTypeOK, sameCpu, bootHistory
<1>7. Sources'
  BY <1>1, <1>5 DEF Sources
<1>8. OrderInv'
  BY <1>1, <1>2, <1>3 DEF BootInv, OrderInv, After, sameCpu
<1>9. ConfigInv'
  <2>1. ConfigInv
    BY DEF BootInv
  <2>2. CASE here = "aux"
    BY <1>1, <1>2, <1>3, <1>4, <2>1, <2>2 DEF ConfigInv, ConfigByte, KbdOn, BeforeSet, After
  <2>3. CASE here = "ask"
    BY <1>1, <1>2, <1>3, <2>1, <2>3 DEF ConfigInv, ConfigByte, KbdOn, BeforeSet, After
  <2>4. CASE here = "set"
    BY <1>1, <1>3, <1>4, <2>1, <2>4 DEF ConfigInv, KbdOn, BeforeSet, After, bootHistory
  <2>5. CASE here \in {"defaults", "enable"}
    BY <1>1, <1>2, <1>3, <2>1, <2>5 DEF ConfigInv, KbdOn, BeforeSet, After, bootHistory
  <2> QED
    BY <2>2, <2>3, <2>4, <2>5
<1>10. StuckInv'
  BY <1>1, <1>2, <1>3 DEF BootInv, StuckInv, Raises, Irq, After, BeforeSet
<1>11. StartInStep'
  <2> SUFFICES ASSUME ~disturbed PROVE Owned' /\ AckInv' /\ ~stray'
    BY <1>1 DEF StartInStep, bootHistory
  <2>1. Owned /\ AckInv /\ ~stray /\ aux \in Seq(Byte)
    BY <1>1 DEF BootInv, StartInStep, BootTypes
  <2>2. Owned' /\ ~stray'
    BY <1>1, <2>1 DEF Owned, bootHistory
  <2>3. CASE here \in {"aux", "ask", "set"}
    BY <1>1, <1>2, <1>3, <2>1, <2>2, <2>3 DEF AckInv, Settled, NoReport, AllReports, After, Acking, Late
  <2>4. CASE here \in {"defaults", "enable"}
    <3>1. Settled /\ NoReport
      BY <1>3, <2>1, <2>4 DEF AckInv, Acking, Late
    <3>2. aux = <<>>
      <4>1. SUFFICES ASSUME aux # <<>> PROVE FALSE
        OBVIOUS
      <4>2. 1 \in 1..Len(aux)
        BY <2>1, <4>1, DequeueFacts
      <4> QED
        BY <3>1, <4>2 DEF Settled, NoReport, AllReports
    <3>3. NotFromMouse
      BY <3>1 DEF Settled, NoReport, NotFromMouse, Irq
    <3>4. owed' = 1 /\ boot_pc' \in Acking
      BY <1>2, <1>3, <2>4, <3>1 DEF Settled, After, Acking
    <3>5. AckComing' /\ NoReport'
      BY <1>1, <3>1, <3>2, <3>3, <3>4 DEF AckComing, NotFromMouse, NoReport
    <3> QED
      BY <2>2, <3>4, <3>5 DEF AckInv
  <2> QED
    BY <2>2, <2>3, <2>4
<1> QED
  BY <1>6, <1>7, <1>8, <1>9, <1>10, <1>11 DEF BootInv

LEMMA ReadInvBoot == ASSUME BootInv, ReadConfig \/ ReadAck("ack1") \/ ReadAck("ack2") PROVE BootInv'
<1>1. /\ UNCHANGED <<sameCpu, typed, moved, stray, config, answer, keys, aux, owed>>
      /\ out' = NoByte /\ latest' = Byte60 /\ irr' \in {irr, irr \ {Irq(Byte60)}}
      /\ BootTypes /\ Sources
  BY DEF ReadConfig, ReadAck, Read60, Withdrawn, BootInv
<1>2. PICK here \in {"read", "ack1", "ack2"} :
         /\ Step(here)
         /\ here = "read" => /\ out # NoByte /\ status' = Byte60.bits
                             /\ mistaken' = (Byte60.from # "config")
                             /\ disturbed' = (disturbed \/ mistaken' \/ Irq(Byte60) \in irr')
         /\ here # "read" =>
              /\ status' = status /\ mistaken' = mistaken
              /\ disturbed' = (disturbed \/ out = NoByte \/ Byte60.from # "ack" \/ 12 \in irr')
  BY DEF ReadConfig, ReadAck
<1>3. boot_pc = here /\ boot_pc' = After(here) /\ boot_pc' \in StartPoints
  BY <1>2, StepPoint
<1>4. status' \in Config
  BY <1>1, <1>2, BootTyped
<1>5. mistaken' \in BOOLEAN /\ disturbed' \in BOOLEAN
  <2>1. CASE here = "read"
    <3>1. mistaken' = (Byte60.from # "config")
      BY <1>2, <2>1
    <3>2. disturbed' = (disturbed \/ mistaken' \/ Irq(Byte60) \in irr')
      BY <1>2, <2>1
    <3>3. mistaken' \in BOOLEAN
      BY <3>1
    <3>4. disturbed' \in BOOLEAN
      BY <3>2
    <3> QED
      BY <3>3, <3>4
  <2>2. CASE here # "read"
    <3>1. disturbed' = (disturbed \/ out = NoByte \/ Byte60.from # "ack" \/ 12 \in irr')
      BY <1>2, <2>2
    <3>2. disturbed' \in BOOLEAN
      BY <3>1
    <3> QED
      BY <1>1, <1>2, <2>2, <3>2 DEF BootTypes, BootTypeOK
  <2> QED
    BY <2>1, <2>2
<1>6. BootTypes'
  <2>1. OwedOK'
    BY <1>1, <1>2, <1>3, BootTyped DEF BootTypes, OwedOK, After, BeforeSet
  <2>2. irr' \subseteq {0, 1, 12} /\ out' \in Byte \cup {NoByte} /\ latest' \in Byte
    BY <1>1, BootTyped
  <2> QED
    BY <1>1, <1>3, <1>4, <1>5, <2>1, <2>2, BootTyped, NextTypes DEF BootTypes, BootTypeOK, sameCpu
<1>7. Sources'
  BY <1>1 DEF Sources
<1>8. OrderInv'
  BY <1>1, <1>2, <1>3 DEF BootInv, OrderInv, After, sameCpu
<1>9. ConfigInv'
  <2>1. ConfigInv
    BY DEF BootInv
  <2>2. CASE here = "read"
    <3>1. boot_pc' = "set" /\ boot_pc \in BeforeSet /\ "set" \in BeforeSet /\ Byte60 = out
      BY <1>2, <1>3, <2>2 DEF After, BeforeSet, Byte60
    <3>2. mistaken' \/ KbdOn(status')
      BY <1>2, <2>1, <2>2, <3>1 DEF ConfigInv, ConfigByte
    <3> QED
      BY <1>1, <2>1, <3>1, <3>2 DEF ConfigInv, ConfigByte, KbdOn
  <2>3. CASE here # "read"
    BY <1>1, <1>2, <1>3, <2>1, <2>3 DEF ConfigInv, BeforeSet, After, KbdOn
  <2> QED
    BY <2>2, <2>3
<1>10. StuckInv'
  BY <1>1 DEF StuckInv
<1>11. StartInStep'
  <2> SUFFICES ASSUME ~disturbed' PROVE Owned' /\ AckInv' /\ ~stray'
    BY DEF StartInStep
  <2>1. /\ ~disturbed /\ out # NoByte /\ Byte60 = out /\ Irq(out) \notin irr'
        /\ here = "read" => out.from = "config"
        /\ here # "read" => out.from = "ack"
    <3>1. CASE here = "read"
      BY <1>2, <3>1 DEF Byte60
    <3>2. CASE here # "read"
      BY <1>2, <3>2 DEF Byte60, Irq
    <3> QED
      BY <3>1, <3>2
  <2>2. Owned /\ AckInv /\ ~stray /\ aux \in Seq(Byte)
    BY <1>1, <2>1 DEF BootInv, StartInStep, BootTypes
  <2>3. Owned' /\ ~stray'
    BY <1>1, <2>1, <2>2 DEF Owned
  <2>4. CASE here = "read"
    <3>1. boot_pc = "read" /\ boot_pc' = "set" /\ out' = NoByte /\ aux' = aux /\ owed' = owed
      BY <1>1, <1>2, <1>3, <2>4 DEF After
    <3>2. Settled /\ NoReport
      BY <2>2, <3>1 DEF AckInv, Acking, Late
    <3>3. Settled' /\ NoReport'
      BY <3>1, <3>2 DEF Settled, NoReport, AllReports
    <3> QED
      BY <2>3, <3>1, <3>3 DEF AckInv, Acking
  <2>5. CASE here # "read"
    <3>1. AckComing /\ Irq(out) = 12
      BY <1>2, <1>3, <2>1, <2>2, <2>5 DEF AckInv, Acking, Irq
    <3>2. owed = 0 /\ AllReports(aux)
      BY <2>1, <3>1 DEF AckComing, NotFromMouse
    <3>3. Settled'
      BY <1>1, <3>2 DEF Settled, AllReports
    <3>4. boot_pc' \notin Acking /\ (boot_pc' \notin Late => boot_pc \notin Late)
      BY <1>2, <1>3, <2>5 DEF After, Acking, Late
    <3> QED
      BY <1>1, <2>2, <2>3, <3>3, <3>4 DEF AckInv, NoReport
  <2> QED
    BY <2>3, <2>4, <2>5
<1> QED
  BY <1>6, <1>7, <1>8, <1>9, <1>10, <1>11 DEF BootInv

-----------------------------------------------------------------------------
\* The interrupts.
LEMMA TickInv == ASSUME BootInv, TimerTick \/ TakeTick PROVE BootInv'
<1>1. /\ UNCHANGED <<kernelState, controller, bootHistory>> /\ BootTypes
      /\ irr' = irr \cup {0} \/ irr' = irr \ {0}
  BY DEF TimerTick, TakeTick, BootInv
<1>2. Sources' /\ ConfigInv' /\ StuckInv' /\ StartInStep'
  BY <1>1, QuietStep DEF kernelState
<1>3. BootTypes'
  <2>1. irr' \subseteq {0, 1, 12}
    BY <1>1, BootTyped
  <2>2. OwedOK'
    BY <1>1 DEF BootTypes, OwedOK, kernelState, controller
  <2> QED
    BY <1>1, <2>1, <2>2, BootTyped, NextTypes DEF BootTypes, BootTypeOK, kernelState, controller, bootHistory
<1> QED
  BY <1>1, <1>2, <1>3, KernelStays DEF BootInv

LEMMA TakeInv == ASSUME BootInv, NEW n \in {1, 12}, TakeInput(n) PROVE BootInv'
<1>1. /\ UNCHANGED <<kernelState, typed, moved, mistaken, disturbed, config, answer, keys, aux, owed>>
      /\ out' = NoByte /\ latest' = Byte60 /\ irr' = irr \ {n} /\ BootTypes /\ Sources
      /\ n \in irr /\ interrupts
      /\ stray' = (stray \/ (n = 12 /\ (out = NoByte \/ out.from # "report")))
  BY DEF TakeInput, Read60, Deliverable, BootInv
<1>2. stray' \in BOOLEAN
  <2>1. stray' = (stray \/ (n = 12 /\ (out = NoByte \/ out.from # "report")))
    BY <1>1
  <2> QED
    BY <2>1
<1>3. BootTypes'
  <2>1. irr' \subseteq {0, 1, 12} /\ out' \in Byte \cup {NoByte} /\ latest' \in Byte
    BY <1>1, BootTyped
  <2>2. OwedOK'
    BY <1>1 DEF BootTypes, OwedOK, kernelState
  <2> QED
    BY <1>1, <1>2, <2>1, <2>2, BootTyped, NextTypes DEF BootTypes, BootTypeOK, kernelState
<1>4. Sources' /\ StuckInv'
  BY <1>1 DEF Sources, StuckInv
<1>5. ConfigInv'
  BY <1>1 DEF BootInv, ConfigInv, ConfigByte, kernelState
<1>6. StartInStep'
  <2> SUFFICES ASSUME ~disturbed PROVE Owned' /\ AckInv' /\ ~stray'
    BY <1>1 DEF StartInStep
  <2>1. Owned /\ AckInv /\ ~stray /\ boot_pc = "run"
    BY <1>1 DEF BootInv, StartInStep, OrderInv
  <2>2. out # NoByte /\ Irq(out) = n
    BY <1>1, <2>1 DEF Owned
  <2>3. Owned'
    BY <1>1, <2>1, <2>2 DEF Owned
  <2>4. Settled /\ AckInv'
    BY <1>1, <2>1 DEF AckInv, Settled, AllReports, Acking, Late, kernelState
  <2>5. n = 12 => out.from = "report"
    BY <2>2, <2>4 DEF Settled, Irq
  <2>6. ~stray'
    BY <1>1, <2>1, <2>2, <2>5
  <2> QED
    BY <2>3, <2>4, <2>6
<1> QED
  BY <1>1, <1>3, <1>4, <1>5, <1>6, KernelStays DEF BootInv

LEMMA BootNextInv == BootInv /\ [BootNext]_bootVars => BootInv'
<1> SUFFICES ASSUME BootInv, [BootNext]_bootVars PROVE BootInv'
  OBVIOUS
<1>1. CASE SetUp
  BY <1>1, SetUpInv
<1>2. CASE FillAnswer \/ FillKey \/ FillAux
  BY <1>2, FillInv
<1>3. CASE TypeKey \/ MouseAnswers \/ MouseMoves
  BY <1>3, ArrivalInv
<1>4. CASE EnableAux \/ AskConfig \/ WriteConfig \/ MouseWrite("defaults") \/ MouseWrite("enable")
  BY <1>4, CommandInv
<1>5. CASE ReadConfig \/ ReadAck("ack1") \/ ReadAck("ack2")
  BY <1>5, ReadInvBoot
<1>6. CASE TimerTick \/ TakeTick
  BY <1>6, TickInv
<1>7. CASE TakeInput(1) \/ TakeInput(12)
  BY <1>7, TakeInv
<1>8. CASE UNCHANGED bootVars
  <2>1. UNCHANGED <<kernelState, irr, controller, bootHistory>>
    BY <1>8 DEF bootVars
  <2>2. Sources' /\ ConfigInv' /\ StuckInv' /\ StartInStep'
    BY <2>1, QuietStep DEF kernelState
  <2>3. BootTypes'
    <3>1. OwedOK' /\ BootTypes
      BY <2>1 DEF BootInv, BootTypes, OwedOK, kernelState, controller
    <3> QED
      BY <2>1, <3>1, BootTyped, NextTypes DEF BootTypes, BootTypeOK, kernelState, controller, bootHistory
  <2> QED
    BY <2>1, <2>2, <2>3, KernelStays DEF BootInv
<1> QED
  BY <1>1, <1>2, <1>3, <1>4, <1>5, <1>6, <1>7, <1>8 DEF BootNext, SetUp

\* What holds at every point of the start.
THEOREM BootInvariance == BootSpec => []BootInv
BY BootInitInv, BootNextInv, PTL DEF BootSpec

\* The controller's bytes and masks and the point of the start keep their types, no matter
\* what is typed or reported meanwhile (kernel_main.c:1057-1121, mouse.c:189-215).
THEOREM BootTypeCorrect == BootSpec => []BootTypeOK
<1>1. BootInv => BootTypeOK
  BY DEF BootInv, BootTypes
<1> QED
  BY <1>1, BootInvariance, PTL

\* However many keys are typed and bytes reported meanwhile, when interrupts are on a
\* byte in the controller has its request, keyboard and mouse are enabled, and the
\* mouse handler is in step, except after the confusions of polling (mouse.c:189-215).
THEOREM InputComesAlive == BootSpec => []InputAlive
<1>1. BootInv => InputAlive
  <2> SUFFICES ASSUME BootInv PROVE InputAlive
    OBVIOUS
  <2>1. interrupts => boot_pc = "run"
    BY DEF BootInv, OrderInv
  <2>2. NothingStuck
    <3>1. boot_pc = "run" => {1, 12} \cap masked = {}
      BY DEF BootInv, OrderInv
    <3>2. out # NoByte => Irq(out) \in {1, 12}
      BY DEF Irq
    <3> QED
      BY <2>1, <3>1, <3>2 DEF NothingStuck, BootInv, StuckInv, BeforeSet
  <2>3. InputOn
    BY <2>1 DEF InputOn, BootInv, ConfigInv, KbdOn, BeforeSet
  <2>4. MouseInStep
    BY DEF MouseInStep, BootInv, StartInStep
  <2> QED
    BY <2>2, <2>3, <2>4 DEF InputAlive
<1> QED
  BY <1>1, BootInvariance, PTL

\* No interrupt finds the kernel half set up: every handler, the scheduler's ring and the
\* keyboard's callback are there before the first one (kernel_main.c:1057-1121).
THEOREM HandlersComeFirst == BootSpec => []HandlersReady
<1>1. BootInv => HandlersReady
  BY DEF BootInv, OrderInv, HandlersReady
<1> QED
  BY <1>1, BootInvariance, PTL

-----------------------------------------------------------------------------
\* The keyboard.
Typeable == {Char(key, shift) : key \in Keys, shift \in BOOLEAN}

\* What LineMeant does not say: the flag is down when no shift key is, also after an odd
\* sequence, so that the next line is a new start; and the lines fit.
LinesFit == \A line \in {shell_buf, meant} : line \in Seq(Typeable) /\ Len(line) < LineSize
TypingInv ==
    /\ down \subseteq Shifts /\ arrow \in BOOLEAN /\ shift_held \in BOOLEAN /\ odd \in BOOLEAN
    /\ LinesFit
    /\ down = {} => shift_held = FALSE
    /\ LineMeant

\* shell_key_handler keeps the line within its buffer.
LEMMA EditedFits ==
    ASSUME NEW line \in Seq(Typeable), Len(line) < LineSize, NEW c \in Typeable
    PROVE  Edited(line, c) \in Seq(Typeable) /\ Len(Edited(line, c)) < LineSize
<1>1. LineSize \in Nat \ {0, 1} /\ Len(line) \in Nat
  BY TypingAssumption, LenProperties
<1>2. <<>> \in Seq(Typeable) /\ Len(<<>>) = 0
  BY EmptySeq
<1>3. line # <<>> => Front(line) \in Seq(Typeable) /\ Len(Front(line)) < LineSize
  <2>1. SUFFICES ASSUME line # <<>> PROVE Front(line) \in Seq(Typeable) /\ Len(Front(line)) < LineSize
    OBVIOUS
  <2>2. Len(line) >= 1
    BY <1>1, <2>1, EmptySeq
  <2>3. SubSeq(line, 1, Len(line) - 1) \in Seq(Typeable)
        /\ Len(SubSeq(line, 1, Len(line) - 1)) = Len(line) - 1
    <3>1. PICK n \in Nat : Len(line) = n + 1 /\ Len(line) - 1 = n
      <4>1. Len(line) - 1 \in Nat /\ Len(line) = (Len(line) - 1) + 1
        BY <1>1, <2>2
      <4> QED
        BY <4>1
    <3>2. \A i \in 1..n : i \in 1..Len(line)
      BY <3>1
    <3>3. SubSeq(line, 1, n) \in Seq(Typeable) /\ Len(SubSeq(line, 1, n)) = n
      BY <3>1, <3>2, SubSeqProperties
    <3> QED
      BY <3>1, <3>3
  <2> QED
    BY <1>1, <2>3 DEF Front
<1>4. Append(line, c) \in Seq(Typeable) /\ Len(Append(line, c)) = Len(line) + 1
  OBVIOUS
<1>5. Len(line) < LineSize - 1 => Len(line) + 1 < LineSize
  BY <1>1
<1>6. 0 < LineSize
  BY <1>1
<1>7. Edited(line, c) \in {<<>>, line, IF line # <<>> THEN Front(line) ELSE line,
                           IF Len(line) < LineSize - 1 THEN Append(line, c) ELSE line}
  BY DEF Edited
<1> QED
  BY <1>2, <1>3, <1>4, <1>5, <1>6, <1>7

\* Enter begins a new line.
LEMMA EnterClears == \A line, shift : Edited(line, Char(SC_ENTER, shift)) = <<>>
<1>1. \A shift : Char(SC_ENTER, shift) = "LF"
  <2>1. SC_ENTER = 28 /\ SC_ESCAPE = 1 /\ SC_BACKSPACE = 14
    BY DEF SC_ENTER, SC_ESCAPE, SC_BACKSPACE
  <2>2. Len(scancode_to_ascii) = 58
    BY DEF scancode_to_ascii
  <2> QED
    BY <2>1, <2>2 DEF Char
<1> QED
  BY <1>1 DEF Edited

LEMMA ShiftInv ==
    ASSUME TypingInv,
           (\E key \in Shifts : PressShift(key) \/ ReleaseShift(key)) \/ PressArrow \/ ReleaseArrow
    PROVE  TypingInv'
<1>1. UNCHANGED <<shell_buf, meant>>
  BY DEF PressShift, ReleaseShift, PressArrow, ReleaseArrow
<1>2. LinesFit'
  BY <1>1 DEF TypingInv, LinesFit
<1>3. CASE \E key \in Shifts : PressShift(key)
  <2>1. /\ down' # {} /\ down' \subseteq Shifts /\ shift_held' = TRUE
        /\ UNCHANGED <<arrow, shell_buf, meant, odd>>
    BY <1>3 DEF PressShift, TypingInv
  <2>2. LineMeant'
    BY <2>1 DEF TypingInv, LineMeant
  <2> QED
    BY <1>2, <2>1, <2>2 DEF TypingInv
<1>4. CASE \E key \in Shifts : ReleaseShift(key)
  BY <1>1, <1>2, <1>4 DEF ReleaseShift, Released, TypingInv, LineMeant
<1>5. CASE PressArrow
  BY <1>1, <1>2, <1>5 DEF PressArrow, Released, TypingInv, LineMeant
<1>6. CASE ReleaseArrow
  BY <1>1, <1>2, <1>6 DEF ReleaseArrow, TypingInv, LineMeant
<1> QED
  BY <1>3, <1>4, <1>5, <1>6

LEMMA KeyInv == ASSUME TypingInv, PressKey PROVE TypingInv'
<1>1. PICK key \in Keys :
        /\ shell_buf' = Edited(shell_buf, Char(key, shift_held))
        /\ meant' = Edited(meant, Char(key, down # {}))
        /\ odd' = (odd /\ ~(key = SC_ENTER /\ down = {} /\ ~arrow))
        /\ UNCHANGED <<down, arrow, shift_held>>
  BY DEF PressKey
<1>2. Char(key, shift_held) \in Typeable /\ Char(key, down # {}) \in Typeable
  <2>1. \A shift \in BOOLEAN : Char(key, shift) \in Typeable
    BY DEF Typeable
  <2>2. shift_held \in BOOLEAN /\ (down # {}) \in BOOLEAN
    BY DEF TypingInv
  <2>3. Char(key, shift_held) \in Typeable
    BY <2>1, <2>2
  <2>4. Char(key, down # {}) \in Typeable
    BY <2>1, <2>2
  <2> QED
    BY <2>3, <2>4
<1>3. LinesFit'
  <2>1. /\ shell_buf \in Seq(Typeable) /\ Len(shell_buf) < LineSize
        /\ meant \in Seq(Typeable) /\ Len(meant) < LineSize
    BY DEF TypingInv, LinesFit
  <2>2. /\ shell_buf' \in Seq(Typeable) /\ Len(shell_buf') < LineSize
        /\ meant' \in Seq(Typeable) /\ Len(meant') < LineSize
    BY <1>1, <1>2, <2>1, EditedFits
  <2> QED
    BY <2>2 DEF LinesFit
<1>4. LineMeant'
  <2>1. SUFFICES ASSUME ~odd' PROVE shell_buf' = meant' /\ shift_held = (down # {})
    BY <1>1 DEF LineMeant
  <2>2. CASE ~odd
    <3>1. shell_buf = meant /\ shift_held = (down # {})
      BY <2>2 DEF TypingInv, LineMeant
    <3> QED
      BY <1>1, <3>1
  <2>3. CASE key = SC_ENTER /\ down = {} /\ ~arrow
    <3>1. shift_held = FALSE
      BY <2>3 DEF TypingInv
    <3>2. shell_buf' = <<>> /\ meant' = <<>>
      BY <1>1, <2>3, EnterClears
    <3> QED
      BY <2>3, <3>1, <3>2
  <2> QED
    BY <1>1, <2>1, <2>2, <2>3
<1> QED
  BY <1>1, <1>3, <1>4 DEF TypingInv

\* For any keys in any order and any length of the buffer: unless a shift key went up or an
\* arrow key down while a shift key was held, the line is the one that was meant, and
\* Enter makes good what was not; and no line outgrows the buffer (keyboard.c:41-88,
\* shell_key_handler: kernel_main.c).  This is the first part of TypingRight.
THEOREM LineIsMeant == TypingSpec => [](TypingTypeOK /\ LineMeant)
<1>1. TypingInit => TypingInv
  <2>1. <<>> \in Seq(Typeable) /\ Len(<<>>) = 0 /\ 0 < LineSize
    BY EmptySeq, TypingAssumption
  <2> QED
    BY <2>1 DEF TypingInit, TypingInv, LinesFit, LineMeant
<1>2. TypingInv /\ [TypingNext]_typingVars => TypingInv'
  <2>1. ASSUME TypingInv, UNCHANGED typingVars PROVE TypingInv'
    BY <2>1 DEF typingVars, TypingInv, LinesFit, LineMeant
  <2> QED
    BY <2>1, ShiftInv, KeyInv DEF TypingNext
<1>3. TypingInv => TypingTypeOK /\ LineMeant
  BY DEF TypingInv, TypingTypeOK, LinesFit
<1> QED
  BY <1>1, <1>2, <1>3, PTL DEF TypingSpec

-----------------------------------------------------------------------------
\* The line that was typed: its first word, and the numbers in it.

\* A part of a text: t is what stands in s between the places m and n.
IsPart(A, s, m, n, t) == t \in Seq(A) /\ Len(t) = n - m /\ \A k \in 1..(n - m) : t[k] = s[m + k]
LEMMA PartIs ==
    ASSUME NEW A, NEW s \in Seq(A), NEW m \in 0..Len(s), NEW n \in m..Len(s)
    PROVE  IsPart(A, s, m, n, SubSeq(s, m + 1, n))
<1>1. Len(s) \in Nat /\ m \in Nat /\ n \in Nat /\ m <= n /\ n <= Len(s) /\ m + 1 \in Int /\ n \in Int
  BY LenProperties
<1>2. \A i \in (m + 1)..n : s[i] \in A
  BY <1>1, ElementOfSeq
<1> DEFINE part == SubSeq(s, m + 1, n)
<1>3. /\ part \in Seq(A)
      /\ Len(part) = IF m + 1 <= n THEN n - (m + 1) + 1 ELSE 0
      /\ \A i \in 1..(n - (m + 1) + 1) : part[i] = s[m + 1 + i - 1]
  BY <1>1, <1>2, SubSeqProperties
<1> HIDE DEF part
<1>4. Len(part) = n - m /\ n - (m + 1) + 1 = n - m
  BY <1>1, <1>3
<1>5. ASSUME NEW k \in 1..(n - m) PROVE part[k] = s[m + k]
  <2>1. m + 1 + k - 1 = m + k
    BY <1>1
  <2> QED
    BY <1>3, <1>4, <2>1
<1>6. IsPart(A, s, m, n, part)
  BY ONLY <1>3, <1>4, <1>5 DEF IsPart
<1> QED
  BY ONLY <1>6 DEF part

LEMMA DropIs ==
    ASSUME NEW A, NEW s \in Seq(A), NEW n \in 0..Len(s)
    PROVE  IsPart(A, s, n, Len(s), Drop(s, n))
<1>1. Len(s) \in n..Len(s)
  BY LenProperties
<1> QED
  BY ONLY <1>1, PartIs, s \in Seq(A), n \in 0..Len(s), Zenon DEF Drop

LEMMA TakeIs ==
    ASSUME NEW A, NEW s \in Seq(A), NEW n \in 0..Len(s)
    PROVE  /\ SubSeq(s, 1, n) \in Seq(A) /\ Len(SubSeq(s, 1, n)) = n
           /\ \A k \in 1..n : SubSeq(s, 1, n)[k] = s[k]
<1>1. 0 \in 0..Len(s) /\ n \in 0..Len(s) /\ 0 + 1 = 1 /\ n - 0 = n /\ \A k \in 1..n : 0 + k = k
  BY LenProperties
<1>2. IsPart(A, s, 0, n, SubSeq(s, 0 + 1, n))
  BY <1>1, PartIs, Zenon
<1> QED
  BY <1>1, <1>2 DEF IsPart

\* Span is where the characters of S end.
Ends(s, S, n) == (\A k \in 1..n : s[k] \in S) /\ (n < Len(s) => s[n + 1] \notin S)

LEMMA SpanEnds ==
    ASSUME NEW A, NEW s \in Seq(A), NEW S
    PROVE  /\ Span(s, S) \in 0..Len(s) /\ Ends(s, S, Span(s, S))
           /\ \A n \in 0..Len(s) : Ends(s, S, n) => n = Span(s, S)
<1>1. Len(s) \in Nat
  BY LenProperties
<1> DEFINE T == {n \in 0..Len(s) : n < Len(s) => s[n + 1] \notin S}
<1>2. PICK m \in T : \A k \in T : m <= k
  <2>1. Len(s) \in T /\ T \subseteq Nat
    BY <1>1
  <2> HIDE DEF T
  <2> QED
    BY <2>1, LeastElement
<1>3. m \in 0..Len(s) /\ Ends(s, S, m)
  <2>1. ASSUME NEW k \in 1..m PROVE s[k] \in S
    <3>1. k - 1 \in 0..Len(s) /\ k - 1 < m /\ (k - 1) + 1 = k
      BY <1>1
    <3>2. k - 1 \in T => m <= k - 1
      BY <1>2
    <3>3. m \in Nat /\ k \in Nat
      BY <1>1
    <3>4. k - 1 \notin T
      BY <3>1, <3>2, <3>3
    <3> QED
      BY <3>1, <3>4
  <2> QED
    BY <2>1 DEF Ends
<1>4. ASSUME NEW i \in 0..Len(s), NEW j \in 0..Len(s), Ends(s, S, i), Ends(s, S, j), i < j PROVE FALSE
  <2>1. i + 1 \in 1..j /\ i < Len(s)
    BY <1>1, <1>4
  <2> QED
    BY <1>4, <2>1 DEF Ends
<1>5. Span(s, S) \in 0..Len(s) /\ Ends(s, S, Span(s, S))
  BY <1>3 DEF Span, Ends
<1>6. ASSUME NEW i \in 0..Len(s), Ends(s, S, i) PROVE i = Span(s, S)
  <2>1. i < Span(s, S) \/ i = Span(s, S) \/ Span(s, S) < i
    BY <1>1, <1>5
  <2> QED
    BY <1>4, <1>5, <1>6, <2>1
<1> QED
  BY <1>5, <1>6

\* shell_arg_after: a command is there just if it is the line's first word.
NotSpace == Range(scancode_to_ascii) \ {" "}
FirstWord(line) == SubSeq(line, 1, Span(line, NotSpace))
Line == Seq(Range(scancode_to_ascii))

LEMMA FollowsFirst ==
    ASSUME NEW line \in Line, NEW word \in Seq(NotSpace)
    PROVE  Follows(line, word) <=> word = FirstWord(line)
<1> DEFINE A == Range(scancode_to_ascii)
           n == Span(line, NotSpace)
<1>0. line \in Seq(A) /\ NotSpace \subseteq A
  BY DEF Line, NotSpace
<1> HIDE DEF A
<1>1. /\ line \in Seq(A) /\ word \in Seq(A) /\ Len(line) \in Nat /\ Len(word) \in Nat
      /\ \A k \in 1..Len(line) : line[k] \in A
      /\ \A k \in 1..Len(word) : word[k] \in NotSpace
  BY ONLY <1>0, word \in Seq(NotSpace), LenProperties, ElementOfSeq, SeqMonotonic
<1>2. n \in 0..Len(line) /\ Ends(line, NotSpace, n)
      /\ \A i \in 0..Len(line) : Ends(line, NotSpace, i) => i = n
  BY <1>1, SpanEnds
<1>3. FirstWord(line) \in Seq(A) /\ Len(FirstWord(line)) = n /\ \A k \in 1..n : FirstWord(line)[k] = line[k]
  BY <1>1, <1>2, TakeIs DEF FirstWord
<1>4. \A c \in A : c \notin NotSpace <=> c = " "
  BY DEF NotSpace, A
<1> HIDE DEF n
<1>5. SubSeq(word, 1, Len(word)) = word
  BY <1>1, SubSeqFull
<1>6. ASSUME Follows(line, word) PROVE word = FirstWord(line)
  <2>1. Len(word) <= Len(line)
    BY <1>6 DEF Follows, IsPrefix
  <2>a. word = SubSeq(line, 1, Len(word))
    BY <1>5, <1>6 DEF Follows, IsPrefix
  <2>b. Len(word) < Len(line) => line[Len(word) + 1] \notin NotSpace
    <3>1. Len(word) < Len(line) => Len(line) # Len(word)
      BY <1>1
    <3> QED
      BY <1>6, <3>1 DEF Follows, NotSpace
  <2>2. Len(word) \in 0..Len(line)
    BY ONLY <1>1, <2>1
  <2>3. \A k \in 1..Len(word) : line[k] \in NotSpace
    BY <1>1, <2>a, <2>2, TakeIs
  <2>4. Ends(line, NotSpace, Len(word))
    BY <2>b, <2>3 DEF Ends
  <2> QED
    BY <1>2, <2>a, <2>2, <2>4 DEF FirstWord, n
<1>7. ASSUME word = FirstWord(line) PROVE Follows(line, word)
  <2>1. Len(word) = n /\ n <= Len(line) /\ word = SubSeq(line, 1, n)
    BY <1>1, <1>2, <1>3, <1>7 DEF FirstWord, n
  <2>2. n < Len(line) => line[n + 1] = " "
    <3>1. n < Len(line) => n + 1 \in 1..Len(line)
      BY <1>1, <1>2
    <3> QED
      BY <1>1, <1>2, <1>4, <3>1 DEF Ends
  <2>3. Len(line) = n \/ n < Len(line)
    BY <1>1, <1>2
  <2> QED
    BY <1>5, <2>1, <2>2, <2>3 DEF Follows, IsPrefix
<1> QED
  BY <1>6, <1>7

\* The names of the commands, letter by letter.
LEMMA Letters ==
    ASSUME NEW C, "a" \in C, "b" \in C, "c" \in C, "d" \in C, "e" \in C, "f" \in C, "h" \in C, "i" \in C,
           "k" \in C, "l" \in C, "m" \in C, "o" \in C, "p" \in C, "r" \in C, "s" \in C, "t" \in C,
           "u" \in C, "x" \in C, "y" \in C, "2" \in C
    PROVE  Names \subseteq Seq(C)
<1>1. Plain \subseteq Seq(C)
  <2>1. /\ <<"c", "l", "e", "a", "r">> \in Seq(C) /\ <<"a", "b">> \in Seq(C)
        /\ <<"h", "e", "l", "p">> \in Seq(C) /\ <<"m", "e", "m">> \in Seq(C)
    OBVIOUS
  <2>4. /\ <<"h", "e", "a", "p">> \in Seq(C) /\ <<"l", "s">> \in Seq(C)
        /\ <<"p", "l", "a", "y">> \in Seq(C) /\ <<"l", "s", "2">> \in Seq(C)
    OBVIOUS
  <2>2. /\ <<"a", "l", "l", "o", "c", "s">> \in Seq(C) /\ <<"t", "a", "s", "k", "s">> \in Seq(C)
        /\ <<"u", "p", "t", "i", "m", "e">> \in Seq(C)
    OBVIOUS
  <2>5.  <<"r", "e", "b", "o", "o", "t">> \in Seq(C)
    OBVIOUS
  <2>3. <<"t", "s", "k", "d", "e", "m", "o">> \in Seq(C)
    OBVIOUS
  <2>6. <<"m", "u", "l", "t", "i", "s", "t", "o", "p">> \in Seq(C)
    OBVIOUS
  <2> QED
    BY ONLY <2>1, <2>2, <2>3, <2>4, <2>5, <2>6 DEF Plain
<1>2. ASSUME NEW k \in DOMAIN WithArg PROVE WithArg[k] \in Seq(C)
  <2>1. k \in 1..6
    BY DEF WithArg
  <2>2. k \in {1, 2, 3, 4, 5, 6}
    BY ONLY <2>1
  <2>3. /\ WithArg[1] = <<"a", "l", "l", "o", "c">> /\ WithArg[2] = <<"f", "r", "e", "e">>
        /\ WithArg[3] = <<"c", "a", "t">> /\ WithArg[4] = <<"c", "a", "t", "2">>
        /\ WithArg[5] = <<"e", "x", "e", "c">> /\ WithArg[6] = <<"e", "x", "e", "c", "2">>
    BY DEF WithArg
  <2>4. /\ <<"a", "l", "l", "o", "c">> \in Seq(C) /\ <<"f", "r", "e", "e">> \in Seq(C)
        /\ <<"c", "a", "t">> \in Seq(C) /\ <<"c", "a", "t", "2">> \in Seq(C)
    OBVIOUS
  <2>5. <<"e", "x", "e", "c">> \in Seq(C) /\ <<"e", "x", "e", "c", "2">> \in Seq(C)
    OBVIOUS
  <2> QED
    BY ONLY <2>2, <2>3, <2>4, <2>5
<1> QED
  BY <1>1, <1>2 DEF Names, Range

\* Their letters can be typed.
LEMMA LettersTyped ==
    /\ "a" \in NotSpace /\ "b" \in NotSpace /\ "c" \in NotSpace /\ "d" \in NotSpace
    /\ "e" \in NotSpace /\ "f" \in NotSpace /\ "h" \in NotSpace /\ "i" \in NotSpace
    /\ "k" \in NotSpace /\ "l" \in NotSpace /\ "m" \in NotSpace /\ "o" \in NotSpace
    /\ "p" \in NotSpace /\ "r" \in NotSpace /\ "s" \in NotSpace /\ "t" \in NotSpace
    /\ "u" \in NotSpace /\ "x" \in NotSpace /\ "y" \in NotSpace /\ "2" \in NotSpace
    /\ "7" \in NotSpace /\ " " \in Range(scancode_to_ascii)
<1> DEFINE R == Range(scancode_to_ascii)
<1>1. DOMAIN scancode_to_ascii = 1..58
  BY DEF scancode_to_ascii
<1>2. \A i \in 1..58 : scancode_to_ascii[i] \in R
  BY <1>1 DEF Range
<1> HIDE DEF R
<1>3. /\ "e" \in R /\ "r" \in R /\ "t" \in R /\ "y" \in R /\ "u" \in R /\ "i" \in R /\ "o" \in R
      /\ "p" \in R
  <2>1. /\ scancode_to_ascii[19] = "e" /\ scancode_to_ascii[20] = "r" /\ scancode_to_ascii[21] = "t"
        /\ scancode_to_ascii[22] = "y" /\ scancode_to_ascii[23] = "u" /\ scancode_to_ascii[24] = "i"
        /\ scancode_to_ascii[25] = "o" /\ scancode_to_ascii[26] = "p"
    BY DEF scancode_to_ascii
  <2> QED
    BY <1>2, <2>1
<1>4. /\ "a" \in R /\ "s" \in R /\ "d" \in R /\ "f" \in R /\ "h" \in R /\ "k" \in R /\ "l" \in R
  <2>1. /\ scancode_to_ascii[31] = "a" /\ scancode_to_ascii[32] = "s" /\ scancode_to_ascii[33] = "d"
        /\ scancode_to_ascii[34] = "f" /\ scancode_to_ascii[36] = "h" /\ scancode_to_ascii[38] = "k"
        /\ scancode_to_ascii[39] = "l"
    BY DEF scancode_to_ascii
  <2> QED
    BY <1>2, <2>1
<1>5. "x" \in R /\ "c" \in R /\ "b" \in R /\ "m" \in R
  <2>1. /\ scancode_to_ascii[46] = "x" /\ scancode_to_ascii[47] = "c" /\ scancode_to_ascii[49] = "b"
        /\ scancode_to_ascii[51] = "m"
    BY DEF scancode_to_ascii
  <2> QED
    BY <1>2, <2>1
<1>a. "2" \in R /\ "7" \in R
  <2>1. scancode_to_ascii[4] = "2" /\ scancode_to_ascii[9] = "7"
    BY DEF scancode_to_ascii
  <2> QED
    BY <1>2, <2>1
<1>b. " " \in R
  <2>1. scancode_to_ascii[58] = " " /\ 58 \in 1..58
    BY DEF scancode_to_ascii
  <2> QED
    BY <1>2, <2>1, Zenon
<1>6. NotSpace = R \ {" "}
  BY DEF NotSpace, R
<1>7. " " \in Range(scancode_to_ascii)
  BY <1>b DEF R
<1>8. /\ "e" \in NotSpace /\ "r" \in NotSpace /\ "t" \in NotSpace /\ "y" \in NotSpace
      /\ "u" \in NotSpace /\ "i" \in NotSpace /\ "o" \in NotSpace /\ "p" \in NotSpace
  BY <1>3, <1>6
<1>9. /\ "a" \in NotSpace /\ "s" \in NotSpace /\ "d" \in NotSpace /\ "f" \in NotSpace
      /\ "h" \in NotSpace /\ "k" \in NotSpace /\ "l" \in NotSpace
  BY <1>4, <1>6
<1>10. /\ "x" \in NotSpace /\ "c" \in NotSpace /\ "b" \in NotSpace /\ "m" \in NotSpace
       /\ "2" \in NotSpace /\ "7" \in NotSpace
  BY <1>5, <1>6, <1>a
<1> QED
  BY ONLY <1>7, <1>8, <1>9, <1>10

LEMMA NamesTyped == Names \subseteq Seq(NotSpace)
BY Letters, LettersTyped

\* No command without an argument has the name of one with it.
LEMMA PlainNotArg == Plain \cap Range(WithArg) = {}
<1>1. ASSUME NEW n \in Range(WithArg)
      PROVE  n \in {<<"a", "l", "l", "o", "c">>, <<"f", "r", "e", "e">>, <<"c", "a", "t">>,
                    <<"c", "a", "t", "2">>, <<"e", "x", "e", "c">>, <<"e", "x", "e", "c", "2">>}
  <2>1. PICK k \in DOMAIN WithArg : n = WithArg[k]
    BY <1>1 DEF Range
  <2>2. k \in {1, 2, 3, 4, 5, 6}
    <3>1. k \in 1..6
      BY <2>1 DEF WithArg
    <3> QED
      BY ONLY <3>1
  <2> QED
    BY <2>1, <2>2 DEF WithArg
<1> DEFINE First(s) == <<Len(s), s[1]>>
<1>2. ASSUME NEW n \in Range(WithArg)
      PROVE  First(n) \in {<<5, "a">>, <<4, "f">>, <<3, "c">>, <<4, "c">>, <<4, "e">>, <<5, "e">>}
  BY <1>1
<1>3. ASSUME NEW n \in Plain
      PROVE  First(n) \in {<<5, "c">>, <<2, "a">>, <<4, "h">>, <<3, "m">>, <<6, "a">>, <<5, "t">>,
                           <<7, "t">>, <<9, "m">>, <<4, "p">>, <<2, "l">>, <<3, "l">>, <<6, "u">>, <<6, "r">>}
  BY <1>3 DEF Plain
<1> HIDE DEF First
<1>4. {<<5, "c">>, <<2, "a">>, <<4, "h">>, <<3, "m">>, <<6, "a">>, <<5, "t">>,
       <<7, "t">>, <<9, "m">>, <<4, "p">>, <<2, "l">>, <<3, "l">>, <<6, "u">>, <<6, "r">>}
      \cap {<<5, "a">>, <<4, "f">>, <<3, "c">>, <<4, "c">>, <<4, "e">>, <<5, "e">>} = {}
  OBVIOUS
<1> QED
  BY <1>2, <1>3, <1>4

\* A command is chosen by the whole first word, for any line.
THEOREM ChosenRight ==
    ASSUME NEW line \in Line
    PROVE  LET word == FirstWord(line)
           IN  Chosen(line) = IF word \in Range(WithArg) THEN <<word, SkipSpaces(Drop(line, Len(word)))>>
                              ELSE IF line = word /\ word \in Plain THEN <<word>> ELSE Unknown
<1> DEFINE word == FirstWord(line)
<1>1. DOMAIN WithArg = 1..Len(WithArg) /\ Len(WithArg) = 6
  BY DEF WithArg
<1>2. \A n \in 1..Len(WithArg) : WithArg[n] \in Range(WithArg)
  BY <1>1 DEF Range
<1>3. ASSUME NEW n \in 1..Len(WithArg) PROVE Follows(line, WithArg[n]) <=> WithArg[n] = word
  <2>1. WithArg[n] \in Seq(NotSpace)
    BY <1>2, NamesTyped DEF Names
  <2> QED
    BY <2>1, FollowsFirst
<1>4. ASSUME line \in Plain PROVE line = word
  <2>1. line \in Seq(NotSpace) /\ Len(line) \in Nat
    BY <1>4, NamesTyped, LenProperties DEF Names
  <2>2. \A k \in 1..Len(line) : line[k] \in NotSpace
    BY <2>1, ElementOfSeq
  <2>3. Ends(line, NotSpace, Len(line)) /\ Len(line) \in 0..Len(line)
    BY <2>1, <2>2 DEF Ends
  <2>4. Len(line) = Span(line, NotSpace)
    BY ONLY <2>1, <2>3, SpanEnds
  <2>5. SubSeq(line, 1, Len(line)) = line
    BY <2>1, SubSeqFull
  <2> QED
    BY <2>4, <2>5 DEF FirstWord
<1>5. CASE line \in Plain
  <2>1. word = line /\ word \notin Range(WithArg)
    BY <1>4, <1>5, PlainNotArg
  <2> QED
    BY <1>5, <2>1 DEF Chosen
<1>6. CASE line \notin Plain /\ word \in Range(WithArg)
  <2>1. \E n \in 1..Len(WithArg) : Follows(line, WithArg[n])
    BY <1>1, <1>3, <1>6 DEF Range
  <2> DEFINE First(n) == /\ Follows(line, WithArg[n])
                         /\ \A k \in 1..(n - 1) : ~Follows(line, WithArg[k])
             n == CHOOSE n \in 1..Len(WithArg) : First(n)
  <2>2. \E m \in 1..Len(WithArg) : First(m)
    <3> DEFINE T == {m \in 1..Len(WithArg) : Follows(line, WithArg[m])}
    <3>1. PICK m \in T : \A k \in T : m <= k
      <4>1. T \subseteq Nat /\ T # {}
        BY <1>1, <2>1
      <4> HIDE DEF T
      <4> QED
        BY <4>1, LeastElement
    <3>2. ASSUME NEW k \in 1..(m - 1) PROVE ~Follows(line, WithArg[k])
      <4>1. k \in 1..Len(WithArg) /\ ~(m <= k)
        BY <1>1, <3>1
      <4> QED
        BY <3>1, <4>1
    <3> QED
      BY <3>1, <3>2
  <2>3. n \in 1..Len(WithArg) /\ First(n)
    BY <2>2
  <2>4. WithArg[n] = word
    BY <1>3, <2>3
  <2>5. Chosen(line) = <<WithArg[n], shell_arg_after(line, WithArg[n])>>
    BY <1>6, <2>1 DEF Chosen
  <2> HIDE DEF n
  <2> QED
    BY <1>6, <2>4, <2>5 DEF shell_arg_after
<1>7. CASE line \notin Plain /\ word \notin Range(WithArg)
  <2>1. ~\E n \in 1..Len(WithArg) : Follows(line, WithArg[n])
    BY <1>2, <1>3, <1>7
  <2> QED
    BY <1>7, <2>1 DEF Chosen
<1> QED
  BY <1>5, <1>6, <1>7

LEMMA CommandsAllRight == CommandsRight
<1> DEFINE R == Range(scancode_to_ascii)
<1>1. NotSpace \subseteq R /\ " " \in R /\ "7" \in R /\ "s" \in R /\ Line = Seq(R)
  BY LettersTyped, Zenon DEF NotSpace, Line
<1>2. \A name \in Names : name \in Seq(NotSpace)
  BY NamesTyped
<1> HIDE DEF R
<1>3. \A gap \in {0, 1, 2} : [k \in 1..gap |-> " "] \in Seq(R)
  <2>1. ASSUME NEW c, c \in R, NEW gap \in Nat PROVE [k \in 1..gap |-> c] \in Seq(R)
    BY <2>1
  <2>2. {0, 1, 2} \subseteq Nat
    OBVIOUS
  <2> QED
    BY ONLY <1>1, <2>1, <2>2
<1>4. \A arg \in {<<>>, <<"7">>, <<"s">>, <<"7", " ", "s">>} : arg \in Seq(R)
  <2>1. ASSUME NEW b, NEW c, NEW d, b \in R, c \in R, d \in R
        PROVE  <<>> \in Seq(R) /\ <<b>> \in Seq(R) /\ <<c>> \in Seq(R) /\ <<b, d, c>> \in Seq(R)
    BY <2>1
  <2>2. <<>> \in Seq(R) /\ <<"7">> \in Seq(R) /\ <<"s">> \in Seq(R) /\ <<"7", " ", "s">> \in Seq(R)
    BY ONLY <1>1, <2>1, Zenon
  <2> QED
    BY ONLY <2>2, Zenon
<1>5. ASSUME NEW name \in Names PROVE name \in Seq(R) /\ Range(name) \subseteq R
  <2>1. name \in Seq(NotSpace)
    BY <1>2
  <2>2. name \in Seq(R)
    BY <1>1, <2>1, SeqMonotonic
  <2>3. name \in [1..Len(name) -> R]
    BY <2>2, LenProperties
  <2> QED
    BY <2>2, <2>3 DEF Range
<1>6. ASSUME NEW name \in Names, NEW arg \in {<<>>, <<"7">>, <<"s">>, <<"7", " ", "s">>},
             NEW gap \in {0, 1, 2}
      PROVE  name \o [k \in 1..gap |-> " "] \o arg \in Line
  <2>1. name \in Seq(R) /\ [k \in 1..gap |-> " "] \in Seq(R) /\ arg \in Seq(R)
    BY <1>3, <1>4, <1>5, Zenon
  <2>2. name \o [k \in 1..gap |-> " "] \in Seq(R)
    BY ONLY <2>1, ConcatProperties
  <2>3. name \o [k \in 1..gap |-> " "] \o arg \in Seq(R)
    BY ONLY <2>1, <2>2, ConcatProperties
  <2> QED
    BY <1>1, <2>3
<1> DEFINE Right(line) ==
             LET word == SubSeq(line, 1, Span(line, Range(scancode_to_ascii) \ {" "}))
             IN  Chosen(line) = IF word \in Range(WithArg) THEN <<word, SkipSpaces(Drop(line, Len(word)))>>
                                ELSE IF line = word /\ word \in Plain THEN <<word>> ELSE Unknown
<1>7. ASSUME NEW line \in Line PROVE Right(line)
  BY ONLY ChosenRight, line \in Line DEF FirstWord, NotSpace
<1> HIDE DEF Right
<1>8. \A name \in Names, arg \in {<<>>, <<"7">>, <<"s">>, <<"7", " ", "s">>}, gap \in {0, 1, 2} :
          Right(name \o [k \in 1..gap |-> " "] \o arg)
  BY ONLY <1>6, <1>7, Zenon
<1>9. \A name \in Names :
          /\ Range(name) \subseteq R
          /\ \A arg \in {<<>>, <<"7">>, <<"s">>, <<"7", " ", "s">>}, gap \in {0, 1, 2} :
                Right(name \o [k \in 1..gap |-> " "] \o arg)
  BY ONLY <1>5, <1>8, Zenon
<1> QED
  BY ONLY <1>9 DEF CommandsRight, R, Right
-----------------------------------------------------------------------------
\* The digits.
LEMMA DigitsDiffer ==
    /\ DOMAIN digits = 1..16 /\ DOMAIN Lower = 1..6
    /\ \A i, j \in 1..16 : digits[i] = digits[j] => i = j
    /\ \A i \in 1..16, j \in 1..6 : digits[i] # Lower[j]
    /\ digits[1] = "0"
<1>1. DOMAIN digits = 1..16 /\ DOMAIN Lower = 1..6 /\ digits[1] = "0"
  BY DEF digits, Lower
<1>2. \A i \in 1..16 : i \in {1, 2, 3, 4, 5, 6, 7, 8, 9, 10, 11, 12, 13, 14, 15, 16}
  OBVIOUS
<1>3. /\ digits[1] = "0" /\ digits[2] = "1" /\ digits[3] = "2" /\ digits[4] = "3" /\ digits[5] = "4"
      /\ digits[6] = "5" /\ digits[7] = "6" /\ digits[8] = "7" /\ digits[9] = "8" /\ digits[10] = "9"
      /\ digits[11] = "A" /\ digits[12] = "B" /\ digits[13] = "C" /\ digits[14] = "D"
      /\ digits[15] = "E" /\ digits[16] = "F"
  BY DEF digits
<1>4. ASSUME NEW i \in 1..16, NEW j \in 1..16, digits[i] = digits[j] PROVE i = j
  BY <1>2, <1>3, <1>4
<1>5. ASSUME NEW i \in 1..16, NEW j \in 1..6 PROVE digits[i] # Lower[j]
  <2>1. j \in {1, 2, 3, 4, 5, 6}
    OBVIOUS
  <2>2. /\ Lower[1] = "a" /\ Lower[2] = "b" /\ Lower[3] = "c" /\ Lower[4] = "d" /\ Lower[5] = "e"
        /\ Lower[6] = "f"
    BY DEF Lower
  <2> QED
    BY <1>2, <1>3, <2>1, <2>2
<1> QED
  BY <1>1, <1>4, <1>5

LEMMA DigitsRead ==
    /\ \A d \in 0..15 : digits[d + 1] \in Hexadecimal /\ DigitOf(digits[d + 1]) = d
    /\ \A d \in 0..9 : digits[d + 1] \in Decimal
    /\ Decimal \subseteq Hexadecimal
    /\ \A c \in Hexadecimal : DigitOf(c) \in Nat
<1>1. ASSUME NEW d \in 0..15 PROVE digits[d + 1] \in Hexadecimal /\ DigitOf(digits[d + 1]) = d
  <2>1. d + 1 \in 1..16 /\ (d + 1) - 1 = d
    OBVIOUS
  <2>2. digits[d + 1] \in Range(digits) /\ digits[d + 1] \notin Range(Lower)
    BY <2>1, DigitsDiffer DEF Range
  <2>3. (CHOOSE i \in 1..16 : digits[i] = digits[d + 1]) = d + 1
    BY <2>1, DigitsDiffer
  <2> QED
    BY <2>1, <2>2, <2>3 DEF DigitOf, Hexadecimal
<1>2. \A d \in 0..9 : digits[d + 1] \in Decimal
  BY DEF Decimal
<1>3. Decimal \subseteq Hexadecimal
  BY <1>1 DEF Decimal
<1>4. ASSUME NEW c \in Hexadecimal PROVE DigitOf(c) \in Nat
  <2>1. CASE c \in Range(Lower)
    <3>1. \E d \in 1..6 : Lower[d] = c
      BY <2>1, DigitsDiffer DEF Range
    <3>2. PICK d \in 1..6 : d = CHOOSE e \in 1..6 : Lower[e] = c
      BY <3>1
    <3>3. DigitOf(c) = 9 + d
      BY ONLY <2>1, <3>2, Zenon DEF DigitOf
    <3> QED
      BY <3>3
  <2>2. CASE c \notin Range(Lower)
    <3>1. \E d \in 1..16 : digits[d] = c
      BY <1>4, <2>2, DigitsDiffer DEF Range, Hexadecimal
    <3>2. PICK d \in 1..16 : d = CHOOSE e \in 1..16 : digits[e] = c
      BY <3>1
    <3>3. DigitOf(c) = d - 1
      BY ONLY <2>2, <3>2, Zenon DEF DigitOf
    <3> QED
      BY <3>3
  <2> QED
    BY <2>1, <2>2
<1> QED
  BY <1>1, <1>2, <1>3, <1>4

\* A space is no digit, nor is the letter that marks a hexadecimal number.
LEMMA NoDigits == {" ", "x", "X"} \cap Hexadecimal = {} /\ "0" \in Decimal
<1>1. "0" \in Decimal
  <2>1. 0 + 1 = 1 /\ 0 \in 0..9
    OBVIOUS
  <2>2. digits[1] = "0" /\ \A d \in 0..9 : digits[d + 1] \in Decimal
    BY ONLY DigitsDiffer, DigitsRead, Zenon
  <2> QED
    BY <2>1, <2>2, Zenon
<1>2. ASSUME NEW c \in Hexadecimal PROVE c \notin {" ", "x", "X"}
  <2>1. \/ \E d \in 1..16 : c = digits[d]
        \/ \E d \in 1..6 : c = Lower[d]
    <3>1. DOMAIN digits = 1..16 /\ DOMAIN Lower = 1..6
      BY ONLY DigitsDiffer, Zenon
    <3>2. c \in Hexadecimal
      BY <1>2
    <3> QED
      BY ONLY <3>1, <3>2, Zenon DEF Hexadecimal, Range
  <2>2. \/ \E d \in {1, 2, 3, 4, 5, 6, 7, 8, 9, 10, 11, 12, 13, 14, 15, 16} : c = digits[d]
        \/ \E d \in {1, 2, 3, 4, 5, 6} : c = Lower[d]
    BY <2>1
  <2>3. c \in {"0", "1", "2", "3", "4", "5", "6", "7", "8", "9", "A", "B", "C", "D", "E", "F",
               "a", "b", "c", "d", "e", "f"}
    BY <2>2 DEF digits, Lower
  <2> QED
    BY ONLY <2>3, Zenon
<1> QED
  BY <1>1, <1>2
-----------------------------------------------------------------------------
\* A number digit by digit.

\* What is left of a value, one digit after the other.
LeftBody(v, b, w) == [i \in Nat |-> IF i = 0 THEN v ELSE w[i - 1] \div b]
LEMMA LeftSteps ==
    ASSUME NEW v \in Nat, NEW b \in Nat \ {0}
    PROVE  /\ Left(v, b, 0) = v
           /\ \A n \in Nat : Left(v, b, n) \in Nat /\ Left(v, b, n + 1) = Left(v, b, n) \div b
<1> DEFINE step == [x \in Nat |-> x \div b]
<1>1. step \in [Nat -> Nat]
  OBVIOUS
<1>2. \A x \in Nat : step[x] = x \div b
  OBVIOUS
<1> HIDE DEF step
<1>3. PICK g \in [Nat -> Nat] : g[0] = v /\ \A k \in Nat : g[k + 1] = step[g[k]]
  <2>1. \E g \in [Nat -> Nat] : Iterates(g, step, v)
    BY <1>1, Iteration
  <2> QED
    BY <2>1 DEF Iterates
<1>4. g = LeftBody(v, b, g)
  <2>1. ASSUME NEW i \in Nat PROVE g[i] = IF i = 0 THEN v ELSE g[i - 1] \div b
    <3>1. CASE i = 0
      BY <1>3, <3>1
    <3>2. CASE i # 0
      <4>1. PICK k \in Nat : k = i - 1 /\ k + 1 = i
        BY <3>2
      <4>2. g[i] = step[g[k]] /\ g[k] \in Nat
        BY <1>3, <4>1
      <4>3. step[g[k]] = g[k] \div b
        BY <1>2, <4>2
      <4> QED
        BY <3>2, <4>1, <4>2, <4>3
    <3> QED
      BY <3>1, <3>2
  <2>2. g = [i \in Nat |-> g[i]]
    OBVIOUS
  <2> QED
    BY <2>1, <2>2 DEF LeftBody
<1> DEFINE left == CHOOSE w : w = LeftBody(v, b, w)
<1>5. left = LeftBody(v, b, left)
  BY <1>4
<1>6. \A n : Left(v, b, n) = left[n]
  BY DEF Left, LeftBody
<1> HIDE DEF left
<1>7. ASSUME NEW n \in Nat PROVE left[n] = IF n = 0 THEN v ELSE left[n - 1] \div b
  <2>1. LeftBody(v, b, left)[n] = IF n = 0 THEN v ELSE left[n - 1] \div b
    BY DEF LeftBody
  <2> QED
    BY <1>5, <2>1
<1>8. left[0] = v
  BY <1>7
<1>9. ASSUME NEW n \in Nat PROVE left[n + 1] = left[n] \div b
  <2>1. n + 1 \in Nat /\ n + 1 # 0 /\ (n + 1) - 1 = n
    OBVIOUS
  <2> QED
    BY <1>7, <2>1
<1>10. \A n \in Nat : left[n] \in Nat
  <2> DEFINE T == {n \in Nat : left[n] \in Nat}
  <2>1. 0 \in T
    BY <1>8
  <2>2. ASSUME NEW n \in Nat, n \in T PROVE n + 1 \in T
    <3>1. PICK x \in Nat : x = left[n]
      BY <2>2
    <3>2. x \div b \in Nat
      OBVIOUS
    <3> QED
      BY <1>9, <3>1, <3>2
  <2>3. Nat \subseteq T
    <3> HIDE DEF T
    <3> QED
      BY <2>1, <2>2, SetInduction
  <2> QED
    BY <2>3
<1> QED
  BY <1>6, <1>8, <1>9, <1>10

LEMMA DivideLess ==
    ASSUME NEW x \in Nat, NEW y \in Nat, NEW b \in Nat \ {0, 1}, x <= y
    PROVE  x \div b <= y \div b /\ (x > 0 => x \div b < x)
<1>1. PICK p \in Nat, q \in Nat : p = x \div b /\ q = y \div b
  OBVIOUS
<1>2. PICK r \in 0..(b - 1) : r = x % b /\ x = b * p + r
  BY <1>1
<1>3. PICK t \in 0..(b - 1) : t = y % b /\ y = b * q + t
  BY <1>1
<1>4. p <= q
  <2>1. SUFFICES ASSUME q + 1 <= p PROVE FALSE
    BY <1>1
  <2>2. b * (q + 1) <= b * p
    BY <2>1
  <2>3. b * (q + 1) = b * q + b
    OBVIOUS
  <2>4. b * p \in Nat /\ b * q \in Nat
    OBVIOUS
  <2> QED
    BY ONLY <1>2, <1>3, <2>2, <2>3, <2>4, x <= y, x \in Nat, y \in Nat, b \in Nat
<1>5. x > 0 => p < x
  <2>1. SUFFICES ASSUME x > 0, x <= p PROVE FALSE
    BY <1>1
  <2>2. b * p >= 2 * p
    OBVIOUS
  <2>3. b * p \in Nat
    OBVIOUS
  <2> QED
    BY ONLY <1>2, <2>1, <2>2, <2>3, x \in Nat, p \in Nat, b \in Nat
<1> QED
  BY <1>1, <1>4, <1>5

\* A value has a last digit, and a smaller one has none before it.
LEMMA LeftShrinks ==
    ASSUME NEW u \in Nat, NEW v \in Nat, u <= v, NEW b \in Nat \ {0, 1}
    PROVE  \A n \in Nat : /\ Left(v, b, n) = 0 \/ Left(v, b, n) + n <= v
                          /\ Left(u, b, n) <= Left(v, b, n)
<1> DEFINE T == {n \in Nat : /\ Left(v, b, n) = 0 \/ Left(v, b, n) + n <= v
                             /\ Left(u, b, n) <= Left(v, b, n)}
<1>1. 0 \in T
  BY LeftSteps
<1>2. ASSUME NEW n \in Nat, n \in T PROVE n + 1 \in T
  <2>1. PICK x \in Nat, y \in Nat : x = Left(u, b, n) /\ y = Left(v, b, n)
    BY LeftSteps
  <2>2. Left(u, b, n + 1) = x \div b /\ Left(v, b, n + 1) = y \div b
    BY <2>1, LeftSteps
  <2>3. x <= y /\ (y = 0 \/ y + n <= v)
    BY <1>2, <2>1
  <2>4. x \div b <= y \div b /\ (y > 0 => y \div b < y)
    BY <2>3, DivideLess
  <2>5. PICK p \in Nat, q \in Nat : p = x \div b /\ q = y \div b
    OBVIOUS
  <2>6. q <= y
    BY <2>4, <2>5, DivideLess
  <2>7. q = 0 \/ q + (n + 1) <= v
    BY <2>3, <2>4, <2>5, <2>6
  <2> QED
    BY <2>2, <2>4, <2>5, <2>7
<1>3. Nat \subseteq T
  <2> HIDE DEF T
  <2> QED
    BY <1>1, <1>2, SetInduction
<1> QED
  BY <1>3

\* utoa stops at the first digit.
LEMMA CountIs ==
    ASSUME NEW v \in Nat, NEW b \in Nat \ {0, 1}
    PROVE  \E n \in Nat \ {0} : Left(v, b, n) = 0 /\ utoa(v, b) = [k \in 1..n |-> Digit(v, b, n - k)]
<1> DEFINE First(n) == Left(v, b, n) = 0 /\ \A m \in 1..(n - 1) : Left(v, b, m) # 0
           T == {n \in 1..(v + 1) : Left(v, b, n) = 0}
           count == CHOOSE n \in 1..(v + 1) : First(n)
<1>1. v + 1 \in T
  <2>1. v + 1 \in 1..(v + 1) /\ v + 1 \in Nat
    OBVIOUS
  <2>2. PICK x \in Nat : x = Left(v, b, v + 1)
    BY <2>1, LeftSteps
  <2>3. x = 0 \/ x + (v + 1) <= v
    BY <2>1, <2>2, LeftShrinks
  <2> QED
    BY <2>1, <2>2, <2>3
<1>2. PICK m \in T : \A k \in T : m <= k
  <2>1. T \subseteq Nat
    OBVIOUS
  <2> HIDE DEF T
  <2> QED
    BY <1>1, <2>1, LeastElement
<1>3. First(m)
  <2>1. ASSUME NEW k \in 1..(m - 1) PROVE Left(v, b, k) # 0
    <3>1. k \in 1..(v + 1) /\ ~(m <= k)
      OBVIOUS
    <3>2. k \notin T
      BY <1>2, <3>1
    <3> QED
      BY <3>1, <3>2
  <2> QED
    BY <2>1
<1>4. count \in 1..(v + 1) /\ First(count)
  BY <1>3
<1>5. utoa(v, b) = [k \in 1..count |-> Digit(v, b, count - k)]
  BY DEF utoa
<1> HIDE DEF count
<1> QED
  BY <1>4, <1>5

\* What the digits read so far make.
Reads(s, b, h) ==
    /\ h \in [0..Len(s) -> Nat] /\ h[0] = 0 /\ Value(s, b) = h[Len(s)]
    /\ \A k \in 1..Len(s) : h[k] = (h[k - 1] * b + DigitOf(s[k])) % Word

ValueBody(s, b, w) ==
    [k \in 0..Len(s) |-> IF k = 0 THEN 0 ELSE (w[k - 1] * b + DigitOf(s[k])) % Word]

LEMMA ValueSteps ==
    ASSUME NEW s \in Seq(Hexadecimal), NEW b \in Nat
    PROVE  \E h : Reads(s, b, h)
<1> DEFINE n == Len(s)
           f == [x \in Nat \X (1..n) |-> (x[1] * b + DigitOf(s[x[2]])) % Word]
<1>1. n \in Nat /\ \A k \in 1..n : DigitOf(s[k]) \in Nat
  BY LenProperties, ElementOfSeq, DigitsRead
<1> HIDE DEF n
<1>2. f \in [Nat \X (1..n) -> Nat]
  <2>1. ASSUME NEW v \in Nat, NEW k \in 1..n PROVE (v * b + DigitOf(s[k])) % Word \in Nat
    <3>1. PICK d \in Nat : d = DigitOf(s[k])
      BY <1>1
    <3>2. v * b + d \in Nat /\ Word \in Nat \ {0}
      BY TypingAssumption
    <3>3. (v * b + d) % Word \in Nat
      BY <3>2
    <3> QED
      BY <3>1, <3>3
  <2>2. ASSUME NEW x \in Nat \X (1..n) PROVE (x[1] * b + DigitOf(s[x[2]])) % Word \in Nat
    BY <2>1
  <2> QED
    BY ONLY <2>2
<1>3. \A v \in Nat, k \in 1..n : f[<<v, k>>] = (v * b + DigitOf(s[k])) % Word
  OBVIOUS
<1> HIDE DEF f
<1>4. PICK g \in [0..n -> Nat] : g = [k \in 0..n |-> IF k = 0 THEN 0 ELSE f[<<g[k - 1], k>>]]
  <2>1. \E g \in [0..n -> Nat] : Accumulates(g, n, f, 0)
    BY <1>1, <1>2, Accumulation
  <2> QED
    BY <2>1 DEF Accumulates
<1>5. g = ValueBody(s, b, g)
  <2>1. ASSUME NEW k \in 0..n
        PROVE  g[k] = IF k = 0 THEN 0 ELSE (g[k - 1] * b + DigitOf(s[k])) % Word
    <3>1. CASE k = 0
      BY <1>1, <1>4, <3>1
    <3>2. CASE k # 0
      <4>1. k \in 1..n /\ k - 1 \in 0..n
        BY <1>1, <3>2
      <4>2. g[k] = f[<<g[k - 1], k>>]
        BY <1>4, <3>2
      <4> QED
        BY <1>3, <3>2, <4>1, <4>2
    <3> QED
      BY <3>1, <3>2
  <2>2. g = [k \in 0..n |-> g[k]]
    OBVIOUS
  <2> QED
    BY <2>1, <2>2 DEF ValueBody, n
<1> DEFINE h == CHOOSE w : w = ValueBody(s, b, w)
<1>6. h = ValueBody(s, b, h)
  BY <1>5
<1>7. Value(s, b) = h[n]
  BY DEF Value, ValueBody, n
<1> HIDE DEF h
<1>8. DOMAIN h = 0..n /\ \A k \in 0..n : h[k] = IF k = 0 THEN 0 ELSE (h[k - 1] * b + DigitOf(s[k])) % Word
  <2>1. DOMAIN ValueBody(s, b, h) = 0..n
    BY DEF ValueBody, n
  <2>2. ASSUME NEW k \in 0..n
        PROVE  ValueBody(s, b, h)[k] = IF k = 0 THEN 0 ELSE (h[k - 1] * b + DigitOf(s[k])) % Word
    BY DEF ValueBody, n
  <2> QED
    BY <1>6, <2>1, <2>2
<1>9. \A k \in 0..n : h[k] \in Nat
  <2> DEFINE T == {k \in Nat : k <= n => h[k] \in Nat}
  <2>1. 0 \in T
    BY <1>1, <1>8
  <2>2. ASSUME NEW k \in Nat, k \in T PROVE k + 1 \in T
    <3>1. SUFFICES ASSUME k + 1 <= n PROVE h[k + 1] \in Nat
      OBVIOUS
    <3>2. k + 1 \in 0..n /\ k + 1 \in 1..n /\ k + 1 # 0 /\ (k + 1) - 1 = k /\ k <= n
      BY <1>1, <3>1
    <3>3. PICK x \in Nat, d \in Nat : x = h[k] /\ d = DigitOf(s[k + 1])
      BY <1>1, <2>2, <3>2
    <3>4. h[k + 1] = (x * b + d) % Word
      BY <1>8, <3>2, <3>3
    <3>5. x * b + d \in Nat /\ Word \in Nat \ {0}
      BY TypingAssumption
    <3> QED
      BY <3>4, <3>5
  <2>3. Nat \subseteq T
    <3> HIDE DEF T
    <3> QED
      BY <2>1, <2>2, SetInduction
  <2> QED
    BY <1>1, <2>3
<1>10. h \in [0..n -> Nat]
  <2>1. h = [k \in 0..n |-> h[k]]
    BY <1>6 DEF ValueBody, n
  <2> QED
    BY <1>9, <2>1
<1>11. \A k \in 1..n : h[k] = (h[k - 1] * b + DigitOf(s[k])) % Word
  BY <1>1, <1>8
<1>12. h[0] = 0
  BY <1>1, <1>8
<1>13. Reads(s, b, h)
  BY <1>7, <1>10, <1>11, <1>12 DEF Reads, n
<1> QED
  BY <1>13

\* The digits that were taken off a value make it again.
LEMMA ReadBack ==
    ASSUME NEW v \in 0..(Word - 1), NEW b \in 2..16, NEW n \in Nat, Left(v, b, n) = 0
    PROVE  LET row == [k \in 1..n |-> Digit(v, b, n - k)]
           IN  /\ row \in Seq(Hexadecimal) /\ Len(row) = n
               /\ b <= 10 => row \in Seq(Decimal)
               /\ Value(row, b) = v
<1> DEFINE row == [k \in 1..n |-> Digit(v, b, n - k)]
<1>1. /\ Word \in Nat \ {0} /\ v \in Nat /\ v < Word /\ b \in Nat \ {0, 1} /\ b - 1 <= 15
      /\ b <= 10 => b - 1 <= 9
  BY TypingAssumption
<1>2. /\ Left(v, b, 0) = v
      /\ \A i \in Nat : Left(v, b, i) \in Nat /\ Left(v, b, i + 1) = Left(v, b, i) \div b
  BY <1>1, LeftSteps
<1>3. ASSUME NEW k \in 1..n
      PROVE  /\ row[k] \in Hexadecimal /\ (b <= 10 => row[k] \in Decimal)
             /\ DigitOf(row[k]) = Left(v, b, n - k) % b
  <2>1. PICK x \in Nat : x = Left(v, b, n - k)
    BY <1>2
  <2>2. PICK d \in 0..15 : d = x % b /\ (b <= 10 => d \in 0..9)
    <3>1. x % b \in 0..(b - 1)
      BY <1>1
    <3> QED
      BY <1>1, <3>1
  <2>3. row[k] = digits[d + 1]
    BY <2>1, <2>2 DEF Digit
  <2>4. digits[d + 1] \in Hexadecimal /\ DigitOf(digits[d + 1]) = d
    BY DigitsRead
  <2>5. b <= 10 => digits[d + 1] \in Decimal
    BY <2>2, DigitsRead
  <2> HIDE DEF row
  <2> QED
    BY <2>1, <2>2, <2>3, <2>4, <2>5
<1>4. \A S : (\A k \in 1..n : row[k] \in S) => row \in Seq(S) /\ Len(row) = n
  OBVIOUS
<1>5. \A k \in 1..n : row[k] \in Hexadecimal
  BY <1>3
<1>6. row \in Seq(Hexadecimal) /\ Len(row) = n
  BY <1>4, <1>5
<1>7. b <= 10 => row \in Seq(Decimal)
  BY <1>3, <1>4
<1> HIDE DEF row
<1>8. PICK h : Reads(row, b, h)
  BY <1>1, <1>6, ValueSteps
<1>9. /\ h \in [0..n -> Nat] /\ h[0] = 0 /\ Value(row, b) = h[n]
      /\ \A k \in 1..n : h[k] = (h[k - 1] * b + DigitOf(row[k])) % Word
  BY <1>6, <1>8 DEF Reads
<1>10. ASSUME NEW i \in Nat PROVE Left(v, b, i) < Word
  <2>1. v <= v
    BY <1>1
  <2>2. Left(v, b, i) = 0 \/ Left(v, b, i) + i <= v
    BY <1>1, <2>1, LeftShrinks
  <2>3. Left(v, b, i) \in Nat
    BY <1>2
  <2> QED
    BY <1>1, <2>2, <2>3
<1> DEFINE T == {k \in Nat : k <= n => h[k] = Left(v, b, n - k)}
<1>11. 0 \in T
  <2>1. n - 0 = n
    OBVIOUS
  <2> QED
    BY <1>9, <2>1
<1>12. ASSUME NEW k \in Nat, k \in T PROVE k + 1 \in T
  <2>1. SUFFICES ASSUME k + 1 <= n PROVE h[k + 1] = Left(v, b, n - (k + 1))
    OBVIOUS
  <2>2. PICK i \in Nat : i = n - (k + 1) /\ i + 1 = n - k
    BY <2>1
  <2>3. k + 1 \in 1..n /\ (k + 1) - 1 = k /\ k <= n
    BY <2>1
  <2>4. PICK x \in Nat : x = Left(v, b, i) /\ x < Word
    BY <1>2, <1>10
  <2>5. h[k] = x \div b /\ DigitOf(row[k + 1]) = x % b
    BY <1>2, <1>3, <1>12, <2>2, <2>3, <2>4
  <2>6. h[k + 1] = ((x \div b) * b + (x % b)) % Word
    BY <1>9, <2>3, <2>5
  <2>7. (x \div b) * b + (x % b) = x
    BY <1>1
  <2>8. x % Word = x
    BY <1>1, <2>4
  <2> QED
    BY <2>2, <2>4, <2>6, <2>7, <2>8
<1>13. n \in T
  <2>1. Nat \subseteq T
    <3> HIDE DEF T
    <3> QED
      BY <1>11, <1>12, SetInduction
  <2> QED
    BY <2>1
<1>14. Value(row, b) = v
  <2>1. n - n = 0
    OBVIOUS
  <2> QED
    BY <1>2, <1>9, <1>13, <2>1
<1> QED
  BY <1>6, <1>7, <1>14 DEF row
-----------------------------------------------------------------------------
\* A number in a text.
Blank == " "

\* From the place w of s to the place q are characters of S, after them only spaces.
RowAt(s, S, w, q) ==
    /\ \A k \in (w + 1)..q : s[k] \in S
    /\ \A k \in (q + 1)..Len(s) : s[k] = Blank

\* The spaces are all there is.
LEMMA SkippedAll ==
    ASSUME NEW A, NEW s \in Seq(A)
    PROVE  SkipSpaces(s) = <<>> <=> \A k \in 1..Len(s) : s[k] = Blank
<1> DEFINE p == Span(s, {Blank})
<1>1. /\ Len(s) \in Nat /\ p \in 0..Len(s) /\ Ends(s, {Blank}, p)
      /\ \A n \in 0..Len(s) : Ends(s, {Blank}, n) => n = p
  BY LenProperties, SpanEnds
<1>2. SkipSpaces(s) = Drop(s, p)
  BY DEF SkipSpaces, Blank
<1> HIDE DEF p
<1>3. Drop(s, p) \in Seq(A) /\ Len(Drop(s, p)) = Len(s) - p
  BY <1>1, DropIs DEF IsPart
<1>4. Drop(s, p) = <<>> <=> p = Len(s)
  <2>1. Drop(s, p) = <<>> <=> Len(Drop(s, p)) = 0
    BY <1>3, EmptySeq
  <2>2. Len(s) - p = 0 <=> p = Len(s)
    BY <1>1
  <2> QED
    BY ONLY <1>3, <2>1, <2>2
<1>5. p = Len(s) <=> \A k \in 1..Len(s) : s[k] = Blank
  <2>1. ASSUME \A k \in 1..Len(s) : s[k] = Blank PROVE p = Len(s)
    <3>1. Len(s) \in 0..Len(s) /\ ~(Len(s) < Len(s))
      BY <1>1
    <3>2. Ends(s, {Blank}, Len(s))
      BY <2>1, <3>1, Zenon DEF Ends
    <3> QED
      BY ONLY <1>1, <3>1, <3>2
  <2>2. ASSUME p = Len(s) PROVE \A k \in 1..Len(s) : s[k] = Blank
    BY <1>1, <2>2, Zenon DEF Ends
  <2> QED
    BY <2>1, <2>2
<1> QED
  BY <1>2, <1>4, <1>5

\* A number is read just if a row of digits is there, and it is the value of that row.
LEMMA RowReads ==
    ASSUME NEW A, NEW s \in Seq(A), NEW w \in 0..Len(s), NEW S, Blank \notin S, NEW base
    PROVE  LET r == Number(Drop(s, w), S, base)
           IN  /\ r = [ok |-> r.ok, val |-> r.val] /\ r.ok \in BOOLEAN
               /\ r.ok <=> \E q \in (w + 1)..Len(s) : RowAt(s, S, w, q)
               /\ \A q \in (w + 1)..Len(s) :
                    RowAt(s, S, w, q) => r.val = Value(SubSeq(s, w + 1, q), base)
<1> DEFINE t == Drop(s, w)
           n == Span(t, S)
           r == Number(t, S, base)
           rest == Drop(t, n)
<1>1. /\ Len(s) \in Nat /\ w \in Nat /\ w <= Len(s) /\ t \in Seq(A) /\ Len(t) = Len(s) - w
      /\ \A k \in 1..(Len(s) - w) : t[k] = s[w + k]
  <2>1. Len(s) \in Nat
    BY LenProperties
  <2>2. IsPart(A, s, w, Len(s), t)
    BY DropIs, Zenon
  <2> HIDE DEF t
  <2> QED
    BY <2>1, <2>2 DEF IsPart
<1> HIDE DEF t
<1>2. /\ n \in 0..Len(t) /\ Ends(t, S, n) /\ \A m \in 0..Len(t) : Ends(t, S, m) => m = n
  BY <1>1, SpanEnds
<1>3. /\ r = [ok |-> n > 0 /\ SkipSpaces(rest) = <<>>, val |-> Value(SubSeq(t, 1, n), base)]
  BY DEF Number
<1>4. /\ r.ok <=> n > 0 /\ SkipSpaces(rest) = <<>>
      /\ r.val = Value(SubSeq(t, 1, n), base)
      /\ r = [ok |-> r.ok, val |-> r.val] /\ r.ok \in BOOLEAN
  <2>1. ASSUME NEW R, NEW b \in BOOLEAN, NEW v, R = [ok |-> b, val |-> v]
        PROVE  (R.ok <=> b) /\ R.val = v /\ R = [ok |-> R.ok, val |-> R.val] /\ R.ok \in BOOLEAN
    BY <2>1
  <2>2. (n > 0 /\ SkipSpaces(rest) = <<>>) \in BOOLEAN
    OBVIOUS
  <2> HIDE DEF r, n, rest
  <2> QED
    BY ONLY <1>3, <2>1, <2>2
<1> HIDE DEF r, n
<1>5. /\ rest \in Seq(A) /\ Len(rest) = Len(t) - n /\ \A k \in 1..(Len(t) - n) : rest[k] = t[n + k]
  <2>1. IsPart(A, t, n, Len(t), rest)
    BY <1>1, <1>2, DropIs, Zenon
  <2> HIDE DEF rest
  <2> QED
    BY ONLY <2>1 DEF IsPart
<1>6. SkipSpaces(rest) = <<>> <=> \A k \in 1..Len(rest) : rest[k] = Blank
  BY <1>5, SkippedAll
<1> HIDE DEF rest
<1>7. ASSUME NEW q \in (w + 1)..Len(s), RowAt(s, S, w, q) PROVE q = w + n
  <2>1. q - w \in 0..Len(t) /\ q - w \in Nat
    BY <1>1
  <2>2. ASSUME NEW k \in 1..(q - w) PROVE t[k] \in S
    <3>1. k \in 1..(Len(s) - w) /\ w + k \in (w + 1)..q
      BY <1>1
    <3> QED
      BY <1>1, <1>7, <3>1 DEF RowAt
  <2>3. ASSUME q - w < Len(t) PROVE t[(q - w) + 1] \notin S
    <3>1. (q - w) + 1 \in 1..(Len(s) - w) /\ w + ((q - w) + 1) = q + 1 /\ q + 1 \in (q + 1)..Len(s)
      BY <1>1, <2>3
    <3>2. s[q + 1] = Blank
      BY <1>7, <3>1 DEF RowAt
    <3> QED
      BY <1>1, <3>1, <3>2
  <2>4. Ends(t, S, q - w)
    BY <2>2, <2>3 DEF Ends
  <2>5. q - w = n
    BY ONLY <1>2, <2>1, <2>4
  <2> QED
    BY <1>1, <2>5
<1>8. ASSUME n > 0, SkipSpaces(rest) = <<>> PROVE w + n \in (w + 1)..Len(s) /\ RowAt(s, S, w, w + n)
  <2>1. w + n \in (w + 1)..Len(s) /\ n \in Nat
    BY <1>1, <1>2, <1>8
  <2>2. ASSUME NEW k \in (w + 1)..(w + n) PROVE s[k] \in S
    <3>1. k - w \in 1..n /\ k - w \in 1..(Len(s) - w) /\ w + (k - w) = k
      BY <1>1, <1>2
    <3> QED
      BY <1>1, <1>2, <3>1 DEF Ends
  <2>3. ASSUME NEW k \in ((w + n) + 1)..Len(s) PROVE s[k] = Blank
    <3>1. /\ k - (w + n) \in 1..(Len(t) - n) /\ k - w \in 1..(Len(s) - w) /\ w + (k - w) = k
          /\ n + (k - (w + n)) = k - w
      BY <1>1, <1>2
    <3>2. rest[k - (w + n)] = Blank
      BY <1>5, <1>6, <1>8, <3>1
    <3> QED
      BY <1>1, <1>5, <3>1, <3>2
  <2> QED
    BY <2>1, <2>2, <2>3 DEF RowAt
<1>9. ASSUME NEW q \in (w + 1)..Len(s), RowAt(s, S, w, q)
      PROVE  n > 0 /\ SkipSpaces(rest) = <<>>
  <2>1. q = w + n /\ n \in Nat /\ n > 0
    BY <1>1, <1>2, <1>7, <1>9
  <2>2. ASSUME NEW k \in 1..Len(rest) PROVE rest[k] = Blank
    <3>1. k \in 1..(Len(t) - n) /\ n + k \in 1..(Len(s) - w) /\ w + (n + k) \in (q + 1)..Len(s)
      BY <1>1, <1>2, <1>5, <2>1
    <3> QED
      BY <1>1, <1>5, <1>9, <3>1 DEF RowAt
  <2> QED
    BY <1>6, <2>1, <2>2
<1>10. ASSUME NEW q \in (w + 1)..Len(s), RowAt(s, S, w, q)
       PROVE  SubSeq(t, 1, n) = SubSeq(s, w + 1, q)
  <2>1. q = w + n /\ q \in w..Len(s) /\ q - w = n /\ n \in Nat /\ n <= Len(s) - w
    BY <1>1, <1>2, <1>7, <1>10
  <2>2. /\ SubSeq(t, 1, n) \in Seq(A) /\ Len(SubSeq(t, 1, n)) = n
        /\ \A k \in 1..n : SubSeq(t, 1, n)[k] = t[k]
    BY <1>1, <1>2, TakeIs
  <2>3. /\ SubSeq(s, w + 1, q) \in Seq(A) /\ Len(SubSeq(s, w + 1, q)) = q - w
        /\ \A k \in 1..(q - w) : SubSeq(s, w + 1, q)[k] = s[w + k]
    <3>1. IsPart(A, s, w, q, SubSeq(s, w + 1, q))
      BY <2>1, PartIs, Zenon
    <3> QED
      BY ONLY <3>1 DEF IsPart
  <2>4. \A k \in 1..n : SubSeq(t, 1, n)[k] = SubSeq(s, w + 1, q)[k]
    BY <1>1, <2>1, <2>2, <2>3
  <2> QED
    BY ONLY <2>1, <2>2, <2>3, <2>4, SeqEqual
<1>11. r.ok <=> \E q \in (w + 1)..Len(s) : RowAt(s, S, w, q)
  BY ONLY <1>4, <1>8, <1>9
<1>12. ASSUME NEW q \in (w + 1)..Len(s), RowAt(s, S, w, q)
       PROVE  r.val = Value(SubSeq(s, w + 1, q), base)
  BY ONLY <1>4, <1>10, <1>12
<1> QED
  BY <1>4, <1>11, <1>12 DEF r, t

\* The text t after p spaces, and then only spaces.
Around(s, t, p) ==
    /\ p + Len(t) <= Len(s)
    /\ \A k \in 1..Len(t) : s[p + k] = t[k]
    /\ \A k \in 1..p : s[k] = Blank
    /\ \A k \in (p + Len(t) + 1)..Len(s) : s[k] = Blank

\* One text after the other.
IsJoin(S, a, m, b, n, c) ==
    /\ c \in Seq(S) /\ Len(c) = m + n
    /\ \A i \in 1..(m + n) : c[i] = IF i <= m THEN a[i] ELSE b[i - m]

LEMMA JoinIs ==
    ASSUME NEW S, NEW a \in Seq(S), NEW b \in Seq(S), NEW m, NEW n, Len(a) = m, Len(b) = n
    PROVE  IsJoin(S, a, m, b, n, a \o b)
BY ConcatProperties DEF IsJoin

LEMMA PaddedIs ==
    ASSUME NEW A, NEW s \in Seq(A), NEW t \in Seq(A)
    PROVE  Padded(s, t) <=> \E p \in 0..Len(s) : Around(s, t, p)
<1> DEFINE B == A \cup {Blank}
           Row(n) == [k \in 1..n |-> Blank]
           Joined(l, r) == Row(l) \o t \o Row(r)
<1>1. s \in Seq(B) /\ t \in Seq(B) /\ Len(s) \in Nat /\ Len(t) \in Nat
  BY LenProperties, SeqMonotonic
<1>2. \A n \in Nat : Row(n) \in Seq(B) /\ Len(Row(n)) = n /\ \A k \in 1..n : Row(n)[k] = Blank
  OBVIOUS
<1>3. Padded(s, t) <=> \E l, r \in 0..Len(s) : l + r + Len(t) = Len(s) /\ s = Joined(l, r)
  BY DEF Padded, Blank
<1> HIDE DEF B, Row
<1>4. ASSUME NEW l \in Nat, NEW r \in Nat
      PROVE  /\ Joined(l, r) \in Seq(B) /\ Len(Joined(l, r)) = l + Len(t) + r
             /\ \A k \in 1..l : Joined(l, r)[k] = Blank
             /\ \A k \in 1..Len(t) : Joined(l, r)[l + k] = t[k]
             /\ \A k \in (l + Len(t) + 1)..(l + Len(t) + r) : Joined(l, r)[k] = Blank
  <2> DEFINE front == Row(l) \o t
  <2>1. Row(l) \in Seq(B) /\ Len(Row(l)) = l /\ Row(r) \in Seq(B) /\ Len(Row(r)) = r
    BY <1>2
  <2>2. /\ front \in Seq(B) /\ Len(front) = l + Len(t)
        /\ \A i \in 1..(l + Len(t)) : front[i] = IF i <= l THEN Row(l)[i] ELSE t[i - l]
    <3>1. IsJoin(B, Row(l), l, t, Len(t), front)
      BY ONLY <1>1, <2>1, JoinIs, Zenon
    <3> HIDE DEF front
    <3> QED
      BY ONLY <3>1 DEF IsJoin
  <2> HIDE DEF front
  <2>3. /\ front \o Row(r) \in Seq(B) /\ Len(front \o Row(r)) = l + Len(t) + r
        /\ \A i \in 1..(l + Len(t) + r) :
              (front \o Row(r))[i] = IF i <= l + Len(t) THEN front[i] ELSE Row(r)[i - (l + Len(t))]
    <3>1. IsJoin(B, front, l + Len(t), Row(r), r, front \o Row(r))
      BY ONLY <2>1, <2>2, JoinIs, Zenon
    <3> QED
      BY ONLY <3>1 DEF IsJoin
  <2>4. Joined(l, r) = front \o Row(r)
    BY DEF front
  <2> HIDE DEF Joined
  <2>5. ASSUME NEW k \in 1..l PROVE Joined(l, r)[k] = Blank
    <3>1. k \in 1..(l + Len(t) + r) /\ k \in 1..(l + Len(t)) /\ k <= l /\ k <= l + Len(t)
      BY <1>1
    <3> QED
      BY <1>2, <2>2, <2>3, <2>4, <3>1
  <2>6. ASSUME NEW k \in 1..Len(t) PROVE Joined(l, r)[l + k] = t[k]
    <3>1. /\ l + k \in 1..(l + Len(t) + r) /\ l + k \in 1..(l + Len(t)) /\ ~(l + k <= l)
          /\ l + k <= l + Len(t) /\ (l + k) - l = k
      BY <1>1
    <3> QED
      BY <2>2, <2>3, <2>4, <3>1
  <2>7. ASSUME NEW k \in (l + Len(t) + 1)..(l + Len(t) + r) PROVE Joined(l, r)[k] = Blank
    <3>1. k \in 1..(l + Len(t) + r) /\ ~(k <= l + Len(t)) /\ k - (l + Len(t)) \in 1..r
      BY <1>1
    <3> QED
      BY <1>2, <2>3, <2>4, <3>1
  <2> QED
    BY <2>3, <2>4, <2>5, <2>6, <2>7
<1> HIDE DEF Joined
<1>5. ASSUME NEW l \in 0..Len(s), NEW r \in 0..Len(s), l + r + Len(t) = Len(s), s = Joined(l, r)
      PROVE  Around(s, t, l)
  <2>1. /\ l \in Nat /\ r \in Nat /\ l + Len(t) + r = Len(s) /\ l + Len(t) <= Len(s)
    BY <1>1, <1>5
  <2> QED
    BY <1>4, <1>5, <2>1 DEF Around
<1>6. ASSUME NEW p \in 0..Len(s), Around(s, t, p)
      PROVE  \E l, r \in 0..Len(s) : l + r + Len(t) = Len(s) /\ s = Joined(l, r)
  <2>1. PICK r \in 0..Len(s) : p + r + Len(t) = Len(s) /\ p + Len(t) + r = Len(s)
    <3>1. Len(s) - (p + Len(t)) \in 0..Len(s)
      BY <1>1, <1>6 DEF Around
    <3>2. p + (Len(s) - (p + Len(t))) + Len(t) = Len(s) /\ p + Len(t) + (Len(s) - (p + Len(t))) = Len(s)
      BY <1>1
    <3> QED
      BY <3>1, <3>2
  <2>2. p \in Nat /\ r \in Nat
    BY <1>1
  <2>3. /\ Joined(p, r) \in Seq(B) /\ Len(Joined(p, r)) = Len(s)
        /\ \A k \in 1..p : Joined(p, r)[k] = Blank
        /\ \A k \in 1..Len(t) : Joined(p, r)[p + k] = t[k]
        /\ \A k \in (p + Len(t) + 1)..Len(s) : Joined(p, r)[k] = Blank
    <3>1. /\ Joined(p, r) \in Seq(B) /\ Len(Joined(p, r)) = p + Len(t) + r
          /\ \A k \in 1..p : Joined(p, r)[k] = Blank
          /\ \A k \in 1..Len(t) : Joined(p, r)[p + k] = t[k]
          /\ \A k \in (p + Len(t) + 1)..(p + Len(t) + r) : Joined(p, r)[k] = Blank
      BY ONLY <1>4, <2>2
    <3> QED
      BY ONLY <2>1, <3>1, Zenon
  <2>4. ASSUME NEW k \in 1..Len(s) PROVE s[k] = Joined(p, r)[k]
    <3>1. k \in 1..p \/ k \in (p + Len(t) + 1)..Len(s) \/ (k - p \in 1..Len(t) /\ p + (k - p) = k)
      BY <1>1, <2>2
    <3> QED
      BY <1>6, <2>3, <3>1 DEF Around
  <2>5. s = Joined(p, r)
    BY ONLY <1>1, <2>3, <2>4, SeqEqual
  <2> QED
    BY <2>1, <2>5
<1>7. ASSUME \E l, r \in 0..Len(s) : l + r + Len(t) = Len(s) /\ s = Joined(l, r)
      PROVE  \E p \in 0..Len(s) : Around(s, t, p)
  BY ONLY <1>5, <1>7
<1> QED
  BY ONLY <1>3, <1>6, <1>7

\* The parts of a text.
LEMMA InnerIs ==
    ASSUME NEW A, NEW s \in Seq(A)
    PROVE  /\ \A t \in Inner(s) : t \in Seq(A) /\ Len(t) \in Nat \ {0}
           /\ \A w \in 0..Len(s) : \A q \in (w + 1)..Len(s) : SubSeq(s, w + 1, q) \in Inner(s)
<1>1. Len(s) \in Nat
  BY LenProperties
<1>2. ASSUME NEW t \in Inner(s) PROVE t \in Seq(A) /\ Len(t) \in Nat \ {0}
  <2>1. PICK m \in 1..Len(s), n \in 1..Len(s) : t = SubSeq(s, m, n) /\ t # <<>>
    BY <1>2 DEF Inner
  <2>2. \A i \in m..n : s[i] \in A
    BY <1>1, ElementOfSeq
  <2>3. t \in Seq(A)
    BY <1>1, <2>1, <2>2, SubSeqProperties
  <2> QED
    BY <2>1, <2>3, EmptySeq
<1>3. ASSUME NEW w \in 0..Len(s), NEW q \in (w + 1)..Len(s) PROVE SubSeq(s, w + 1, q) \in Inner(s)
  <2>1. w + 1 \in 1..Len(s) /\ q \in 1..Len(s) /\ q \in w..Len(s) /\ q - w # 0
    BY <1>1
  <2>2. SubSeq(s, w + 1, q) # <<>>
    <3>1. IsPart(A, s, w, q, SubSeq(s, w + 1, q))
      BY <2>1, PartIs, Zenon
    <3> QED
      BY <2>1, <3>1, EmptySeq DEF IsPart
  <2> QED
    BY <2>1, <2>2 DEF Inner
<1> QED
  BY <1>2, <1>3

\* The text starts after the spaces.
LEMMA StartIs ==
    ASSUME NEW A, NEW s \in Seq(A)
    PROVE  LET p == Span(s, {Blank})
           IN  /\ p \in 0..Len(s) /\ SkipSpaces(s) = Drop(s, p)
               /\ \A k \in 1..p : s[k] = Blank
               /\ p < Len(s) => s[p + 1] # Blank
               /\ \A m \in 0..Len(s) :
                     (\A k \in 1..m : s[k] = Blank) /\ (m < Len(s) => s[m + 1] # Blank) => m = p
<1> DEFINE p == Span(s, {Blank})
<1>1. /\ p \in 0..Len(s) /\ Ends(s, {Blank}, p)
      /\ \A n \in 0..Len(s) : Ends(s, {Blank}, n) => n = p
  BY SpanEnds
<1>2. SkipSpaces(s) = Drop(s, p)
  BY DEF SkipSpaces, Blank
<1>3. \A x : x \in {Blank} <=> x = Blank
  OBVIOUS
<1> HIDE DEF p
<1>4. (\A k \in 1..p : s[k] = Blank) /\ (p < Len(s) => s[p + 1] # Blank)
  BY ONLY <1>1, <1>3, Zenon DEF Ends
<1>5. ASSUME NEW m \in 0..Len(s), \A k \in 1..m : s[k] = Blank, m < Len(s) => s[m + 1] # Blank
      PROVE  m = p
  <2>1. Ends(s, {Blank}, m)
    BY ONLY <1>3, <1>5, Zenon DEF Ends
  <2> QED
    BY <1>1, <2>1
<1> QED
  BY <1>1, <1>2, <1>4, <1>5 DEF p

\* A row of digits in a text, after a mark between them and the spaces or none: around
\* the row is nothing else, and the row is what stands there.
StandsAt(s, S, mark, p, t) ==
    (\A k \in 1..Len(t) : t[k] \in S) /\ t # <<>> /\ Around(s, mark \o t, p)

ReadAt(s, S, mark, p, w, t) ==
    /\ \A k \in 1..p : s[k] = Blank
    /\ \A k \in 1..Len(mark) : s[p + k] = mark[k]
    /\ \E q \in (w + 1)..Len(s) : RowAt(s, S, w, q) /\ t = SubSeq(s, w + 1, q)

LEMMA RowAround ==
    ASSUME NEW A, NEW s \in Seq(A), NEW S, Blank \notin S, NEW t \in Seq(A),
           NEW mark \in Seq(A), NEW p \in 0..Len(s),
           NEW w \in 0..Len(s), w = p + Len(mark), mark \o t \in Seq(A)
    PROVE  StandsAt(s, S, mark, p, t) <=> ReadAt(s, S, mark, p, w, t)
<1> DEFINE u == mark \o t
<1>1. /\ Len(s) \in Nat /\ Len(t) \in Nat /\ Len(mark) \in Nat /\ p \in Nat /\ w \in Nat
      /\ Len(u) = Len(mark) + Len(t)
      /\ \A k \in 1..Len(mark) : u[k] = mark[k]
      /\ \A k \in 1..Len(t) : u[Len(mark) + k] = t[k]
  <2>1. /\ Len(s) \in Nat /\ Len(t) \in Nat /\ Len(mark) \in Nat /\ p \in Nat /\ w \in Nat
    BY LenProperties
  <2>2. /\ Len(u) = Len(mark) + Len(t)
        /\ \A k \in 1..(Len(mark) + Len(t)) : u[k] = IF k <= Len(mark) THEN mark[k] ELSE t[k - Len(mark)]
    <3>1. IsJoin(A, mark, Len(mark), t, Len(t), u)
      BY JoinIs, Zenon
    <3> HIDE DEF u
    <3> QED
      BY ONLY <3>1 DEF IsJoin
  <2> HIDE DEF u
  <2>3. ASSUME NEW k \in 1..Len(mark) PROVE u[k] = mark[k]
    <3>1. k \in 1..(Len(mark) + Len(t)) /\ k <= Len(mark)
      BY <2>1
    <3> QED
      BY <2>2, <3>1
  <2>4. ASSUME NEW k \in 1..Len(t) PROVE u[Len(mark) + k] = t[k]
    <3>1. /\ Len(mark) + k \in 1..(Len(mark) + Len(t)) /\ ~(Len(mark) + k <= Len(mark))
          /\ (Len(mark) + k) - Len(mark) = k
      BY <2>1
    <3> QED
      BY <2>2, <3>1
  <2> QED
    BY <2>1, <2>2, <2>3, <2>4
<1> HIDE DEF u
<1>2. ASSUME \A k \in 1..Len(t) : t[k] \in S, t # <<>>, Around(s, u, p)
      PROVE  /\ \A k \in 1..p : s[k] = Blank
             /\ \A k \in 1..Len(mark) : s[p + k] = mark[k]
             /\ \E q \in (w + 1)..Len(s) : RowAt(s, S, w, q) /\ t = SubSeq(s, w + 1, q)
  <2>1. /\ p + Len(u) <= Len(s) /\ \A k \in 1..Len(u) : s[p + k] = u[k]
        /\ \A k \in 1..p : s[k] = Blank
        /\ \A k \in (p + Len(u) + 1)..Len(s) : s[k] = Blank
    BY <1>2 DEF Around
  <2>2. \A k \in 1..Len(mark) : s[p + k] = mark[k]
    BY <1>1, <2>1
  <2>3. \A k \in 1..Len(t) : s[w + k] = t[k]
    <3>1. ASSUME NEW k \in 1..Len(t) PROVE s[w + k] = t[k]
      <4>1. Len(mark) + k \in 1..Len(u) /\ p + (Len(mark) + k) = w + k
        BY <1>1
      <4> QED
        BY <1>1, <2>1, <4>1
    <3> QED
      BY <3>1
  <2>4. Len(t) # 0
    BY <1>2, EmptySeq
  <2>5. PICK q \in (w + 1)..Len(s) : q = w + Len(t) /\ q = p + Len(u) /\ q - w = Len(t) /\ q \in w..Len(s)
    <3>1. w + Len(t) \in (w + 1)..Len(s) /\ w + Len(t) = p + Len(u) /\ (w + Len(t)) - w = Len(t)
          /\ w + Len(t) \in w..Len(s)
      BY <1>1, <2>1, <2>4
    <3> QED
      BY <3>1
  <2>6. ASSUME NEW k \in (w + 1)..q PROVE s[k] \in S
    <3>1. k - w \in 1..Len(t) /\ w + (k - w) = k
      BY <1>1, <2>5
    <3> QED
      BY <1>2, <2>3, <3>1
  <2>7. \A k \in (q + 1)..Len(s) : s[k] = Blank
    BY <2>1, <2>5
  <2>8. /\ SubSeq(s, w + 1, q) \in Seq(A) /\ Len(SubSeq(s, w + 1, q)) = q - w
        /\ \A k \in 1..(q - w) : SubSeq(s, w + 1, q)[k] = s[w + k]
    <3>1. IsPart(A, s, w, q, SubSeq(s, w + 1, q))
      BY <2>5, PartIs, Zenon
    <3> QED
      BY ONLY <3>1 DEF IsPart
  <2>9. t = SubSeq(s, w + 1, q)
    <3>1. Len(t) = Len(SubSeq(s, w + 1, q)) /\ \A k \in 1..Len(t) : t[k] = SubSeq(s, w + 1, q)[k]
      BY <2>3, <2>5, <2>8
    <3> QED
      BY ONLY <2>8, <3>1, SeqEqual, t \in Seq(A)
  <2> QED
    BY <2>1, <2>2, <2>6, <2>7, <2>9 DEF RowAt
<1>3. ASSUME NEW q \in (w + 1)..Len(s), RowAt(s, S, w, q), t = SubSeq(s, w + 1, q),
             \A k \in 1..p : s[k] = Blank, \A k \in 1..Len(mark) : s[p + k] = mark[k]
      PROVE  (\A k \in 1..Len(t) : t[k] \in S) /\ t # <<>> /\ Around(s, u, p)
  <2>1. q \in w..Len(s) /\ q \in Nat
    BY <1>1
  <2>2. Len(t) = q - w /\ \A k \in 1..(q - w) : t[k] = s[w + k]
    <3>1. IsPart(A, s, w, q, t)
      BY <1>3, <2>1, PartIs, Zenon
    <3> QED
      BY ONLY <3>1 DEF IsPart
  <2>3. ASSUME NEW k \in 1..Len(t) PROVE t[k] \in S
    <3>1. k \in 1..(q - w) /\ w + k \in (w + 1)..q
      BY <1>1, <2>1, <2>2
    <3> QED
      BY <1>3, <2>2, <3>1 DEF RowAt
  <2>4. t # <<>>
    <3>1. q - w # 0
      BY <1>1
    <3> QED
      BY <2>2, <3>1, EmptySeq
  <2>5. p + Len(u) = q
    BY <1>1, <2>1, <2>2
  <2>6. ASSUME NEW k \in 1..Len(u) PROVE s[p + k] = u[k]
    <3>1. CASE k <= Len(mark)
      <4>1. k \in 1..Len(mark)
        BY <1>1, <3>1
      <4> QED
        BY <1>1, <1>3, <4>1
    <3>2. CASE ~(k <= Len(mark))
      <4>1. PICK i \in 1..Len(t) : k = Len(mark) + i /\ p + k = w + i /\ i \in 1..(q - w)
        <5>1. k - Len(mark) \in 1..Len(t) /\ k = Len(mark) + (k - Len(mark)) /\ p + k = w + (k - Len(mark))
              /\ k - Len(mark) \in 1..(q - w)
          BY <1>1, <2>1, <2>2, <3>2
        <5> QED
          BY <5>1
      <4> QED
        BY <1>1, <2>2, <4>1
    <3> QED
      BY <3>1, <3>2
  <2>7. \A k \in (p + Len(u) + 1)..Len(s) : s[k] = Blank
    BY <1>3, <2>5 DEF RowAt
  <2>8. p + Len(u) <= Len(s)
    BY <1>1, <2>5
  <2> QED
    BY <1>3, <2>3, <2>4, <2>6, <2>7, <2>8 DEF Around
<1>4. StandsAt(s, S, mark, p, t) => ReadAt(s, S, mark, p, w, t)
  BY ONLY <1>2 DEF StandsAt, ReadAt, u
<1>5. ReadAt(s, S, mark, p, w, t) => StandsAt(s, S, mark, p, t)
  BY ONLY <1>3 DEF StandsAt, ReadAt, u
<1> QED
  BY ONLY <1>4, <1>5

\* The rows that stand in a text after a mark, and the spaces around both.
Stands(s, S, mark, t) == t \in Inner(s) /\ Range(t) \subseteq S /\ Padded(s, mark \o t)
Read(s, S, mark, p, w, t) ==
    /\ w <= Len(s) /\ \A k \in 1..Len(mark) : s[p + k] = mark[k]
    /\ \E q \in (w + 1)..Len(s) : RowAt(s, S, w, q) /\ t = SubSeq(s, w + 1, q)

LEMMA MarkedRows ==
    ASSUME NEW A, NEW s \in Seq(A), NEW S, Blank \notin S, NEW mark \in Seq(A),
           \A k \in 1..Len(mark) : mark[k] # Blank,
           NEW p, p = Span(s, {Blank}), NEW w, w = p + Len(mark), NEW t
    PROVE  Stands(s, S, mark, t) <=> Read(s, S, mark, p, w, t)
<1>a. s \in Seq(A) /\ mark \in Seq(A) /\ Blank \notin S /\ w = p + Len(mark)
  OBVIOUS
<1>1. /\ Len(s) \in Nat /\ Len(mark) \in Nat /\ p \in 0..Len(s) /\ p \in Nat /\ w \in Nat
      /\ \A k \in 1..p : s[k] = Blank
      /\ \A m \in 0..Len(s) :
            (\A k \in 1..m : s[k] = Blank) /\ (m < Len(s) => s[m + 1] # Blank) => m = p
  <2>1. Len(s) \in Nat /\ Len(mark) \in Nat
    BY LenProperties
  <2>2. /\ p \in 0..Len(s) /\ \A k \in 1..p : s[k] = Blank
        /\ \A m \in 0..Len(s) :
              (\A k \in 1..m : s[k] = Blank) /\ (m < Len(s) => s[m + 1] # Blank) => m = p
    BY StartIs
  <2>3. p \in Nat /\ w \in Nat
    BY <2>1, <2>2
  <2> QED
    BY ONLY <2>1, <2>2, <2>3, Zenon
<1>2. ASSUME NEW v \in Seq(A) PROVE Range(v) \subseteq S <=> \A k \in 1..Len(v) : v[k] \in S
  <2>1. DOMAIN v = 1..Len(v)
    BY LenProperties
  <2> QED
    BY ONLY <2>1 DEF Range
<1>3. ASSUME t \in Inner(s), Range(t) \subseteq S, Padded(s, mark \o t)
      PROVE  /\ w <= Len(s) /\ \A k \in 1..Len(mark) : s[p + k] = mark[k]
             /\ \E q \in (w + 1)..Len(s) : RowAt(s, S, w, q) /\ t = SubSeq(s, w + 1, q)
  <2>1. t \in Seq(A) /\ Len(t) \in Nat \ {0} /\ t # <<>> /\ \A k \in 1..Len(t) : t[k] \in S
    BY <1>2, <1>3, InnerIs, EmptySeq
  <2>2. /\ mark \o t \in Seq(A) /\ Len(mark \o t) = Len(mark) + Len(t)
        /\ \A i \in 1..(Len(mark) + Len(t)) :
              (mark \o t)[i] = IF i <= Len(mark) THEN mark[i] ELSE t[i - Len(mark)]
    <3>1. IsJoin(A, mark, Len(mark), t, Len(t), mark \o t)
      BY <2>1, JoinIs, Zenon
    <3> QED
      BY ONLY <3>1 DEF IsJoin
  <2>3. PICK m \in 0..Len(s) : Around(s, mark \o t, m)
    BY <1>3, <2>2, PaddedIs
  <2>4. (mark \o t)[1] # Blank
    <3>1. 1 \in 1..(Len(mark) + Len(t))
      BY <1>1, <2>1
    <3>2. CASE 1 <= Len(mark)
      <4>1. 1 \in 1..Len(mark) /\ (mark \o t)[1] = mark[1]
        BY <1>1, <2>2, <3>1, <3>2
      <4> QED
        BY <4>1
    <3>3. CASE ~(1 <= Len(mark))
      <4>1. 1 - Len(mark) = 1 /\ 1 \in 1..Len(t)
        BY <1>1, <2>1, <3>3
      <4>2. (mark \o t)[1] = t[1] /\ t[1] \in S
        BY <2>1, <2>2, <3>1, <3>3, <4>1
      <4> QED
        BY <4>2
    <3> QED
      BY <3>2, <3>3
  <2>5. m = p /\ w <= Len(s)
    <3>1. /\ m + Len(mark \o t) <= Len(s) /\ \A k \in 1..Len(mark \o t) : s[m + k] = (mark \o t)[k]
          /\ \A k \in 1..m : s[k] = Blank
      BY <2>3 DEF Around
    <3>2. s[m + 1] # Blank
      <4>1. 1 \in 1..Len(mark \o t)
        BY <1>1, <2>1, <2>2
      <4> QED
        BY <2>4, <3>1, <4>1
    <3>3. m = p
      BY <1>1, <3>1, <3>2
    <3> QED
      BY <1>1, <2>1, <2>2, <3>1, <3>3
  <2>6. w \in 0..Len(s) /\ Around(s, mark \o t, p)
    BY <1>1, <2>3, <2>5
  <2>7. StandsAt(s, S, mark, p, t)
    BY ONLY <2>1, <2>6 DEF StandsAt
  <2>8. ReadAt(s, S, mark, p, w, t)
    BY ONLY <1>a, <1>1, <2>1, <2>2, <2>6, <2>7, RowAround
  <2> QED
    BY ONLY <2>5, <2>8 DEF ReadAt
<1>4. ASSUME w <= Len(s), \A k \in 1..Len(mark) : s[p + k] = mark[k],
             NEW q \in (w + 1)..Len(s), RowAt(s, S, w, q), t = SubSeq(s, w + 1, q)
      PROVE  t \in Inner(s) /\ Range(t) \subseteq S /\ Padded(s, mark \o t)
  <2>1. w \in 0..Len(s)
    BY <1>1, <1>4
  <2>2. t \in Inner(s) /\ t \in Seq(A)
    BY <1>4, <2>1, InnerIs
  <2>3. mark \o t \in Seq(A)
    BY <2>2, JoinIs, Zenon DEF IsJoin
  <2>4. (\A k \in 1..Len(t) : t[k] \in S) /\ t # <<>> /\ Around(s, mark \o t, p)
    <3>1. ReadAt(s, S, mark, p, w, t)
      BY ONLY <1>1, <1>4 DEF ReadAt
    <3>2. StandsAt(s, S, mark, p, t)
      BY ONLY <1>a, <1>1, <2>1, <2>2, <2>3, <3>1, RowAround
    <3> QED
      BY ONLY <3>2 DEF StandsAt
  <2>5. Padded(s, mark \o t)
    BY <1>1, <2>3, <2>4, PaddedIs
  <2> QED
    BY <1>2, <2>2, <2>4, <2>5
<1>5. Stands(s, S, mark, t) => Read(s, S, mark, p, w, t)
  BY ONLY <1>3 DEF Stands, Read
<1>6. Read(s, S, mark, p, w, t) => Stands(s, S, mark, t)
  BY ONLY <1>4 DEF Stands, Read
<1> QED
  BY ONLY <1>5, <1>6

\* The rows of digits from the place w on.
Rows(s, S, w) == {t \in Inner(s) : \E q \in (w + 1)..Len(s) : RowAt(s, S, w, q) /\ t = SubSeq(s, w + 1, q)}

\* A number is read just if there is such a row, and then its value.
LEMMA RowsRead ==
    ASSUME NEW A, NEW s \in Seq(A), NEW w \in 0..Len(s), NEW S, Blank \notin S, NEW base
    PROVE  /\ Number(Drop(s, w), S, base).ok <=> Rows(s, S, w) # {}
           /\ \A t \in Rows(s, S, w) : t \in Seq(S) /\ Number(Drop(s, w), S, base).val = Value(t, base)
<1> DEFINE r == Number(Drop(s, w), S, base)
<1>1. Len(s) \in Nat /\ w \in Nat
  BY LenProperties
<1>2. /\ r.ok \in BOOLEAN /\ r.ok <=> \E q \in (w + 1)..Len(s) : RowAt(s, S, w, q)
      /\ \A q \in (w + 1)..Len(s) : RowAt(s, S, w, q) => r.val = Value(SubSeq(s, w + 1, q), base)
  BY RowReads
<1> HIDE DEF r
<1>3. ASSUME NEW q \in (w + 1)..Len(s) PROVE SubSeq(s, w + 1, q) \in Inner(s)
  BY InnerIs
<1>4. Rows(s, S, w) # {} <=> \E q \in (w + 1)..Len(s) : RowAt(s, S, w, q)
  BY ONLY <1>3 DEF Rows
<1>5. ASSUME NEW t \in Rows(s, S, w) PROVE t \in Seq(S) /\ r.val = Value(t, base)
  <2>1. PICK q \in (w + 1)..Len(s) : RowAt(s, S, w, q) /\ t = SubSeq(s, w + 1, q)
    BY <1>5 DEF Rows
  <2>2. q \in w..Len(s) /\ q \in Nat
    BY <1>1
  <2>3. t \in Seq(A) /\ Len(t) = q - w /\ \A k \in 1..(q - w) : t[k] = s[w + k]
    <3>1. IsPart(A, s, w, q, t)
      BY <2>1, <2>2, PartIs, Zenon
    <3> QED
      BY ONLY <3>1 DEF IsPart
  <2>4. ASSUME NEW k \in 1..Len(t) PROVE t[k] \in S
    <3>1. k \in 1..(q - w) /\ w + k \in (w + 1)..q
      BY <1>1, <2>2, <2>3
    <3> QED
      BY <2>1, <2>3, <3>1 DEF RowAt
  <2>5. t \in Seq(S)
    <3>1. t \in [1..Len(t) -> A] /\ Len(t) \in Nat
      BY <2>3, LenProperties
    <3>2. t \in [1..Len(t) -> S]
      BY ONLY <2>4, <3>1
    <3> QED
      BY ONLY <3>1, <3>2
  <2> QED
    BY <1>2, <2>1, <2>5
<1> QED
  BY <1>2, <1>4, <1>5 DEF r

\* The empty mark.
LEMMA NoMark == ASSUME NEW A, NEW t \in Seq(A) PROVE <<>> \in Seq(A) /\ Len(<<>>) = 0 /\ <<>> \o t = t
<1>1. <<>> \in Seq(A) /\ Len(<<>>) = 0
  OBVIOUS
<1>2. /\ <<>> \o t \in Seq(A) /\ Len(<<>> \o t) = 0 + Len(t)
      /\ \A i \in 1..(0 + Len(t)) : (<<>> \o t)[i] = IF i <= 0 THEN <<>>[i] ELSE t[i - 0]
  <2>1. IsJoin(A, <<>>, 0, t, Len(t), <<>> \o t)
    BY ONLY <1>1, JoinIs, t \in Seq(A), Zenon
  <2> QED
    BY ONLY <2>1 DEF IsJoin
<1>3. Len(t) \in Nat
  BY LenProperties
<1>4. ASSUME NEW i \in 1..Len(t) PROVE (<<>> \o t)[i] = t[i]
  <2>1. i \in 1..(0 + Len(t)) /\ ~(i <= 0) /\ i - 0 = i
    BY <1>3
  <2> QED
    BY <1>2, <2>1
<1>5. Len(<<>> \o t) = Len(t)
  BY <1>2, <1>3
<1> QED
  BY ONLY <1>1, <1>2, <1>4, <1>5, SeqEqual, t \in Seq(A)

\* The row of digits that stands alone in a text is the one after the spaces.
LEMMA AloneIs ==
    ASSUME NEW A, NEW s \in Seq(A), NEW S, Blank \notin S, NEW p, p = Span(s, {Blank})
    PROVE  \A t \in Inner(s) : Range(t) \subseteq S /\ Padded(s, t) <=> t \in Rows(s, S, p)
<1>1. p \in 0..Len(s) /\ Len(s) \in Nat /\ p \in Nat /\ p <= Len(s) /\ p = p + 0
  <2>1. p \in 0..Len(s) /\ Len(s) \in Nat
    BY StartIs, LenProperties
  <2> QED
    BY ONLY <2>1
<1>2. ASSUME NEW t \in Inner(s)
      PROVE  Range(t) \subseteq S /\ Padded(s, t) <=> t \in Rows(s, S, p)
  <2>1. t \in Seq(A)
    BY InnerIs
  <2>2. <<>> \in Seq(A) /\ Len(<<>>) = 0 /\ <<>> \o t = t /\ \A k \in 1..Len(<<>>) : <<>>[k] # Blank
    BY <2>1, NoMark
  <2>3. t \in Inner(s) /\ Range(t) \subseteq S /\ Padded(s, t)
        <=> /\ p <= Len(s)
            /\ \E q \in (p + 1)..Len(s) : RowAt(s, S, p, q) /\ t = SubSeq(s, p + 1, q)
    <3> DEFINE e == <<>>
    <3>1. /\ e \in Seq(A) /\ Len(e) = 0 /\ e \o t = t /\ p = p + Len(e)
          /\ \A k \in 1..Len(e) : e[k] # Blank
      BY <1>1, <2>2
    <3> HIDE DEF e
    <3>2. Stands(s, S, e, t) <=> Read(s, S, e, p, p, t)
      BY <3>1, MarkedRows
    <3>3. \A k \in 1..Len(e) : s[p + k] = e[k]
      BY ONLY <3>1
    <3>4. Padded(s, e \o t) <=> Padded(s, t)
      <4>1. ASSUME NEW u, u = t PROVE Padded(s, u) <=> Padded(s, t)
        BY ONLY <4>1
      <4> QED
        BY ONLY <3>1, <4>1, Zenon
    <3> QED
      BY ONLY <3>2, <3>3, <3>4, Zenon DEF Stands, Read
  <2> QED
    BY ONLY <1>1, <1>2, <2>3, Zenon DEF Rows
<1> QED
  BY <1>2

LEMMA DecimalsAre ==
    ASSUME NEW A, NEW s \in Seq(A)
    PROVE  \E w \in 0..Len(s) : /\ Decimals(s) = Rows(s, Decimal, w)
                                /\ str_to_dec(s) = Number(Drop(s, w), Decimal, 10)
<1> DEFINE p == Span(s, {Blank})
<1>1. p \in 0..Len(s) /\ SkipSpaces(s) = Drop(s, p)
  BY StartIs
<1>2. Blank \notin Decimal
  BY NoDigits, DigitsRead DEF Blank
<1>3. \A t \in Inner(s) : Range(t) \subseteq Decimal /\ Padded(s, t) <=> t \in Rows(s, Decimal, p)
  BY <1>2, AloneIs
<1> HIDE DEF p
<1>4. Decimals(s) = Rows(s, Decimal, p)
  BY <1>3 DEF Decimals, Rows
<1> QED
  BY <1>1, <1>4 DEF str_to_dec

LEMMA DropTwice ==
    ASSUME NEW A, NEW s \in Seq(A), NEW p \in 0..Len(s), NEW m \in 0..(Len(s) - p)
    PROVE  Drop(Drop(s, p), m) = Drop(s, p + m)
<1>1. Len(s) \in Nat /\ p \in Nat /\ m \in Nat /\ p + m \in 0..Len(s)
  BY LenProperties
<1>2. PICK u : u = Drop(s, p) /\ u \in Seq(A) /\ Len(u) = Len(s) - p /\ \A k \in 1..(Len(s) - p) : u[k] = s[p + k]
  <2>1. PICK u : u = Drop(s, p) /\ IsPart(A, s, p, Len(s), u)
    BY DropIs, Zenon
  <2> QED
    BY ONLY <2>1 DEF IsPart
<1>3. m \in 0..Len(u)
  BY <1>2
<1>4. /\ Drop(u, m) \in Seq(A) /\ Len(Drop(u, m)) = Len(u) - m
      /\ \A k \in 1..(Len(u) - m) : Drop(u, m)[k] = u[m + k]
  <2>1. IsPart(A, u, m, Len(u), Drop(u, m))
    BY <1>2, <1>3, DropIs, Zenon
  <2> QED
    BY ONLY <2>1 DEF IsPart
<1>5. PICK n \in Nat : n = p + m
  BY <1>1
<1>6. /\ Drop(s, n) \in Seq(A) /\ Len(Drop(s, n)) = Len(s) - n
      /\ \A k \in 1..(Len(s) - n) : Drop(s, n)[k] = s[n + k]
  <2>1. IsPart(A, s, n, Len(s), Drop(s, n))
    BY <1>1, <1>5, DropIs, Zenon
  <2> QED
    BY ONLY <2>1 DEF IsPart
<1>7. Len(Drop(u, m)) = Len(Drop(s, n))
  <2>1. Len(Drop(u, m)) = Len(u) - m /\ Len(u) = Len(s) - p /\ Len(Drop(s, n)) = Len(s) - n
    BY <1>2, <1>4, <1>6
  <2>2. (Len(s) - p) - m = Len(s) - n
    BY <1>1, <1>5
  <2> QED
    BY ONLY <2>1, <2>2, Zenon
<1>8. ASSUME NEW k \in 1..Len(Drop(u, m)) PROVE Drop(u, m)[k] = Drop(s, n)[k]
  <2>1. k \in 1..(Len(u) - m) /\ m + k \in 1..(Len(s) - p) /\ p + (m + k) = n + k /\ k \in 1..(Len(s) - n)
    BY <1>1, <1>2, <1>4, <1>5
  <2> QED
    BY <1>2, <1>4, <1>6, <2>1
<1>9. Drop(u, m) = Drop(s, n)
  BY ONLY <1>4, <1>6, <1>7, <1>8, SeqEqual
<1> QED
  BY <1>2, <1>5, <1>9

\* The two marks of a hexadecimal number.
Mark(x) == <<"0", x>>
LEMMA MarkIs ==
    ASSUME NEW A, NEW x \in {"x", "X"}
    PROVE  /\ Mark(x) \in Seq(A \cup {"0", "x", "X"}) /\ Len(Mark(x)) = 2
           /\ Mark(x)[1] = "0" /\ Mark(x)[2] = x
           /\ \A k \in 1..Len(Mark(x)) : Mark(x)[k] # Blank
<1>1. Mark(x) \in Seq(A \cup {"0", "x", "X"}) /\ Len(Mark(x)) = 2 /\ Mark(x)[1] = "0" /\ Mark(x)[2] = x
  BY DEF Mark
<1>2. "x" # Blank /\ "X" # Blank
  BY ONLY Zenon DEF Blank
<1>3. "0" # Blank
  BY ONLY Zenon DEF Blank
<1>4. x # Blank
  BY <1>2
<1>5. ASSUME NEW k \in 1..Len(Mark(x)) PROVE Mark(x)[k] # Blank
  <2>1. k = 1 \/ k = 2
    BY ONLY <1>1, k \in 1..Len(Mark(x))
  <2> QED
    BY ONLY <1>1, <1>3, <1>4, <2>1
<1> QED
  BY <1>1, <1>5

LEMMA HexesAre ==
    ASSUME NEW A, NEW s \in Seq(A)
    PROVE  \E w \in 0..Len(s) : /\ Hexes(s) = Rows(s, Hexadecimal, w)
                                /\ str_to_hex(s) = Number(Drop(s, w), Hexadecimal, 16)
<1> DEFINE B == A \cup {"0", "x", "X"}
           p == Span(s, {Blank})
           u == Drop(s, p)
           Marked == Len(u) > 1 /\ u[1] = "0" /\ u[2] \in {"x", "X"}
<1>1. s \in Seq(B) /\ Len(s) \in Nat
  BY LenProperties, SeqMonotonic
<1>2. \A x \in {"x", "X"} : /\ Mark(x) \in Seq(B) /\ Len(Mark(x)) = 2
                            /\ Mark(x)[1] = "0" /\ Mark(x)[2] = x
                            /\ \A k \in 1..Len(Mark(x)) : Mark(x)[k] # Blank
  BY MarkIs
<1> HIDE DEF B
<1>3. p \in 0..Len(s) /\ p \in Nat /\ SkipSpaces(s) = u
  <2>1. p \in 0..Len(s) /\ SkipSpaces(s) = u
    BY StartIs
  <2> QED
    BY ONLY <1>1, <2>1
<1>4. Len(u) = Len(s) - p /\ \A k \in 1..(Len(s) - p) : u[k] = s[p + k]
  <2>1. IsPart(A, s, p, Len(s), u)
    BY <1>3, DropIs, Zenon
  <2> HIDE DEF u
  <2> QED
    BY ONLY <2>1 DEF IsPart
<1>5. str_to_hex(s) = Number(IF Marked THEN Drop(u, 2) ELSE u, Hexadecimal, 16)
  BY <1>3 DEF str_to_hex
<1>6. Blank \notin Hexadecimal /\ "x" \notin Hexadecimal /\ "X" \notin Hexadecimal
  <2>1. "x" \in {" ", "x", "X"} /\ "X" \in {" ", "x", "X"} /\ " " \in {" ", "x", "X"}
    BY ONLY Zenon
  <2>2. \A y : y \in {" ", "x", "X"} => y \notin Hexadecimal
    BY ONLY NoDigits, Zenon
  <2> QED
    BY ONLY <2>1, <2>2, Zenon DEF Blank
<1>7. \A t \in Inner(s) : Range(t) \subseteq Hexadecimal /\ Padded(s, t) <=> t \in Rows(s, Hexadecimal, p)
  BY <1>6, AloneIs
<1>8. ASSUME NEW x \in {"x", "X"}, NEW t
      PROVE  Stands(s, Hexadecimal, Mark(x), t) <=> Read(s, Hexadecimal, Mark(x), p, p + 2, t)
  <2>1. Mark(x) \in Seq(B) /\ p + 2 = p + Len(Mark(x)) /\ \A k \in 1..Len(Mark(x)) : Mark(x)[k] # Blank
    BY <1>2
  <2> QED
    BY <1>1, <1>6, <2>1, MarkedRows
<1>9. Hexes(s) = {t \in Inner(s) : \/ t \in Rows(s, Hexadecimal, p)
                                   \/ \E x \in {"x", "X"} : Stands(s, Hexadecimal, Mark(x), t)}
  BY ONLY <1>7, Zenon DEF Hexes, Stands, Mark
<1> HIDE DEF p
<1>10. ASSUME NEW x \in {"x", "X"}, NEW t, Read(s, Hexadecimal, Mark(x), p, p + 2, t)
       PROVE  p + 2 <= Len(s) /\ s[p + 1] = "0" /\ s[p + 2] = x
  <2>1. 1 \in 1..Len(Mark(x)) /\ 2 \in 1..Len(Mark(x))
    BY <1>2
  <2> QED
    BY <1>2, <1>10, <2>1 DEF Read
<1>11. CASE Marked
  <2>1. /\ p + 2 \in 0..Len(s) /\ p + 2 <= Len(s) /\ 2 \in 0..(Len(s) - p)
        /\ 1 \in 1..(Len(s) - p) /\ 2 \in 1..(Len(s) - p)
    BY <1>1, <1>3, <1>4, <1>11
  <2>2. PICK x \in {"x", "X"} : s[p + 2] = x /\ s[p + 1] = "0"
    BY <1>4, <1>11, <2>1
  <2>3. Drop(u, 2) = Drop(s, p + 2)
    BY <1>3, <2>1, DropTwice
  <2>4. str_to_hex(s) = Number(Drop(s, p + 2), Hexadecimal, 16)
    BY <1>5, <1>11, <2>3
  <2>5. ASSUME NEW q \in (p + 1)..Len(s), RowAt(s, Hexadecimal, p, q) PROVE FALSE
    <3>1. CASE q = p + 1
      <4>1. p + 2 \in (q + 1)..Len(s)
        BY <1>3, <2>1, <3>1
      <4>2. x = Blank
        BY <2>2, <2>5, <4>1 DEF RowAt
      <4> QED
        BY <1>2, <4>2
    <3>2. CASE q # p + 1
      <4>1. p + 2 \in (p + 1)..q
        BY <1>3, <2>1, <3>2
      <4>2. x \in Hexadecimal
        BY <2>2, <2>5, <4>1 DEF RowAt
      <4> QED
        BY <1>6, <4>2
    <3> QED
      BY <3>1, <3>2
  <2>6. ASSUME NEW t \in Inner(s)
        PROVE  t \in Hexes(s) <=> t \in Rows(s, Hexadecimal, p + 2)
    <3>1. t \notin Rows(s, Hexadecimal, p)
      BY ONLY <2>5 DEF Rows
    <3>2. ASSUME NEW y \in {"x", "X"}, Stands(s, Hexadecimal, Mark(y), t)
          PROVE  t \in Rows(s, Hexadecimal, p + 2)
      <4>1. Read(s, Hexadecimal, Mark(y), p, p + 2, t)
        BY <1>8, <3>2
      <4> QED
        BY ONLY <4>1, t \in Inner(s) DEF Read, Rows
    <3>3. ASSUME t \in Rows(s, Hexadecimal, p + 2) PROVE Stands(s, Hexadecimal, Mark(x), t)
      <4>1. \A k \in 1..Len(Mark(x)) : s[p + k] = Mark(x)[k]
        <5>1. ASSUME NEW k \in 1..Len(Mark(x)) PROVE s[p + k] = Mark(x)[k]
          <6>1. k = 1 \/ k = 2
            BY <1>2
          <6> QED
            BY <1>2, <2>2, <6>1
        <5> QED
          BY <5>1
      <4>2. Read(s, Hexadecimal, Mark(x), p, p + 2, t)
        BY ONLY <2>1, <3>3, <4>1 DEF Read, Rows
      <4> QED
        BY <1>8, <4>2
    <3> QED
      BY ONLY <1>9, <3>1, <3>2, <3>3, t \in Inner(s), x \in {"x", "X"}
  <2>7. Hexes(s) = Rows(s, Hexadecimal, p + 2)
    BY <2>6 DEF Hexes, Rows
  <2> QED
    BY <2>1, <2>4, <2>7
<1>12. CASE ~Marked
  <2>1. str_to_hex(s) = Number(u, Hexadecimal, 16)
    BY <1>5, <1>12
  <2>2. ASSUME NEW x \in {"x", "X"}, NEW t PROVE ~Stands(s, Hexadecimal, Mark(x), t)
    <3>1. SUFFICES ASSUME Read(s, Hexadecimal, Mark(x), p, p + 2, t) PROVE FALSE
      BY <1>8
    <3>2. p + 2 <= Len(s) /\ s[p + 1] = "0" /\ s[p + 2] = x
      BY <1>10, <3>1
    <3>3. Len(u) > 1 /\ 1 \in 1..(Len(s) - p) /\ 2 \in 1..(Len(s) - p)
      BY <1>1, <1>3, <1>4, <3>2
    <3> QED
      BY <1>4, <1>12, <3>2, <3>3
  <2>3. Hexes(s) = Rows(s, Hexadecimal, p)
    BY ONLY <1>9, <2>2 DEF Rows
  <2> QED
    BY <1>3, <2>1, <2>3
<1> QED
  BY <1>11, <1>12
-----------------------------------------------------------------------------
\* What a row of digits denotes.

LEMMA Quotient ==
    ASSUME NEW x \in Nat, NEW m \in Nat \ {0}
    PROVE  \E q \in Nat, r \in 0..(m - 1) : r = x % m /\ x = m * q + r
<1>1. PICK q \in Nat : q = x \div m
  OBVIOUS
<1>2. PICK r \in 0..(m - 1) : r = x % m /\ x = m * q + r
  BY <1>1
<1> QED
  BY <1>2

\* A division has one remainder, and multiples of the divisor do not change it.
LEMMA OneRemainder ==
    ASSUME NEW m \in Nat \ {0}, NEW a \in Nat, NEW r \in 0..(m - 1), NEW x, x = m * a + r
    PROVE  x % m = r
<1>1. x \in Nat
  <2>1. m * a \in Nat
    OBVIOUS
  <2> QED
    BY <2>1
<1>2. PICK q \in Nat, t \in 0..(m - 1) : t = x % m /\ x = m * q + t
  BY <1>1, Quotient
<1>3. ASSUME NEW i \in Nat, NEW j \in Nat, NEW c \in 0..(m - 1), NEW d \in 0..(m - 1), i < j
      PROVE  m * i + c # m * j + d
  <2>1. PICK k \in Nat : j = (i + 1) + k
    <3>1. j - (i + 1) \in Nat /\ j = (i + 1) + (j - (i + 1))
      BY <1>3
    <3> QED
      BY <3>1
  <2>2. m * j = m * (i + 1) + m * k
    BY <2>1
  <2>3. m * (i + 1) = m * i + m
    OBVIOUS
  <2>4. m * i \in Nat /\ m * k \in Nat
    OBVIOUS
  <2> QED
    BY <2>2, <2>3, <2>4
<1>4. a = q
  <2>1. ~(a < q)
    BY <1>2, <1>3
  <2>2. ~(q < a)
    BY <1>2, <1>3
  <2> QED
    BY <2>1, <2>2
<1>5. m * a + r = m * a + t /\ m * a \in Nat
  BY <1>2, <1>4
<1>6. r = t
  BY <1>5
<1> QED
  BY <1>2, <1>6

\* A word with a digit more.
Shifted(v, b, d) == ((v * b) + d) % Word
LEMMA RemainderCarries ==
    ASSUME NEW x \in Nat, NEW b \in Nat, NEW d \in Nat
    PROVE  Shifted(x % Word, b, d) = Shifted(x, b, d)
<1> DEFINE m == Word
<1>0. m \in Nat \ {0}
  BY TypingAssumption
<1> HIDE DEF m
<1>1. PICK q \in Nat, r \in 0..(m - 1) : r = x % m /\ x = m * q + r
  BY <1>0, Quotient
<1>2. PICK y \in Nat : y = (r * b) + d
  <2>1. r * b \in Nat
    BY <1>0
  <2> QED
    BY <2>1
<1>3. PICK p \in Nat, t \in 0..(m - 1) : t = y % m /\ y = m * p + t
  BY <1>0, Quotient
<1>4. PICK a \in Nat : a = q * b + p
  <2>1. q * b \in Nat
    OBVIOUS
  <2> QED
    BY <2>1
<1>5. (x * b) + d = m * a + t
  <2>1. x * b = (m * q) * b + r * b
    BY <1>0, <1>1
  <2>2. (m * q) * b = m * (q * b)
    BY ONLY <1>0, q \in Nat, b \in Nat
  <2>3. m * a = m * (q * b) + m * p
    BY <1>0, <1>4
  <2>4. m * (q * b) \in Nat /\ m * p \in Nat /\ r * b \in Nat
    BY <1>0
  <2> QED
    BY ONLY <1>2, <1>3, <2>1, <2>2, <2>3, <2>4, t \in 0..(m - 1), d \in Nat, <1>0
<1>6. ((x * b) + d) % m = t
  BY <1>0, <1>5, OneRemainder
<1> QED
  BY ONLY <1>1, <1>2, <1>3, <1>6, Zenon DEF Shifted, m

\* The worth of the places, and the sum of the digits' worth.
Denotes(s, b, W, S) ==
    /\ W \in [0..Len(s) -> Nat] /\ S \in [0..Len(s) -> Nat]
    /\ W[0] = 1 /\ S[0] = 0 /\ Denoted(s, b) = S[Len(s)]
    /\ \A k \in 1..Len(s) : /\ W[k] = W[k - 1] * b
                            /\ S[k] = S[k - 1] + DigitOf(s[k]) * W[Len(s) - k]

WorthBody(s, b, w) == [k \in 0..Len(s) |-> IF k = 0 THEN 1 ELSE w[k - 1] * b]
SumBody(s, W, w) ==
    [k \in 0..Len(s) |-> IF k = 0 THEN 0 ELSE w[k - 1] + DigitOf(s[k]) * W[Len(s) - k]]

LEMMA DenotedSteps ==
    ASSUME NEW s \in Seq(Hexadecimal), NEW b \in Nat
    PROVE  \E W, S : Denotes(s, b, W, S)
<1> DEFINE n == Len(s)
<1>1. n \in Nat /\ \A k \in 1..n : DigitOf(s[k]) \in Nat
  BY LenProperties, ElementOfSeq, DigitsRead
<1> DEFINE W == CHOOSE w : w = WorthBody(s, b, w)
           S == CHOOSE w : w = SumBody(s, W, w)
<1>2. Denoted(s, b) = S[n]
  BY DEF Denoted, WorthBody, SumBody
<1> HIDE DEF n, S
<1>3. W = WorthBody(s, b, W)
  <2> DEFINE f == [x \in Nat \X (1..n) |-> x[1] * b]
  <2>1. f \in [Nat \X (1..n) -> Nat]
    <3>1. ASSUME NEW x \in Nat \X (1..n) PROVE x[1] * b \in Nat
      OBVIOUS
    <3> QED
      BY ONLY <3>1
  <2>2. \A v \in Nat, k \in 1..n : f[<<v, k>>] = v * b
    OBVIOUS
  <2> HIDE DEF f
  <2>3. PICK g \in [0..n -> Nat] : g = [k \in 0..n |-> IF k = 0 THEN 1 ELSE f[<<g[k - 1], k>>]]
    <3>1. \E g \in [0..n -> Nat] : Accumulates(g, n, f, 1)
      BY <1>1, <2>1, Accumulation
    <3> QED
      BY <3>1 DEF Accumulates
  <2>4. ASSUME NEW k \in 0..n PROVE g[k] = IF k = 0 THEN 1 ELSE g[k - 1] * b
    <3>1. CASE k = 0
      BY <1>1, <2>3, <3>1
    <3>2. CASE k # 0
      <4>1. k \in 1..n /\ k - 1 \in 0..n
        BY <1>1, <3>2
      <4>2. g[k] = f[<<g[k - 1], k>>]
        BY <2>3, <3>2
      <4> QED
        BY <2>2, <2>3, <3>2, <4>1, <4>2
    <3> QED
      BY <3>1, <3>2
  <2>5. g = [k \in 0..n |-> g[k]]
    OBVIOUS
  <2>6. g = WorthBody(s, b, g)
    BY <2>4, <2>5 DEF WorthBody, n
  <2> QED
    BY <2>6
<1> HIDE DEF W
<1>4. /\ DOMAIN W = 0..n /\ W[0] = 1 /\ \A k \in 1..n : W[k] = W[k - 1] * b
      /\ W = [k \in 0..n |-> W[k]]
  <2>1. DOMAIN WorthBody(s, b, W) = 0..n /\ WorthBody(s, b, W) = [k \in 0..n |-> WorthBody(s, b, W)[k]]
    BY DEF WorthBody, n
  <2>2. \A k \in 0..n : WorthBody(s, b, W)[k] = IF k = 0 THEN 1 ELSE W[k - 1] * b
    BY DEF WorthBody, n
  <2>3. \A k \in 0..n : W[k] = IF k = 0 THEN 1 ELSE W[k - 1] * b
    BY <1>3, <2>2
  <2>4. 0 \in 0..n /\ \A k \in 1..n : k \in 0..n /\ k # 0
    BY <1>1
  <2> QED
    BY <1>3, <2>1, <2>3, <2>4
<1>5. \A k \in 0..n : W[k] \in Nat
  <2> DEFINE T == {k \in Nat : k <= n => W[k] \in Nat}
  <2>1. 0 \in T
    BY <1>4
  <2>2. ASSUME NEW k \in Nat, k \in T PROVE k + 1 \in T
    <3>1. SUFFICES ASSUME k + 1 <= n PROVE W[k + 1] \in Nat
      OBVIOUS
    <3>2. k + 1 \in 1..n /\ (k + 1) - 1 = k /\ k <= n
      BY <1>1, <3>1
    <3>3. W[k] \in Nat /\ W[k + 1] = W[k] * b
      BY <1>4, <2>2, <3>2
    <3> QED
      BY <3>3
  <2>3. Nat \subseteq T
    <3> HIDE DEF T
    <3> QED
      BY <2>1, <2>2, SetInduction
  <2> QED
    BY <1>1, <2>3
<1>6. W \in [0..n -> Nat]
  BY <1>4, <1>5
<1>7. ASSUME NEW k \in 1..n PROVE DigitOf(s[k]) * W[n - k] \in Nat
  <2>1. PICK x \in Nat, y \in Nat : x = DigitOf(s[k]) /\ y = W[n - k]
    <3>1. n - k \in 0..n
      BY <1>1
    <3> QED
      BY <1>1, <1>5, <3>1
  <2>2. x * y \in Nat
    OBVIOUS
  <2> QED
    BY <2>1, <2>2
<1>8. S = SumBody(s, W, S)
  <2> DEFINE f == [x \in Nat \X (1..n) |-> x[1] + DigitOf(s[x[2]]) * W[n - x[2]]]
  <2>1. f \in [Nat \X (1..n) -> Nat]
    <3>1. ASSUME NEW v \in Nat, NEW k \in 1..n PROVE v + DigitOf(s[k]) * W[n - k] \in Nat
      BY <1>7
    <3>2. ASSUME NEW x \in Nat \X (1..n) PROVE x[1] + DigitOf(s[x[2]]) * W[n - x[2]] \in Nat
      BY <3>1
    <3> QED
      BY ONLY <3>2
  <2>2. \A v \in Nat, k \in 1..n : f[<<v, k>>] = v + DigitOf(s[k]) * W[n - k]
    OBVIOUS
  <2> HIDE DEF f
  <2>3. PICK g \in [0..n -> Nat] : g = [k \in 0..n |-> IF k = 0 THEN 0 ELSE f[<<g[k - 1], k>>]]
    <3>1. \E g \in [0..n -> Nat] : Accumulates(g, n, f, 0)
      BY <1>1, <2>1, Accumulation
    <3> QED
      BY <3>1 DEF Accumulates
  <2>4. ASSUME NEW k \in 0..n PROVE g[k] = IF k = 0 THEN 0 ELSE g[k - 1] + DigitOf(s[k]) * W[n - k]
    <3>1. CASE k = 0
      BY <1>1, <2>3, <3>1
    <3>2. CASE k # 0
      <4>1. k \in 1..n /\ k - 1 \in 0..n
        BY <1>1, <3>2
      <4>2. g[k] = f[<<g[k - 1], k>>]
        BY <2>3, <3>2
      <4> QED
        BY <2>2, <2>3, <3>2, <4>1, <4>2
    <3> QED
      BY <3>1, <3>2
  <2>5. g = [k \in 0..n |-> g[k]]
    OBVIOUS
  <2>6. g = SumBody(s, W, g)
    BY <2>4, <2>5 DEF SumBody, n
  <2> QED
    BY <2>6 DEF S
<1>9. /\ DOMAIN S = 0..n /\ S[0] = 0 /\ \A k \in 1..n : S[k] = S[k - 1] + DigitOf(s[k]) * W[n - k]
      /\ S = [k \in 0..n |-> S[k]]
  <2>1. DOMAIN SumBody(s, W, S) = 0..n /\ SumBody(s, W, S) = [k \in 0..n |-> SumBody(s, W, S)[k]]
    BY DEF SumBody, n
  <2>2. \A k \in 0..n : SumBody(s, W, S)[k] = IF k = 0 THEN 0 ELSE S[k - 1] + DigitOf(s[k]) * W[n - k]
    BY DEF SumBody, n
  <2>3. \A k \in 0..n : S[k] = IF k = 0 THEN 0 ELSE S[k - 1] + DigitOf(s[k]) * W[n - k]
    BY <1>8, <2>2
  <2>4. 0 \in 0..n /\ \A k \in 1..n : k \in 0..n /\ k # 0
    BY <1>1
  <2> QED
    BY <1>8, <2>1, <2>3, <2>4
<1>10. \A k \in 0..n : S[k] \in Nat
  <2> DEFINE T == {k \in Nat : k <= n => S[k] \in Nat}
  <2>1. 0 \in T
    BY <1>9
  <2>2. ASSUME NEW k \in Nat, k \in T PROVE k + 1 \in T
    <3>1. SUFFICES ASSUME k + 1 <= n PROVE S[k + 1] \in Nat
      OBVIOUS
    <3>2. k + 1 \in 1..n /\ (k + 1) - 1 = k /\ k <= n
      BY <1>1, <3>1
    <3>3. PICK y \in Nat : y = DigitOf(s[k + 1]) * W[n - (k + 1)]
      BY <1>7, <3>2
    <3>4. S[k] \in Nat /\ S[k + 1] = S[k] + y
      BY <1>9, <2>2, <3>2, <3>3
    <3> QED
      BY <3>4
  <2>3. Nat \subseteq T
    <3> HIDE DEF T
    <3> QED
      BY <2>1, <2>2, SetInduction
  <2> QED
    BY <1>1, <2>3
<1>11. S \in [0..n -> Nat]
  BY <1>9, <1>10
<1>12. Denotes(s, b, W, S)
  BY ONLY <1>2, <1>4, <1>6, <1>9, <1>11 DEF Denotes, n
<1> QED
  BY <1>12

\* Reading the digits one by one, in a word, makes the last bits of what they denote.
LEMMA ValueDenoted ==
    ASSUME NEW s \in Seq(Hexadecimal), NEW b \in Nat
    PROVE  Value(s, b) = Denoted(s, b) % Word
<1> DEFINE n == Len(s)
<1>1. n \in Nat /\ Word \in Nat \ {0} /\ \A k \in 1..n : DigitOf(s[k]) \in Nat
  BY LenProperties, ElementOfSeq, DigitsRead, TypingAssumption
<1>2. PICK h : Reads(s, b, h)
  BY ValueSteps
<1>3. /\ h \in [0..n -> Nat] /\ h[0] = 0 /\ Value(s, b) = h[n]
      /\ \A k \in 1..n : h[k] = ((h[k - 1] * b) + DigitOf(s[k])) % Word
  BY <1>2 DEF Reads
<1>4. PICK W, S : Denotes(s, b, W, S)
  BY DenotedSteps
<1>5. /\ W \in [0..n -> Nat] /\ S \in [0..n -> Nat] /\ W[0] = 1 /\ S[0] = 0 /\ Denoted(s, b) = S[n]
      /\ \A k \in 1..n : W[k] = W[k - 1] * b /\ S[k] = S[k - 1] + DigitOf(s[k]) * W[n - k]
  BY <1>4 DEF Denotes
<1> HIDE DEF n
\* What the digits read so far denote, if a word were wide enough.
<1> DEFINE f == [x \in Nat \X (1..n) |-> (x[1] * b) + DigitOf(s[x[2]])]
<1>6. f \in [Nat \X (1..n) -> Nat]
  <2>1. ASSUME NEW v \in Nat, NEW k \in 1..n PROVE (v * b) + DigitOf(s[k]) \in Nat
    <3>1. PICK d \in Nat : d = DigitOf(s[k])
      BY <1>1
    <3>2. v * b \in Nat
      OBVIOUS
    <3> QED
      BY <3>1, <3>2
  <2>2. ASSUME NEW x \in Nat \X (1..n) PROVE (x[1] * b) + DigitOf(s[x[2]]) \in Nat
    BY <2>1
  <2> QED
    BY ONLY <2>2
<1>7. \A v \in Nat, k \in 1..n : f[<<v, k>>] = (v * b) + DigitOf(s[k])
  OBVIOUS
<1> HIDE DEF f
<1>8. PICK g \in [0..n -> Nat] : g = [k \in 0..n |-> IF k = 0 THEN 0 ELSE f[<<g[k - 1], k>>]]
  <2>1. \E g \in [0..n -> Nat] : Accumulates(g, n, f, 0)
    BY <1>1, <1>6, Accumulation
  <2> QED
    BY <2>1 DEF Accumulates
<1>9. g[0] = 0
  BY <1>1, <1>8
<1>10. ASSUME NEW k \in 1..n PROVE g[k] = (g[k - 1] * b) + DigitOf(s[k])
  <2>1. k \in 0..n /\ k # 0 /\ k - 1 \in 0..n
    BY <1>1
  <2>2. g[k] = f[<<g[k - 1], k>>]
    BY <1>8, <2>1
  <2> QED
    BY <1>7, <1>8, <2>1, <2>2
<1> DEFINE T == {k \in Nat : k <= n => h[k] = g[k] % Word /\ g[k] * W[n - k] = S[k]}
<1>11. 0 \in T
  <2>1. 0 % Word = 0
    BY <1>1
  <2>2. PICK x \in Nat : x = W[n - 0]
    BY <1>1, <1>5
  <2>3. 0 * x = 0
    OBVIOUS
  <2> QED
    BY <1>3, <1>5, <1>9, <2>1, <2>2, <2>3
<1>12. ASSUME NEW k \in Nat, k \in T PROVE k + 1 \in T
  <2>1. SUFFICES ASSUME k + 1 <= n
                 PROVE  h[k + 1] = g[k + 1] % Word /\ g[k + 1] * W[n - (k + 1)] = S[k + 1]
    OBVIOUS
  <2>2. /\ k + 1 \in 1..n /\ (k + 1) - 1 = k /\ k <= n /\ k \in 0..n
        /\ n - k \in 1..n /\ (n - k) - 1 = n - (k + 1) /\ n - (k + 1) \in 0..n
    BY <1>1, <2>1
  <2>3. PICK x \in Nat, d \in Nat, y \in Nat : x = g[k] /\ d = DigitOf(s[k + 1]) /\ y = W[n - (k + 1)]
    BY <1>1, <1>5, <1>8, <2>2
  <2>4. g[k + 1] = (x * b) + d
    BY <1>10, <2>2, <2>3
  <2>5. h[k] = x % Word /\ S[k] = x * W[n - k]
    BY <1>12, <2>2, <2>3
  <2>6. h[k + 1] = Shifted(x % Word, b, d)
    BY <1>3, <2>2, <2>3, <2>5 DEF Shifted
  <2>a. Shifted(x % Word, b, d) = Shifted(x, b, d)
    BY ONLY RemainderCarries, x \in Nat, b \in Nat, d \in Nat, Zenon
  <2>7. h[k + 1] = g[k + 1] % Word
    BY ONLY <2>4, <2>6, <2>a, Zenon DEF Shifted
  <2>8. W[n - k] = y * b
    BY <1>5, <2>2, <2>3
  <2>9. S[k + 1] = S[k] + (d * y)
    BY <1>5, <2>2, <2>3
  <2>10. ((x * b) + d) * y = (x * (y * b)) + (d * y)
    <3>1. ((x * b) + d) * y = ((x * b) * y) + (d * y)
      BY ONLY x \in Nat, b \in Nat, d \in Nat, y \in Nat
    <3>2. (x * b) * y = x * (y * b)
      BY ONLY x \in Nat, b \in Nat, y \in Nat
    <3> QED
      BY <3>1, <3>2
  <2>11. g[k + 1] * y = S[k + 1]
    BY ONLY <2>4, <2>5, <2>8, <2>9, <2>10, Zenon
  <2> QED
    BY ONLY <2>3, <2>7, <2>11, Zenon
<1>13. n \in T
  <2>1. Nat \subseteq T
    <3> HIDE DEF T
    <3> QED
      BY <1>11, <1>12, SetInduction
  <2> QED
    BY <1>1, <2>1
<1>14. h[n] = g[n] % Word /\ g[n] = S[n]
  <2>1. h[n] = g[n] % Word /\ g[n] * W[n - n] = S[n]
    BY <1>1, <1>13
  <2>2. n - n = 0 /\ g[n] \in Nat
    BY <1>1, <1>8
  <2>3. \A x \in Nat : x * 1 = x
    OBVIOUS
  <2> QED
    BY <1>5, <2>1, <2>2, <2>3
<1> QED
  BY <1>3, <1>5, <1>14

-----------------------------------------------------------------------------
\* A text is taken for a number just if it is one, whatever the text.
THEOREM TextsRead ==
    ASSUME NEW A, NEW s \in Seq(A)
    PROVE  ReadsAs(str_to_dec(s), Decimals(s), 10) /\ ReadsAs(str_to_hex(s), Hexes(s), 16)
<1>1. Blank \notin Hexadecimal /\ Blank \notin Decimal /\ Decimal \subseteq Hexadecimal
  <2>1. \A y : y \in {" ", "x", "X"} => y \notin Hexadecimal
    BY ONLY NoDigits, Zenon
  <2>2. " " \in {" ", "x", "X"}
    BY ONLY Zenon
  <2>3. Blank \notin Hexadecimal
    BY ONLY <2>1, <2>2, Zenon DEF Blank
  <2> QED
    BY <2>3, DigitsRead
<1>2. ASSUME NEW w \in 0..Len(s), NEW S, S \subseteq Hexadecimal, NEW b \in Nat
      PROVE  ReadsAs(Number(Drop(s, w), S, b), Rows(s, S, w), b)
  <2>1. Blank \notin S
    BY <1>1, <1>2
  <2>2. /\ Number(Drop(s, w), S, b).ok <=> Rows(s, S, w) # {}
        /\ \A t \in Rows(s, S, w) : t \in Seq(S) /\ Number(Drop(s, w), S, b).val = Value(t, b)
    BY <2>1, RowsRead
  <2>3. ASSUME NEW t \in Seq(S) PROVE Value(t, b) = Denoted(t, b) % Word
    <3>1. t \in Seq(Hexadecimal)
      BY <1>2, <2>3, SeqMonotonic
    <3> QED
      BY <3>1, ValueDenoted
  <2> QED
    BY ONLY <2>2, <2>3 DEF ReadsAs
<1>3. PICK v \in 0..Len(s) : Decimals(s) = Rows(s, Decimal, v) /\ str_to_dec(s) = Number(Drop(s, v), Decimal, 10)
  BY DecimalsAre
<1>4. PICK w \in 0..Len(s) : Hexes(s) = Rows(s, Hexadecimal, w) /\ str_to_hex(s) = Number(Drop(s, w), Hexadecimal, 16)
  BY HexesAre
<1>5. ReadsAs(Number(Drop(s, v), Decimal, 10), Rows(s, Decimal, v), 10)
  BY <1>1, <1>2
<1>6. ReadsAs(Number(Drop(s, w), Hexadecimal, 16), Rows(s, Hexadecimal, w), 16)
  BY <1>2
<1> QED
  BY <1>3, <1>4, <1>5, <1>6
-----------------------------------------------------------------------------
\* A text that is nothing but digits from the place w on.
LEMMA AllRow ==
    ASSUME NEW A, NEW s \in Seq(A), NEW w \in 0..Len(s), w < Len(s), NEW S, Blank \notin S,
           \A k \in (w + 1)..Len(s) : s[k] \in S, NEW base
    PROVE  Number(Drop(s, w), S, base) = [ok |-> TRUE, val |-> Value(Drop(s, w), base)]
<1> DEFINE r == Number(Drop(s, w), S, base)
<1>1. Len(s) \in Nat /\ Len(s) \in (w + 1)..Len(s)
  <2>1. Len(s) \in Nat
    BY LenProperties
  <2> QED
    BY <2>1
<1>2. /\ r = [ok |-> r.ok, val |-> r.val] /\ r.ok \in BOOLEAN
      /\ r.ok <=> \E q \in (w + 1)..Len(s) : RowAt(s, S, w, q)
      /\ \A q \in (w + 1)..Len(s) : RowAt(s, S, w, q) => r.val = Value(SubSeq(s, w + 1, q), base)
  BY RowReads
<1>3. RowAt(s, S, w, Len(s))
  <2>1. (Len(s) + 1)..Len(s) = {}
    BY <1>1
  <2>2. \A k \in (Len(s) + 1)..Len(s) : s[k] = Blank
    BY ONLY <2>1
  <2> QED
    BY <2>2 DEF RowAt
<1> HIDE DEF r
<1>4. r.ok = TRUE /\ r.val = Value(Drop(s, w), base)
  BY ONLY <1>1, <1>2, <1>3 DEF Drop
<1> QED
  BY ONLY <1>2, <1>4 DEF r

\* A number that was printed is read back.
LEMMA DecimalsBack ==
    ASSUME NEW v \in 0..(Word - 1) PROVE str_to_dec(utoa(v, 10)) = [ok |-> TRUE, val |-> v]
<1>1. v \in Nat /\ 10 \in Nat \ {0, 1} /\ 10 \in 2..16 /\ 10 <= 10
  BY TypingAssumption
<1>2. PICK n \in Nat \ {0} : Left(v, 10, n) = 0 /\ utoa(v, 10) = [k \in 1..n |-> Digit(v, 10, n - k)]
  BY <1>1, CountIs
<1>3. PICK s : s = utoa(v, 10)
  OBVIOUS
<1>4. s \in Seq(Decimal) /\ Len(s) = n /\ Value(s, 10) = v
  <2> DEFINE row == [k \in 1..n |-> Digit(v, 10, n - k)]
  <2>1. row \in Seq(Decimal) /\ Len(row) = n /\ Value(row, 10) = v
    BY <1>1, <1>2, ReadBack
  <2> QED
    BY <1>2, <1>3, <2>1
<1>5. Blank \notin Decimal
  <2>1. \A y : y \in {" ", "x", "X"} => y \notin Hexadecimal
    BY ONLY NoDigits, Zenon
  <2>2. " " \in {" ", "x", "X"}
    BY ONLY Zenon
  <2>3. Blank \notin Hexadecimal
    BY ONLY <2>1, <2>2, Zenon DEF Blank
  <2> QED
    BY <2>3, DigitsRead
<1>6. \A k \in 1..n : s[k] \in Decimal
  BY <1>4, ElementOfSeq
<1>7. 0 \in 0..Len(s) /\ 0 < Len(s) /\ 1 \in 1..n
  BY <1>4
<1>8. SkipSpaces(s) = Drop(s, 0)
  <2>1. (\A k \in 1..0 : s[k] = Blank) /\ (0 < Len(s) => s[0 + 1] # Blank)
    BY <1>5, <1>6, <1>7
  <2>2. 0 = Span(s, {Blank})
    BY <1>4, <1>7, <2>1, StartIs
  <2> QED
    BY <1>4, <2>2, StartIs
<1>9. Drop(s, 0) = s
  <2>1. 0 + 1 = 1 /\ SubSeq(s, 1, Len(s)) = s
    BY <1>4, SubSeqFull
  <2> QED
    BY <2>1 DEF Drop
<1>10. Number(Drop(s, 0), Decimal, 10) = [ok |-> TRUE, val |-> Value(Drop(s, 0), 10)]
  <2>1. \A k \in (0 + 1)..Len(s) : s[k] \in Decimal
    BY <1>4, <1>6
  <2> QED
    BY <1>4, <1>5, <1>7, <2>1, AllRow
<1>11. str_to_dec(s) = [ok |-> TRUE, val |-> v]
  BY ONLY <1>4, <1>8, <1>9, <1>10 DEF str_to_dec
<1> QED
  BY <1>3, <1>11

LEMMA HexesBack ==
    ASSUME NEW v \in 0..(Word - 1) PROVE str_to_hex(con_print_hex(v)) = [ok |-> TRUE, val |-> v]
<1>1. v \in Nat /\ Word - 1 \in Nat /\ v <= Word - 1 /\ 16 \in Nat \ {0, 1} /\ 16 \in 2..16
  BY TypingAssumption
<1>2. PICK n \in Nat \ {0} : Left(Word - 1, 16, n) = 0 /\ HexLength = n
  <2>1. PICK n \in Nat \ {0} : /\ Left(Word - 1, 16, n) = 0
                               /\ utoa(Word - 1, 16) = [k \in 1..n |-> Digit(Word - 1, 16, n - k)]
    BY <1>1, CountIs
  <2>2. \A f : f = [k \in 1..n |-> Digit(Word - 1, 16, n - k)] => Len(f) = n
    OBVIOUS
  <2>3. HexLength = n
    BY <2>1, <2>2 DEF HexLength
  <2> QED
    BY <2>1, <2>3
<1>3. Left(v, 16, n) = 0
  <2>1. Left(v, 16, n) <= Left(Word - 1, 16, n) /\ Left(v, 16, n) \in Nat
    BY <1>1, LeftShrinks, LeftSteps
  <2> QED
    BY <1>2, <2>1
<1>4. PICK row : /\ row = [k \in 1..n |-> Digit(v, 16, n - k)] /\ row \in Seq(Hexadecimal)
                 /\ Len(row) = n /\ Value(row, 16) = v
  BY <1>1, <1>3, ReadBack
<1>5. PICK s : s = con_print_hex(v)
  OBVIOUS
<1> DEFINE B == Hexadecimal \cup {"0", "x", "X"}
<1>6. s = Mark("x") \o row
  BY <1>2, <1>4, <1>5 DEF con_print_hex, Mark
<1>7. /\ Mark("x") \in Seq(B) /\ Len(Mark("x")) = 2 /\ Mark("x")[1] = "0" /\ Mark("x")[2] = "x"
      /\ \A k \in 1..Len(Mark("x")) : Mark("x")[k] # Blank
  BY MarkIs
<1>8. row \in Seq(B)
  BY <1>4, SeqMonotonic
<1> HIDE DEF B
<1>9. /\ s \in Seq(B) /\ Len(s) = 2 + n
      /\ \A i \in 1..(2 + n) : s[i] = IF i <= 2 THEN Mark("x")[i] ELSE row[i - 2]
  <2>1. IsJoin(B, Mark("x"), 2, row, n, s)
    BY ONLY <1>4, <1>6, <1>7, <1>8, JoinIs, Zenon
  <2> QED
    BY ONLY <2>1 DEF IsJoin
<1>10. /\ s[1] = "0" /\ s[2] = "x" /\ s[1] # Blank /\ Len(s) > 1
       /\ 0 \in 0..Len(s) /\ 2 \in 0..(Len(s) - 0) /\ 2 \in 0..Len(s) /\ 2 < Len(s)
  <2>1. /\ 1 \in 1..(2 + n) /\ 2 \in 1..(2 + n) /\ Len(s) > 1 /\ 0 \in 0..Len(s) /\ 1 \in 1..2
        /\ 2 \in 0..(Len(s) - 0) /\ 2 \in 0..Len(s) /\ 2 < Len(s)
    BY <1>9
  <2> QED
    BY <1>7, <1>9, <2>1
<1>11. SkipSpaces(s) = Drop(s, 0)
  <2>1. (\A k \in 1..0 : s[k] = Blank) /\ (0 < Len(s) => s[0 + 1] # Blank)
    BY <1>10
  <2>2. 0 = Span(s, {Blank})
    BY <1>9, <1>10, <2>1, StartIs
  <2> QED
    BY <1>9, <2>2, StartIs
<1>12. Drop(s, 0) = s
  <2>1. 0 + 1 = 1 /\ SubSeq(s, 1, Len(s)) = s
    BY <1>9, SubSeqFull
  <2> QED
    BY <2>1 DEF Drop
<1>13. \A k \in 1..n : s[2 + k] = row[k]
  <2>1. ASSUME NEW k \in 1..n PROVE s[2 + k] = row[k]
    <3>1. 2 + k \in 1..(2 + n) /\ ~(2 + k <= 2) /\ (2 + k) - 2 = k
      OBVIOUS
    <3> QED
      BY <1>9, <3>1
  <2> QED
    BY <2>1
<1>14. Drop(s, 2) = row
  <2>1. /\ Drop(s, 2) \in Seq(B) /\ Len(Drop(s, 2)) = Len(s) - 2
        /\ \A k \in 1..(Len(s) - 2) : Drop(s, 2)[k] = s[2 + k]
    <3>1. s \in Seq(B) /\ 2 \in 0..Len(s)
      BY <1>9, <1>10
    <3>2. IsPart(B, s, 2, Len(s), Drop(s, 2))
      BY <3>1, DropIs, Zenon
    <3> QED
      BY ONLY <3>2 DEF IsPart
  <2>2. Len(s) - 2 = n
    BY <1>9
  <2> QED
    BY ONLY <1>4, <1>8, <1>13, <2>1, <2>2, SeqEqual
<1>15. Blank \notin Hexadecimal
  <2>1. \A y : y \in {" ", "x", "X"} => y \notin Hexadecimal
    BY ONLY NoDigits, Zenon
  <2>2. " " \in {" ", "x", "X"}
    BY ONLY Zenon
  <2> QED
    BY ONLY <2>1, <2>2, Zenon DEF Blank
<1>16. \A k \in (2 + 1)..Len(s) : s[k] \in Hexadecimal
  <2>1. ASSUME NEW k \in (2 + 1)..Len(s) PROVE s[k] \in Hexadecimal
    <3>1. k - 2 \in 1..n /\ 2 + (k - 2) = k
      BY <1>9
    <3>2. row[k - 2] \in Hexadecimal
      BY <1>4, <3>1, ElementOfSeq
    <3> QED
      BY <1>13, <3>1, <3>2
  <2> QED
    BY <2>1
<1>17. Number(Drop(s, 2), Hexadecimal, 16) = [ok |-> TRUE, val |-> Value(Drop(s, 2), 16)]
  BY <1>9, <1>10, <1>15, <1>16, AllRow
<1>18. str_to_hex(s) = Number(Drop(s, 2), Hexadecimal, 16)
  BY <1>10, <1>11, <1>12 DEF str_to_hex
<1> QED
  BY <1>4, <1>5, <1>14, <1>17, <1>18

LEMMA NumbersAllRight == NumbersRight
<1>1. \A v \in 0..(Word - 1) : /\ str_to_dec(utoa(v, 10)) = [ok |-> TRUE, val |-> v]
                               /\ str_to_hex(con_print_hex(v)) = [ok |-> TRUE, val |-> v]
  BY DecimalsBack, HexesBack
<1>2. ASSUME NEW s \in Texts
      PROVE  ReadsAs(str_to_dec(s), Decimals(s), 10) /\ ReadsAs(str_to_hex(s), Hexes(s), 16)
  <2>1. \A C : \A n \in 0..4 : \A u \in [1..n -> C] : u \in Seq(C)
    OBVIOUS
  <2>2. \E C : \E n \in 0..4 : s \in [1..n -> C]
    BY ONLY s \in Texts, Zenon DEF Texts
  <2>3. PICK C : s \in Seq(C)
    BY ONLY <2>1, <2>2
  <2> QED
    BY <2>3, TextsRead
<1> QED
  BY ONLY <1>1, <1>2 DEF NumbersRight

\* For any keys, any length of the buffer and any width of a word: the line is the one that
\* was typed, a command is chosen by the whole first word of the line, a number that was
\* printed is read back, and a text is taken for a number just if it is one
\* (keyboard.c:41-88, kernel_main.c:619-839, string.c:83-168, fb_console.c:82-97).  The
\* lemmas ChosenRight and TextsRead say of every text what the run asks of short ones.
THEOREM TypedIsDone == TypingSpec => []TypingRight
<1>1. TypingTypeOK /\ LineMeant => TypingRight
  BY CommandsAllRight, NumbersAllRight DEF TypingRight
<1> QED
  BY <1>1, LineIsMeant, PTL

-----------------------------------------------------------------------------
\* The memory the kernel finds.
\* A kernel of n sectors lies over nothing.
KernelClear(n) ==
    /\ Kernel(n).to <= HEAP_START
    /\ \A r \in {KernelInfo, Tables, Stack} : Apart(r, Kernel(n))

LEMMA RegionsStayApart ==
    ASSUME Stage2Size <= 512, KernelSectors \subseteq 1..2041 PROVE RegionsApart
<1>1. Stage2Size \in Nat
  BY MemoryAssumption
<1>2. /\ Apart(Stage2, VbeInfo) /\ Apart(VbeInfo, KernelInfo) /\ Apart(Stage2, Stack16)
      /\ Apart(KernelInfo, Tables) /\ Apart(Stage2, Tables)
      /\ Apart(Stage2, Stack) /\ Apart(KernelInfo, Stack) /\ Apart(Tables, Stack)
  BY <1>1, SMTT(30) DEF Apart, Stage2, VbeInfo, KernelInfo, Tables, Stack, Stack16
<1>3. ASSUME NEW n \in KernelSectors PROVE KernelClear(n)
  <2>1. n \in 1..2041
    OBVIOUS
  <2>2. /\ Kernel(n).to <= HEAP_START
        /\ Apart(KernelInfo, Kernel(n)) /\ Apart(Tables, Kernel(n)) /\ Apart(Stack, Kernel(n))
    BY <2>1, SMTT(30) DEF Kernel, Loop, HEAP_START, Apart, KernelInfo, Tables, Stack
  <2> QED
    BY ONLY <2>2 DEF KernelClear
<1>5. \A n \in KernelSectors :
        Kernel(n).to <= HEAP_START /\ \A r \in {KernelInfo, Tables, Stack} : Apart(r, Kernel(n))
  BY ONLY <1>3 DEF KernelClear
<1>6. \A r \in {Stage2, KernelInfo, Tables} : Apart(r, Stack)
  BY ONLY <1>2
<1> QED
  BY ONLY <1>2, <1>5, <1>6 DEF RegionsApart

LEMMA PagesAllFit == PagesFit
BY SMTT(30) DEF PagesFit, total_pages, BITMAP_SIZE, base_addr, HEAP_START, HEAP_END, PAGE_SIZE,
       reserved_end_page

\* A sector's number survives the drive's registers.
LEMMA SectorKept == ASSUME NEW lba \in 0..2047 PROVE SectorOf(Selected(lba)) = lba
<1>1. 2^24 = 16777216
  BY SMTT(30)
<1>2. lba \div 2^24 = 0 /\ lba \div 65536 = 0
  BY <1>1, SMTT(30)
<1>3. /\ (224 + ((lba \div 2^24) % 16)) % 16 = 0 /\ (lba \div 65536) % 256 = 0
  BY <1>2, SMTT(30)
<1>4. ((lba \div 256) % 256) * 256 + (lba % 256) = lba
  OBVIOUS
<1>5. 0 * 2^24 = 0 /\ 0 * 65536 = 0
  BY <1>1, SMTT(30)
<1>6. (lba \div 256) % 256 \in Nat /\ lba % 256 \in Nat
  OBVIOUS
<1> QED
  BY <1>3, <1>4, <1>5, <1>6, SMTT(30) DEF SectorOf, Selected

\* The sector of turn k comes from where it was put and goes where it was linked for.
Placed(k) ==
    LET sector == SectorOf(Selected(Loop(k).rbx)) IN
    /\ Loop(k).rdi = \h200000 + 512 * (sector - 7)
    /\ sector \in 7..(FAT16_PARTITION_LBA - 1)

LEMMA KernelIsLoaded == ASSUME KernelSectors \subseteq 1..2041 PROVE KernelLoaded
<1>1. ASSUME NEW n \in KernelSectors, NEW k \in 0..(n - 1) PROVE Placed(k)
  <2>4. n \in 1..2041
    OBVIOUS
  <2>1. 7 + k \in 0..2047 /\ k \in Nat /\ k <= 2040
    BY <2>4
  <2>2. SectorOf(Selected(7 + k)) = 7 + k
    BY <2>1, SectorKept
  <2>3. \h200000 + k * (2 * 256) = \h200000 + 512 * ((7 + k) - 7) /\ 7 + k \in 7..(2048 - 1)
    BY <2>1, SMTT(30)
  <2>5. Loop(k).rbx = 7 + k /\ Loop(k).rdi = \h200000 + k * (2 * 256)
    BY SMT DEF Loop
  <2>6. SectorOf(Selected(Loop(k).rbx)) = 7 + k
    BY ONLY <2>2, <2>5
  <2> QED
    BY ONLY <2>3, <2>5, <2>6, SMT DEF FAT16_PARTITION_LBA, Placed
<1>2. \A n \in KernelSectors : \A k \in 0..(n - 1) : Placed(k)
  BY ONLY <1>1
<1>3. (\A n \in KernelSectors : \A k \in 0..(n - 1) : Placed(k)) => KernelLoaded
  BY SMT DEF KernelLoaded, Placed
<1> QED
  BY <1>2, <1>3

\* What the tables hold: the directories, and the pages of 2 MB in them.
DirectoryAt(m) == Entry(\h11000 + 8 * m)
PageAt(k) == Entry(\h12000 + 8 * k)

LEMMA DirectoryHolds ==
    ASSUME NEW m \in 0..3 PROVE DirectoryAt(m) = [frame |-> \h12 + m, flags |-> 3]
<1>1. /\ \h11000 + 8 * m # \h10000 /\ \h11000 + 8 * m \in {\h11000 + 8 * n : n \in 0..3}
      /\ (\h11000 + 8 * m - \h11000) \div 8 = m /\ ~(\h11000 + 8 * m >= \h12000)
  OBVIOUS
<1> QED
  BY <1>1, SMT DEF DirectoryAt, Entry, Directory

LEMMA NoMoreDirectories == DirectoryAt(4) = Zero
<1>1. /\ \h11000 + 8 * 4 # \h10000 /\ \h11000 + 8 * 4 \notin {\h11000 + 8 * n : n \in 0..3}
      /\ ~(\h11000 + 8 * 4 >= \h12000)
  OBVIOUS
<1> QED
  BY <1>1, SMT DEF DirectoryAt, Entry

LEMMA PageHolds ==
    ASSUME NEW k \in 0..2047 PROVE PageAt(k) = BuildPd(k)
<1>1. /\ \h12000 + 8 * k # \h10000 /\ \h12000 + 8 * k \notin {\h11000 + 8 * n : n \in 0..3}
      /\ \h12000 + 8 * k >= \h12000 /\ \h12000 + 8 * k < \h12000 + 8 * 2048
      /\ (\h12000 + 8 * k - \h12000) \div 8 = k
  OBVIOUS
<1> QED
  BY <1>1, SMT DEF PageAt, Entry

LEMMA MappedOne == ASSUME NEW v \in Pages PROVE Walk(v) = Itself(v)
<1>0. v \in 0..2559
  BY DEF Pages
<1> DEFINE pml4e == Entry(\h10000 + 8 * (v \div 2^18))
           pdpte == Entry(pml4e.frame * PAGE_SIZE + 8 * ((v \div 512) % 512))
           pde == Entry(pdpte.frame * PAGE_SIZE + 8 * (v % 512))
<1>2. Walk(v) = IF IsPresent(pml4e) /\ IsPresent(pdpte) /\ IsPresent(pde) THEN {pde.frame} ELSE {}
  BY DEF Walk
<1>3. v \div 2^18 = 0
  <2>1. 2^18 = 262144
    OBVIOUS
  <2> QED
    BY <1>0, <2>1
<1> DEFINE m == v \div 512
<1>4. m \in 0..4 /\ v % 512 \in 0..511 /\ v = 512 * m + (v % 512)
  BY <1>0
<1>5. m % 512 = m
  BY <1>4
<1>6. pml4e = [frame |-> \h11, flags |-> 3]
  <2>1. \h10000 + 8 * (v \div 2^18) = \h10000
    BY <1>3
  <2>2. Entry(\h10000) = [frame |-> \h11, flags |-> 3]
    BY SMT DEF Entry
  <2> QED
    BY <2>1, <2>2, SMT
<1>7. pdpte = DirectoryAt(m)
  <2>1. pml4e.frame * PAGE_SIZE + 8 * ((v \div 512) % 512) = \h11000 + 8 * m
    BY <1>4, <1>5, <1>6 DEF PAGE_SIZE
  <2> QED
    BY <2>1, SMT DEF DirectoryAt
<1> HIDE DEF pml4e, pdpte, m
<1>8. CASE v < 2048
  <2>1. m \in 0..3 /\ v \in 0..2047
    BY <1>4, <1>8
  <2>2. pdpte = [frame |-> \h12 + m, flags |-> 3]
    BY ONLY <1>7, <2>1, DirectoryHolds
  <2>3. pdpte.frame * PAGE_SIZE + 8 * (v % 512) = \h12000 + 8 * v
    BY <1>4, <2>2, SMT DEF PAGE_SIZE
  <2>4. pde = BuildPd(v)
    <3>1. pde = PageAt(v)
      BY <2>3, SMT DEF PageAt
    <3>2. PageAt(v) = BuildPd(v)
      BY ONLY <2>1, PageHolds
    <3> QED
      BY ONLY <3>1, <3>2
  <2>5. IsPresent(pml4e) /\ IsPresent(pdpte) /\ IsPresent(pde)
    BY <1>6, <2>2, <2>4 DEF IsPresent, BuildPd
  <2> QED
    BY <1>2, <1>8, <2>4, <2>5 DEF BuildPd, Itself
<1>9. CASE ~(v < 2048)
  <2>1. m = 4
    BY <1>4, <1>9
  <2>2. pdpte = Zero
    BY <1>7, <2>1, NoMoreDirectories
  <2>3. ~IsPresent(pdpte)
    BY <2>2 DEF IsPresent, Zero
  <2> QED
    BY <1>2, <1>9, <2>3 DEF Itself
<1> QED
  BY <1>8, <1>9

LEMMA MappedToItself == IdentityMapped
BY ONLY MappedOne DEF IdentityMapped

\* A pixel in its line.
LEMMA PixelInLine ==
    ASSUME NEW pitch \in {7, 640}, NEW height \in {480, 768},
           NEW x \in Nat, x < pitch, NEW y \in Nat, y < height
    PROVE  LET byte == y * pitch + x
           IN  byte \div pitch = y /\ byte % pitch = x /\ byte < pitch * height
OBVIOUS

LEMMA PixelsStayApart == PixelsApart
<1>1. SUFFICES ASSUME NEW bpp \in {4, 8, 15, 24, 32}, NEW addr \in {0, FrameBuffer}, NEW pitch \in {0, 7, 640},
                      NEW s \in fb_init([addr |-> addr, pitch |-> pitch, bpp |-> bpp]),
                      NEW x \in {0, 1, s.width - 1, s.width}, NEW y \in {0, 1, s.height - 1, s.height},
                      NEW byte \in fb_put_pixel(s, x, y)
               PROVE  byte \div s.pitch = y /\ byte % s.pitch = x /\ byte < s.pitch * s.height
  BY Zenon DEF PixelsApart
<1>2. PICK p \in {7, 640}, h \in {480, 768}, w \in Nat \ {0} :
             w <= p /\ s = [pitch |-> p, width |-> w, height |-> h]
  BY DEF fb_init
<1>3. x < w /\ y < h /\ byte = y * p + x
  BY <1>2 DEF fb_put_pixel
<1>4. x \in Nat /\ y \in Nat /\ x < p
  BY <1>2, <1>3
<1> QED
  BY <1>2, <1>3, <1>4, PixelInLine

\* From the boot loader on, for any kernel of the size that the comment at stage2.asm:193
\* allows, and for a stage 2 that ends before what the BIOS writes: nothing lies over
\* anything else, and no interrupt finds the kernel half set up (stage2.asm:18-247,
\* kernel_main.c:1024-1121).
THEOREM StartIsRight ==
    ASSUME Stage2Size <= 512, KernelSectors \subseteq 1..2041 PROVE BootSpec => []StartRight
<1>1. MemoryLaidOut
  BY RegionsStayApart, PagesAllFit, KernelIsLoaded, MappedToItself, PixelsStayApart DEF MemoryLaidOut
<1>2. HandlersReady => StartRight
  BY <1>1 DEF StartRight
<1> QED
  BY <1>2, HandlersComeFirst, PTL
=============================================================================

---------------------------- MODULE DeviceProofs ----------------------------
(***************************************************************************)
(* Proofs about the components that drive a device.                        *)
(*                                                                         *)
(* gpio: the inhibition of a pin counts requests, for any width of the     *)
(* counter and any inhibition, negative ones included, and the answers to  *)
(* an order grow and end complete.                                         *)
(*                                                                         *)
(* sphinx: an order waits for one text at most.  The main thread empties   *)
(* its queue before it looks at record and listens, so an order that comes *)
(* in while it does is there when the text is published, and is taken      *)
(* before the next one.                                                    *)
(*                                                                         *)
(* canbus: nothing is found in the map, so it only grows.  speech: what a  *)
(* cancel cuts is the last text ordered.  tty: a text keeps the ends of    *)
(* longer lines before it.                                                 *)
(***************************************************************************)
EXTENDS Gpio, Can, Tty, Speech, Sphinx, SequenceTheorems, TLAPS

-----------------------------------------------------------------------------
(***************************************************************************)
(* Lemmas for all of them: the values of a sequence, of its head, and of a *)
(* key of the configuration.                                               *)
(***************************************************************************)
LEMMA RangeOf ==
  ASSUME NEW S, NEW s \in Seq(S)
  PROVE  Range(s) \subseteq S
  BY DEF Range

LEMMA HeadTail ==
  ASSUME NEW S, NEW s \in Seq(S), s # <<>>
  PROVE  Head(s) \in S /\ Tail(s) \in Seq(S)
  OBVIOUS

LEMMA GetVal ==
  ASSUME NEW old
  PROVE  /\ get_val(old, {}) = old
         /\ \A v : get_val(old, {v}) = v
<1>1. get_val(old, {}) = old
  BY DEF get_val
<1>2. ASSUME NEW v PROVE get_val(old, {v}) = v
  <2>1. (CHOOSE x \in {v} : TRUE) = v
    OBVIOUS
  <2> QED BY <2>1 DEF get_val
<1> QED BY <1>1, <1>2

\* A key that holds a value of a type, or is missing, leaves one of the type.
LEMMA GetTyped ==
  ASSUME NEW S, NEW old \in S, NEW object \in SUBSET S
  PROVE  get_val(old, object) \in S
<1>1. CASE object = {}
  BY <1>1 DEF get_val
<1>2. CASE object # {}
  <2>1. PICK v : v \in object
    BY <1>2
  <2>2. (CHOOSE x \in object : TRUE) \in object
    BY <2>1, Zenon
  <2> QED BY <1>2, <2>2 DEF get_val
<1> QED BY <1>1, <1>2

-----------------------------------------------------------------------------
\* What a conversion to int8_t yields is in its range.
LEMMA Int8Range == ASSUME NEW d \in Int PROVE int8_t(d) \in -Half..Half - 1
  BY GpioAssumption DEF int8_t

\* A number in the range is kept, and the one below it becomes the largest.
LEMMA Int8Value ==
  ASSUME NEW d \in -Half - 1..Half - 1
  PROVE  int8_t(d) = IF d < -Half THEN Half - 1 ELSE d
<1>1. CASE d >= -Half
  <2>1. d + Half \in 0..2 * Half - 1 BY <1>1, GpioAssumption
  <2>2. (d + Half) % (2 * Half) = d + Half BY <2>1, GpioAssumption
  <2> QED BY <1>1, <2>2, GpioAssumption DEF int8_t
<1>2. CASE d = -Half - 1
  <2>1. (d + Half) % (2 * Half) = 2 * Half - 1 BY <1>2, GpioAssumption
  <2> QED BY <1>2, <2>1, GpioAssumption DEF int8_t
<1> QED BY <1>1, <1>2, GpioAssumption

\* The window of an inhibition: itself, or once around the counter.
Around(i) == IF i < 0 THEN i + 2 * Half ELSE i

LEMMA WindowValue ==
  ASSUME NEW i \in -Half..Half - 1
  PROVE  i % (2 * Half) = Around(i)
  BY GpioAssumption DEF Around

\* Where the countdown stands after w requests.
Stands(i, w) == IF i - w < -Half THEN i - w + 2 * Half ELSE i - w

(***************************************************************************)
(* The inductive invariant: the countdown is what the requests since the   *)
(* last measurement made of the inhibition, and there were no more of them *)
(* than the window has.                                                    *)
(***************************************************************************)
Counters ==
  /\ inhibition \in [Pins -> -Half..Half - 1]
  /\ countdown \in [Pins -> -Half..Half - 1]
  /\ waited \in [Pins -> Int]

Counting ==
  \A p \in Pins :
    /\ waited[p] \in 0..Around(inhibition[p])
    /\ countdown[p] = Stands(inhibition[p], waited[p])

NotYetCounting == pinStep = "config" => countdown = [p \in Pins |-> 0]

CountInv == Counters /\ Counting /\ NotYetCounting

\* Every pin of an unconfigured component has an inhibition of none.
LEMMA CountInit == GpioInit => CountInv
  BY GpioAssumption
     DEF GpioInit, CountInv, Counters, Counting, NotYetCounting, Around, Stands, Pins

\* The configuration gives every pin an inhibition, and a measurement with the
\* first request.
LEMMA CountConfig == ASSUME CountInv, gpio_custom_config PROVE CountInv'
<1>1. PICK d \in [Pins -> Inhibitions] :
        inhibition' = [p \in Pins |-> int8_t(d[p])]
  BY DEF gpio_custom_config
<1>2. inhibition' \in [Pins -> -Half..Half - 1]
  BY <1>1, Int8Range, GpioAssumption
<1>3. waited' = [p \in Pins |-> Around(inhibition'[p])]
  BY <1>2, WindowValue DEF gpio_custom_config
<1>4. countdown' = [p \in Pins |-> 0] /\ pinStep' = "idle"
  BY DEF gpio_custom_config, CountInv, NotYetCounting
<1>5. Counters'
  BY <1>2, <1>3, <1>4, GpioAssumption DEF Counters, Around
<1>6. ASSUME NEW p \in Pins
      PROVE  /\ waited'[p] \in 0..Around(inhibition'[p])
             /\ countdown'[p] = Stands(inhibition'[p], waited'[p])
  BY <1>2, <1>3, <1>4, GpioAssumption DEF Around, Stands
<1> QED BY <1>4, <1>5, <1>6 DEF CountInv, Counting, NotYetCounting

\* One request more, the window not being over.
LEMMA StandsNext ==
  ASSUME NEW i \in -Half..Half - 1, NEW w \in 0..Around(i), w # Around(i)
  PROVE  /\ w + 1 \in 0..Around(i)
         /\ Stands(i, w + 1) \in -Half..Half - 1
         /\ Stands(i, w + 1) = IF Stands(i, w) = -Half THEN Half - 1
                               ELSE Stands(i, w) - 1
<1> USE GpioAssumption DEF Around, Stands
<1>1. i \in Int /\ w \in Int /\ Half \in Int /\ Half > 0 OBVIOUS
<1>2. CASE i < 0 BY <1>1, <1>2
<1>3. CASE i >= 0 BY <1>1, <1>3
<1> QED BY <1>1, <1>2, <1>3

\* A request that does not find the countdown at zero is one more of the window.
LEMMA CountInhibit == ASSUME CountInv, Inhibit PROVE CountInv'
<1> USE GpioAssumption
<1>1. /\ countdown[pin] # 0
      /\ countdown' = [countdown EXCEPT ![pin] = int8_t(countdown[pin] - 1)]
      /\ waited' = [waited EXCEPT ![pin] = waited[pin] + 1]
      /\ inhibition' = inhibition /\ pinStep = "pin" /\ pinStep' = "pin"
  BY DEF Inhibit, AtPin, configVars
<1>2. ASSUME NEW p \in Pins
      PROVE  /\ waited'[p] \in 0..Around(inhibition[p])
             /\ countdown'[p] = Stands(inhibition[p], waited'[p])
             /\ countdown'[p] \in -Half..Half - 1
  <2>1. /\ waited[p] \in 0..Around(inhibition[p])
        /\ countdown[p] = Stands(inhibition[p], waited[p])
        /\ inhibition[p] \in -Half..Half - 1
        /\ countdown[p] \in -Half..Half - 1
    BY DEF CountInv, Counting, Counters
  <2>2. CASE p # pin
    BY <1>1, <2>1, <2>2 DEF CountInv, Counters
  <2>3. CASE p = pin
    <3>1. /\ countdown'[p] = int8_t(countdown[p] - 1)
          /\ waited'[p] = waited[p] + 1 /\ countdown[p] # 0
      BY <1>1, <2>3 DEF CountInv, Counters
    <3>2. countdown'[p] = IF countdown[p] = -Half THEN Half - 1 ELSE countdown[p] - 1
      BY <2>1, <3>1, Int8Value
    <3>3. waited[p] # Around(inhibition[p])
      BY <2>1, <3>1 DEF Around, Stands
    <3> QED BY <2>1, <3>1, <3>2, <3>3, StandsNext
  <2> QED BY <2>2, <2>3
<1>3. Counters'
  <2>1. \A p \in Pins : waited'[p] \in Int /\ countdown'[p] \in -Half..Half - 1
    BY <1>2 DEF CountInv, Counters, Around
  <2>2. /\ waited' = [p \in Pins |-> waited'[p]]
        /\ countdown' = [p \in Pins |-> countdown'[p]]
    BY <1>1 DEF CountInv, Counters
  <2> QED BY <1>1, <2>1, <2>2 DEF CountInv, Counters
<1> QED BY <1>1, <1>2, <1>3 DEF CountInv, Counting, NotYetCounting

\* A measurement begins a new window.
LEMMA CountMeasure == ASSUME CountInv, Measure PROVE CountInv'
<1> USE GpioAssumption
<1>1. /\ countdown' = [countdown EXCEPT ![pin] = inhibition[pin]]
      /\ waited' = [waited EXCEPT ![pin] = 0]
      /\ inhibition' = inhibition /\ pinStep = "pin" /\ pinStep' = "pin"
  BY DEF Measure, AtPin, configVars
<1>2. Counters'
  <2>1. \A p \in Pins : waited'[p] \in Int /\ countdown'[p] \in -Half..Half - 1
    BY <1>1 DEF CountInv, Counters
  <2>2. /\ waited' = [p \in Pins |-> waited'[p]]
        /\ countdown' = [p \in Pins |-> countdown'[p]]
    BY <1>1 DEF CountInv, Counters
  <2> QED BY <1>1, <2>1, <2>2 DEF CountInv, Counters
<1>3. Counting'
  BY <1>1 DEF CountInv, Counters, Counting, Around, Stands
<1> QED BY <1>1, <1>2, <1>3 DEF CountInv, NotYetCounting

\* No other step touches the counters.
LEMMA CountStep == CountInv /\ [GpioNext]_gpioVars => CountInv'
<1> SUFFICES ASSUME CountInv, [GpioNext]_gpioVars PROVE CountInv'
  OBVIOUS
<1>1. CASE gpio_custom_config BY <1>1, CountConfig
<1>2. CASE Inhibit BY <1>2, CountInhibit
<1>3. CASE Measure BY <1>3, CountMeasure
<1>4. CASE UNCHANGED <<inhibition, countdown, waited>>
           /\ (pinStep' = "config" => pinStep = "config")
  BY <1>4 DEF CountInv, Counters, Counting, NotYetCounting
<1>5. CASE PinOrder \/ NextEntry \/ OrderDone \/ SkipPin \/ Write \/ EntryDone
  BY <1>4, <1>5 DEF PinOrder, NextEntry, OrderDone, SkipPin, Write, EntryDone,
     AtPin, configVars
<1>6. CASE UNCHANGED gpioVars BY <1>4, <1>6 DEF gpioVars, configVars
<1> QED BY <1>1, <1>2, <1>3, <1>5, <1>6 DEF GpioNext

\* The countdown is at zero exactly when the window is over.
LEMMA CountImplies == CountInv => InhibitionCounts
<1> SUFFICES ASSUME CountInv, NEW p \in Pins
             PROVE  /\ waited[p] <= Window(p)
                    /\ countdown[p] = 0 <=> waited[p] = Window(p)
  BY DEF InhibitionCounts
<1>1. inhibition[p] \in -Half..Half - 1
  BY DEF CountInv, Counters
<1>2. Window(p) = Around(inhibition[p])
  BY <1>1, WindowValue DEF Window
<1> QED BY <1>1, <1>2, GpioAssumption DEF CountInv, Counting, Around, Stands

\* A pin is measured after exactly as many requests as its inhibition says, and
\* a negative inhibition takes the counter once around: for any number of pins,
\* any orders, any width of the counter and any inhibition.
THEOREM InhibitionCorrect == GpioSpec => []InhibitionCounts
  BY CountInit, CountStep, CountImplies, PTL DEF GpioSpec

-----------------------------------------------------------------------------
(***************************************************************************)
(* The answers.                                                            *)
(***************************************************************************)
Values == [pin : Pins, value : {-1, 0, 1}]

\* What was measured for the order, so far.
TailReports == tail = reported /\ (changed <=> reported # <<>>)

\* An answer is not empty and is the beginning of what was measured.
Begins(answer, all) ==
  /\ answer # <<>>
  /\ Len(answer) <= Len(all)
  /\ answer = SubSeq(all, 1, Len(answer))

Growing ==
  \A i \in 1..Len(answers) :
    /\ Begins(answers[i], reported)
    /\ i > 1 => Len(answers[i - 1]) <= Len(answers[i])

\* Between two entries, and before the first, the last answer is complete.
Complete ==
  pinStep \in {"config", "entry", "idle"} /\ reported # <<>> =>
    answers # <<>> /\ answers[Len(answers)] = reported

AnswersInv ==
  /\ pin \in Nat \ {0}
  /\ reported \in Seq(Values)
  /\ answers \in Seq(Seq(Values))
  /\ TailReports
  /\ Growing
  /\ Complete

LEMMA AnswersInit == GpioInit => AnswersInv
  BY DEF GpioInit, AnswersInv, TailReports, Growing, Complete

\* What was the beginning still is with one more at the end.
LEMMA BeginsStill ==
  ASSUME NEW all \in Seq(Values), NEW v \in Values, NEW answer \in Seq(Values),
         Begins(answer, all)
  PROVE  Begins(answer, Append(all, v))
<1>1. Append(all, v) \in Seq(Values) /\ Len(Append(all, v)) = Len(all) + 1
  OBVIOUS
<1>2. \A i \in 1..Len(all) : Append(all, v)[i] = all[i]
  OBVIOUS
<1>3. Len(answer) \in Nat /\ Len(answer) <= Len(all) /\ Len(all) \in Nat
  BY DEF Begins
<1>4. \A i \in 1..Len(answer) : SubSeq(Append(all, v), 1, Len(answer))[i]
                                   = SubSeq(all, 1, Len(answer))[i]
  BY <1>1, <1>2, <1>3
<1>5. /\ SubSeq(Append(all, v), 1, Len(answer)) \in Seq(Values)
      /\ Len(SubSeq(Append(all, v), 1, Len(answer))) = Len(answer)
      /\ SubSeq(all, 1, Len(answer)) \in Seq(Values)
      /\ Len(SubSeq(all, 1, Len(answer))) = Len(answer)
  BY <1>1, <1>3
<1>6. SubSeq(Append(all, v), 1, Len(answer)) = SubSeq(all, 1, Len(answer))
  BY <1>4, <1>5, SeqEqual
<1> QED BY <1>1, <1>3, <1>6 DEF Begins

\* A sequence begins with itself.
LEMMA BeginsItself ==
  ASSUME NEW all \in Seq(Values), all # <<>> PROVE Begins(all, all)
<1>1. SubSeq(all, 1, Len(all)) = all OBVIOUS
<1> QED BY <1>1 DEF Begins

\* A measurement that is reported, or is not.
LEMMA AnswersMeasure == ASSUME AnswersInv, Measure PROVE AnswersInv'
<1>1. PICK read \in gpio_read(pin) :
        IF value \in {-1, read}
        THEN /\ tail' = Append(tail, [pin |-> pin, value |-> read])
             /\ reported' = Append(reported, [pin |-> pin, value |-> read])
             /\ changed' = TRUE
        ELSE UNCHANGED <<tail, reported, changed>>
  BY DEF Measure
<1> DEFINE v == [pin |-> pin, value |-> read]
<1>2. v \in Values
  BY DEF AnswersInv, Measure, AtPin, gpio_read, Values, Pins
<1>3. pinStep' = "pin" /\ answers' = answers /\ pin' \in Nat \ {0}
  BY DEF Measure, AtPin, AnswersInv
<1>4. CASE reported' = reported /\ tail' = tail /\ changed' = changed
  BY <1>3, <1>4 DEF AnswersInv, TailReports, Growing, Complete
<1>5. CASE tail' = Append(tail, v) /\ reported' = Append(reported, v) /\ changed'
  <2> HIDE DEF v
  <2>1. reported' \in Seq(Values) /\ reported' # <<>> /\ tail' = reported'
    BY <1>2, <1>5 DEF AnswersInv, TailReports
  <2>2. Growing'
    <3> SUFFICES ASSUME NEW i \in 1..Len(answers)
                 PROVE  /\ Begins(answers[i], reported')
                        /\ i > 1 => Len(answers[i - 1]) <= Len(answers[i])
      BY <1>3 DEF Growing
    <3>1. answers[i] \in Seq(Values) /\ Begins(answers[i], reported)
      BY DEF AnswersInv, Growing
    <3> QED BY <1>2, <1>5, <3>1, BeginsStill DEF AnswersInv, Growing
  <2> QED BY <1>3, <1>5, <2>1, <2>2 DEF AnswersInv, TailReports, Complete
<1> QED BY <1>1, <1>4, <1>5

\* Behind an entry, all that was measured is sent.
LEMMA AnswersEntry == ASSUME AnswersInv, EntryDone PROVE AnswersInv'
<1>1. /\ UNCHANGED <<reported, tail, changed, pin>>
      /\ answers' = IF changed THEN Append(answers, tail) ELSE answers
  BY DEF EntryDone
<1>2. CASE ~changed
  BY <1>1, <1>2 DEF AnswersInv, TailReports, Growing, Complete
<1>3. CASE changed
  <2>1. answers' = Append(answers, reported) /\ reported # <<>>
    BY <1>1, <1>3 DEF AnswersInv, TailReports
  <2>2. /\ answers' \in Seq(Seq(Values))
        /\ Len(answers') = Len(answers) + 1 /\ Len(answers) \in Nat
        /\ answers'[Len(answers')] = reported
        /\ \A i \in 1..Len(answers) : answers'[i] = answers[i]
    BY <2>1 DEF AnswersInv
  <2>3. Growing'
    <3> SUFFICES ASSUME NEW i \in 1..Len(answers')
                 PROVE  /\ Begins(answers'[i], reported)
                        /\ i > 1 => Len(answers'[i - 1]) <= Len(answers'[i])
      BY <1>1 DEF Growing
    <3>1. CASE i \in 1..Len(answers)
      <4>1. i > 1 => i - 1 \in 1..Len(answers)
        BY <2>2, <3>1
      <4> QED BY <2>2, <3>1, <4>1 DEF AnswersInv, Growing
    <3>2. CASE i = Len(answers')
      <4>1. Begins(answers'[i], reported)
        BY <2>1, <2>2, <3>2, BeginsItself DEF AnswersInv
      <4>2. i > 1 => i - 1 \in 1..Len(answers)
        BY <2>2, <3>2
      <4>3. i > 1 => Begins(answers'[i - 1], reported)
        BY <2>2, <4>2 DEF AnswersInv, Growing
      <4> QED BY <2>2, <3>2, <4>1, <4>3 DEF Begins
    <3> QED BY <2>2, <3>1, <3>2
  <2> QED BY <1>1, <2>1, <2>2, <2>3 DEF AnswersInv, TailReports, Complete
<1> QED BY <1>2, <1>3

\* Nothing was measured before the configuration.
LEMMA AnswersConfig == ASSUME AnswersInv, gpio_custom_config PROVE AnswersInv'
  BY DEF gpio_custom_config, localVars, answerVars, AnswersInv, TailReports,
         Growing, Complete

LEMMA AnswersStep == AnswersInv /\ [GpioNext]_gpioVars => AnswersInv'
<1> SUFFICES ASSUME AnswersInv, [GpioNext]_gpioVars PROVE AnswersInv'
  OBVIOUS
<1>1. CASE Measure BY <1>1, AnswersMeasure
<1>2. CASE EntryDone BY <1>2, AnswersEntry
<1>3. CASE PinOrder
  BY <1>3 DEF PinOrder, AnswersInv, TailReports, Growing, Complete
<1>4. CASE UNCHANGED <<tail, changed, answers, reported>> /\ pin' \in Nat \ {0}
           /\ (pinStep' \in {"config", "entry", "idle"} =>
                 pinStep \in {"config", "entry", "idle"} \/ reported = <<>>)
  BY <1>4 DEF AnswersInv, TailReports, Growing, Complete
<1>5. CASE NextEntry \/ OrderDone \/ SkipPin \/ Write \/ Inhibit
  BY <1>4, <1>5 DEF NextEntry, OrderDone, SkipPin, Write, Inhibit, AtPin,
     answerVars, AnswersInv
<1>6. CASE UNCHANGED gpioVars
  BY <1>4, <1>6 DEF gpioVars, localVars, answerVars, AnswersInv
<1> QED BY <1>1, <1>2, <1>3, <1>5, <1>6, AnswersConfig DEF GpioNext

\* Each answer to an order holds all that was measured for it before, and the
\* last one everything (clientmain.c:252), for any orders and pins.
THEOREM AnswersCorrect == GpioSpec => []AnswersGrow
<1>1. AnswersInv => AnswersGrow
  BY DEF AnswersInv, Growing, Complete, Begins, AnswersGrow
<1> QED BY <1>1, AnswersInit, AnswersStep, PTL DEF GpioSpec

-----------------------------------------------------------------------------
(***************************************************************************)
(* The types of gpio: the counters have theirs from CountInv.              *)
(***************************************************************************)
PinEntries == [name : SUBSET (SUBSET (1..NumPins)), value : SUBSET Int]

\* An order gpio handles, and the entries it has.
LEMMA PinOrderType ==
  ASSUME NEW o \in PinOrders \union {NoOrder}
  PROVE  /\ o.pins \in Seq(PinEntries)
         /\ Len(o.pins) \in Nat
         /\ \A i \in 1..Len(o.pins) : o.pins[i].name \in SUBSET (SUBSET Pins)
<1>1. o.pins \in Seq(PinEntries)
  <2>1. CASE o \in PinOrders
    <3>1. o \in [id : {"gpio.read", "gpio.set"}, pins : Seq(PinEntries)]
      BY <2>1, GpioAssumption DEF PinEntries
    <3> HIDE DEF PinEntries
    <3> QED BY <3>1
  <2>2. CASE o = NoOrder
    <3>1. o.pins = <<>> BY <2>2 DEF NoOrder
    <3> QED BY <3>1
  <2> QED BY <2>1, <2>2
<1>2. ASSUME NEW i \in 1..Len(o.pins)
      PROVE  o.pins[i].name \in SUBSET (SUBSET Pins)
  <2>1. o.pins[i] \in PinEntries
    BY <1>1
  <2> QED BY <2>1 DEF PinEntries, Pins
<1> QED BY <1>1, <1>2

GpioLocals ==
  /\ pinStep \in {"config", "idle", "entry", "pin"}
  /\ pinOrder \in PinOrders \union {NoOrder}
  /\ entry \in Nat \ {0}
  /\ pin \in 1..NumPins + 1
  /\ name \subseteq Pins
  /\ changed \in BOOLEAN
  /\ pinOrders \in 0..MaxPinOrders

GpioDevice ==
  /\ working \subseteq Pins
  /\ output \in [Pins -> {-1, 0, 1}]

LEMMA GpioTypeInit == GpioInit => GpioLocals /\ GpioDevice
<1> SUFFICES ASSUME GpioInit PROVE GpioLocals /\ GpioDevice
  OBVIOUS
<1>1. NumPins \in Nat \ {0} /\ MaxPinOrders \in Nat
  BY GpioAssumption
<1>2. GpioDevice
  BY DEF GpioInit, GpioDevice
<1>3. pinOrder \in PinOrders \union {NoOrder}
  BY DEF GpioInit
<1>4. changed \in BOOLEAN
  BY DEF GpioInit
<1>5. GpioLocals
  BY <1>1, <1>3, <1>4 DEF GpioInit, GpioLocals
<1> QED BY <1>2, <1>5

\* The value of a pin is written by Write only, and of the pins that can be.
LEMMA GpioDeviceStep ==
  ASSUME GpioDevice, [GpioNext]_gpioVars
  PROVE  GpioDevice'
<1>1. working' \subseteq Pins
  BY DEF GpioDevice, GpioNext, gpioVars, configVars, gpio_custom_config, PinOrder,
         NextEntry, OrderDone, SkipPin, Inhibit, Measure, Write, EntryDone
<1>2. output' \in [Pins -> {-1, 0, 1}]
  <2>1. CASE Write
    <3> DEFINE new == IF pin \notin working THEN output[pin]
                      ELSE IF value = 0 THEN 0 ELSE 1
    <3>1. output' = [output EXCEPT ![pin] = new]
      BY <2>1 DEF Write
    <3>2. \A p \in Pins : output[p] \in {-1, 0, 1}
      BY DEF GpioDevice
    <3> QED BY <3>1, <3>2 DEF GpioDevice
  <2>2. CASE ~Write
    <3>1. output' = output
      BY <2>2 DEF GpioNext, gpioVars, gpio_custom_config, PinOrder, NextEntry,
                  OrderDone, SkipPin, Inhibit, Measure, EntryDone
    <3> QED BY <3>1 DEF GpioDevice
  <2> QED BY <2>1, <2>2
<1> QED BY <1>1, <1>2 DEF GpioDevice

LEMMA GpioLocalsStep ==
  ASSUME GpioLocals, [GpioNext]_gpioVars
  PROVE  GpioLocals'
<1>1. NumPins \in Nat \ {0} /\ MaxPinOrders \in Nat
  BY GpioAssumption
<1>2. CASE gpio_custom_config
  BY <1>2 DEF GpioLocals, gpio_custom_config, localVars
<1>3. CASE PinOrder
  <2>1. changed' \in BOOLEAN
    BY <1>3 DEF PinOrder
  <2>2. pinOrder' \in PinOrders \union {NoOrder} /\ name' \subseteq Pins
    BY <1>3 DEF PinOrder
  <2> QED BY <1>1, <1>3, <2>1, <2>2 DEF GpioLocals, PinOrder
<1>4. CASE NextEntry
  <2>1. /\ pinStep' = "pin" /\ pinOrder' = pinOrder /\ entry' = entry /\ pin' = 1
        /\ changed' = changed /\ pinOrders' = pinOrders
        /\ name' = get_val(name, pinOrder.pins[entry].name)
        /\ entry <= Len(pinOrder.pins)
    BY <1>4 DEF NextEntry
  <2>2. pinOrder.pins[entry].name \in SUBSET (SUBSET Pins)
    BY <2>1, PinOrderType DEF GpioLocals
  <2> DEFINE S == SUBSET Pins
             object == pinOrder.pins[entry].name
  <2>3. name \in S /\ object \in SUBSET S
    BY <2>2 DEF GpioLocals
  <2> HIDE DEF S, object
  <2>4. get_val(name, object) \in S
    BY <2>3, GetTyped
  <2> USE DEF S, object
  <2> QED BY <1>1, <2>1, <2>4 DEF GpioLocals
<1>5. CASE OrderDone
  BY <1>1, <1>5 DEF GpioLocals, OrderDone
<1>6. CASE SkipPin
  BY <1>1, <1>6 DEF GpioLocals, SkipPin
<1>7. CASE Inhibit
  BY <1>1, <1>7 DEF GpioLocals, Inhibit, AtPin
<1>8. CASE Measure
  <2>1. changed' \in BOOLEAN
    BY <1>8 DEF GpioLocals, Measure
  <2> QED BY <1>1, <1>8, <2>1 DEF GpioLocals, Measure, AtPin
<1>9. CASE Write
  BY <1>1, <1>9 DEF GpioLocals, Write, AtPin
<1>10. CASE EntryDone
  BY <1>1, <1>10 DEF GpioLocals, EntryDone
<1>11. CASE UNCHANGED gpioVars
  BY <1>11 DEF GpioLocals, gpioVars, localVars
<1> QED BY <1>2, <1>3, <1>4, <1>5, <1>6, <1>7, <1>8, <1>9, <1>10, <1>11 DEF GpioNext

LEMMA GpioTyped == CountInv /\ GpioLocals /\ GpioDevice => GpioTypeOK
<1> SUFFICES ASSUME CountInv, GpioLocals, GpioDevice PROVE GpioTypeOK
  OBVIOUS
<1>1. Half \in Nat \ {0}
  BY GpioAssumption
<1>2. ASSUME NEW p \in Pins PROVE waited[p] \in 0..2 * Half - 1
  <2>1. waited[p] \in 0..Around(inhibition[p]) /\ inhibition[p] \in -Half..Half - 1
    BY DEF CountInv, Counting, Counters
  <2> QED BY <1>1, <2>1 DEF Around
<1>3. waited \in [Pins -> 0..2 * Half - 1]
  BY <1>2 DEF CountInv, Counters
<1> QED BY <1>3 DEF CountInv, Counters, GpioLocals, GpioDevice, GpioTypeOK

\* gpio's variables keep their types: no configuration and no run of requests
\* takes the eight bit counter out of its range, and no order an index past the
\* pin behind the last.
THEOREM GpioTypeCorrect == GpioSpec => []GpioTypeOK
  BY CountInit, CountStep, GpioTypeInit, GpioDeviceStep, GpioLocalsStep, GpioTyped,
     PTL DEF GpioSpec

-----------------------------------------------------------------------------
SphinxIds == {"sphinx.start", "sphinx.stop"}

SphinxOrders == [id : SphinxIds, texts : {0, 1}]

(***************************************************************************)
(* No text was published since the orders in the queue came in, once sphinx *)
(* is past its look at the queue; before it, one may have been.            *)
(***************************************************************************)
WaitingInv ==
  /\ sphinxInbox \in Seq(SphinxOrders)
  /\ serverHolds \subseteq [id : SphinxIds, to : {"forgotten", "sphinx"}]
  /\ sphinxStep \in {"record", "listen"} =>
       \A i \in 1..Len(sphinxInbox) : sphinxInbox[i].texts = 0

-----------------------------------------------------------------------------
\* A message joins the queue before any text.
LEMMA WriteKeeps == WaitingInv /\ WriteToSphinx => WaitingInv'
<1> SUFFICES ASSUME WaitingInv, WriteToSphinx PROVE WaitingInv'
  OBVIOUS
<1>1. PICK m \in serverHolds :
        sphinxInbox' = Append(sphinxInbox, [id |-> m.id, texts |-> 0])
  BY DEF WriteToSphinx
<1> DEFINE o == [id |-> m.id, texts |-> 0]
<1>2. o \in SphinxOrders /\ o.texts = 0
  BY <1>1 DEF WaitingInv, SphinxOrders
<1> HIDE DEF o
<1>3. sphinxInbox' \in Seq(SphinxOrders)
  BY <1>1, <1>2 DEF WaitingInv, o
<1>4. \A i \in 1..Len(sphinxInbox') :
        sphinxInbox'[i] = IF i \in 1..Len(sphinxInbox) THEN sphinxInbox[i] ELSE o
  BY <1>1, <1>2 DEF WaitingInv, o
<1>5. sphinxStep' = sphinxStep /\ serverHolds' = {}
  BY DEF WriteToSphinx
<1> QED BY <1>2, <1>3, <1>4, <1>5 DEF WaitingInv

\* The message that the server holds is for the forgotten connection first.
LEMMA ServerKeeps ==
  WaitingInv /\ (MessageForSphinx \/ WriteToForgotten) => WaitingInv'
<1> SUFFICES ASSUME WaitingInv, MessageForSphinx \/ WriteToForgotten
             PROVE  WaitingInv'
  OBVIOUS
<1>1. sphinxInbox' = sphinxInbox /\ sphinxStep' = sphinxStep
  BY DEF MessageForSphinx, WriteToForgotten
<1>2. serverHolds' \subseteq [id : SphinxIds, to : {"forgotten", "sphinx"}]
  BY DEF WaitingInv, MessageForSphinx, WriteToForgotten, SphinxIds
<1> QED BY <1>1, <1>2 DEF WaitingInv

\* A text is published: only sphinx that listens does so, and looks at its
\* queue next.
LEMMA RecognizedKeeps == WaitingInv /\ Recognized => WaitingInv'
<1> SUFFICES ASSUME WaitingInv, Recognized PROVE WaitingInv'
  OBVIOUS
<1>1. \A i \in 1..Len(sphinxInbox) :
        sphinxInbox[i] \in SphinxOrders /\ sphinxInbox[i].texts = 0
  BY DEF WaitingInv, Recognized
<1>2. \A i \in 1..Len(sphinxInbox) :
        [sphinxInbox[i] EXCEPT !.texts = @ + 1] \in SphinxOrders
  BY <1>1 DEF SphinxOrders
<1>3. sphinxInbox' = [i \in 1..Len(sphinxInbox) |->
                        [sphinxInbox[i] EXCEPT !.texts = @ + 1]]
  BY DEF WaitingInv, Recognized
<1>4. sphinxInbox' \in Seq(SphinxOrders)
  BY <1>2, <1>3 DEF WaitingInv
<1>5. sphinxStep' = "orders" /\ serverHolds' = serverHolds
  BY DEF Recognized, connections
<1> QED BY <1>4, <1>5 DEF WaitingInv

\* The other steps of sphinx leave the queue, or take an order from it.
LEMMA LoopKeeps ==
  ASSUME WaitingInv,
         \/ SphinxHandle \/ SphinxHandledAll \/ StartRecognize \/ NotRecording
         \/ SpeechBegins \/ NothingUnderstood
  PROVE  WaitingInv'
<1>1. CASE SphinxHandle
  BY <1>1 DEF SphinxHandle, WaitingInv, connections
<1>2. CASE SphinxHandledAll
  BY <1>2 DEF SphinxHandledAll, WaitingInv, connections
<1>3. CASE StartRecognize \/ NotRecording \/ SpeechBegins \/ NothingUnderstood
  BY <1>3 DEF StartRecognize, NotRecording, SpeechBegins, NothingUnderstood,
              WaitingInv, connections
<1> QED BY <1>1, <1>2, <1>3

LEMMA WaitingStep == WaitingInv /\ [SphinxNext]_sphinxVars => WaitingInv'
<1> SUFFICES ASSUME WaitingInv, [SphinxNext]_sphinxVars PROVE WaitingInv'
  OBVIOUS
<1>1. CASE Connect \/ sphinx_init \/ ConnectAgain \/ ServerTakesText
  BY <1>1 DEF Connect, sphinx_init, ConnectAgain, ServerTakesText, WaitingInv,
              connections
<1>2. CASE UNCHANGED sphinxVars
  BY <1>2 DEF sphinxVars, connections, WaitingInv
<1> QED BY <1>1, <1>2, WriteKeeps, ServerKeeps, RecognizedKeeps, LoopKeeps
        DEF SphinxNext

\* An order waits for one text at most, for any number of orders and texts: the
\* one sphinx was listening for, or began to as the order came in between its
\* look at the queue and at record (clientmain.c:118-129).
THEOREM OneTextWaits == SphinxSpec => []OneTextTooMany
<1>1. SphinxInit => WaitingInv
  BY DEF SphinxInit, WaitingInv
<1>2. WaitingInv => OneTextTooMany
  <2>1. ASSUME WaitingInv, NEW m \in Range(sphinxInbox) PROVE m.texts <= 1
    <3>1. m \in SphinxOrders
      BY <2>1 DEF WaitingInv, Range
    <3> QED BY <3>1 DEF SphinxOrders
  <2> QED BY <2>1 DEF OneTextTooMany
<1> QED BY <1>1, <1>2, WaitingStep, PTL DEF SphinxSpec

-----------------------------------------------------------------------------
AtForgotten == \E m \in serverHolds : m.to = "forgotten"

(***************************************************************************)
(* Every message for sphinx is on the forgotten connection, but for the    *)
(* one the server is about to write there, and none leaves it.             *)
(***************************************************************************)
FillInv ==
  /\ forgotten \in Nat
  /\ sphinxOrders \in Nat
  /\ \A m, n \in serverHolds : m = n
  /\ sphinxStep = "connect" =>
       forgotten = 0 /\ sphinxOrders = 0 /\ serverHolds = {}
  /\ Connected =>
       /\ forgotten <= SocketRoom
       /\ sphinxOrders = IF AtForgotten THEN forgotten + 1 ELSE forgotten

\* The steps of the server.
LEMMA FillServer ==
  ASSUME FillInv, WaitingInv,
         MessageForSphinx \/ WriteToForgotten \/ WriteToSphinx
  PROVE  FillInv'
<1>1. CASE MessageForSphinx
  BY <1>1 DEF MessageForSphinx, FillInv, AtForgotten, Connected
<1>2. CASE WriteToForgotten
  <2>1. PICK m \in serverHolds :
          /\ m.to = "forgotten"
          /\ Connected => forgotten < SocketRoom
          /\ forgotten' = IF Connected THEN forgotten + 1 ELSE forgotten
          /\ serverHolds' = IF Listening THEN {[m EXCEPT !.to = "sphinx"]} ELSE {}
    BY <1>2 DEF WriteToForgotten
  <2>2. sphinxStep' = sphinxStep /\ sphinxOrders' = sphinxOrders
    BY <1>2 DEF WriteToForgotten
  <2>3. [m EXCEPT !.to = "sphinx"].to = "sphinx"
    BY <2>1 DEF WaitingInv
  <2>4. ~AtForgotten' /\ AtForgotten
    BY <2>1, <2>3 DEF AtForgotten
  <2>5. \A h, k \in serverHolds' : h = k
    BY <2>1
  <2>6. Connected' <=> Connected
    BY <2>2 DEF Connected
  <2> QED BY <2>1, <2>2, <2>4, <2>5, <2>6, SphinxAssumption DEF FillInv
<1>3. CASE WriteToSphinx
  <2>1. PICK m \in serverHolds : m.to = "sphinx" /\ serverHolds' = {}
    BY <1>3 DEF WriteToSphinx
  <2>2. ~AtForgotten /\ ~AtForgotten'
    BY <2>1 DEF AtForgotten, FillInv
  <2>3. UNCHANGED <<sphinxStep, forgotten, sphinxOrders>>
    BY <1>3 DEF WriteToSphinx
  <2> QED BY <2>1, <2>2, <2>3 DEF FillInv, Connected
<1> QED BY <1>1, <1>2, <1>3

LEMMA FillStep == FillInv /\ WaitingInv /\ [SphinxNext]_sphinxVars => FillInv'
<1> SUFFICES ASSUME FillInv, WaitingInv, [SphinxNext]_sphinxVars PROVE FillInv'
  OBVIOUS
<1>1. CASE Connect \/ sphinx_init \/ ConnectAgain
  BY <1>1, SphinxAssumption
     DEF Connect, sphinx_init, ConnectAgain, FillInv, AtForgotten, Connected,
         connections
<1>2. CASE ServerTakesText \/ SphinxHandle \/ SphinxHandledAll \/ StartRecognize
           \/ NotRecording \/ SpeechBegins \/ NothingUnderstood \/ Recognized
  <2>1. UNCHANGED connections /\ (Connected' => Connected)
        /\ (sphinxStep' = "connect" => sphinxStep = "connect")
    BY <1>2 DEF ServerTakesText, SphinxHandle, SphinxHandledAll, StartRecognize,
                NotRecording, SpeechBegins, NothingUnderstood, Recognized,
                Connected
  <2> QED BY <2>1 DEF FillInv, AtForgotten, connections
<1>3. CASE UNCHANGED sphinxVars
  BY <1>3 DEF sphinxVars, connections, FillInv, AtForgotten, Connected
<1> QED BY <1>1, <1>2, <1>3, FillServer DEF SphinxNext

\* Once the forgotten connection is full, the server takes no step.
LEMMA StuckStep ==
  ASSUME FillInv, WaitingInv, SphinxNext, Stuck, sphinxStep' # "exit"
  PROVE  /\ Stuck'
         /\ distributed' = distributed
         /\ Len(sphinxInbox') <= Len(sphinxInbox)
<1>1. ~MessageForSphinx /\ ~WriteToForgotten /\ ~WriteToSphinx
      /\ ~ServerTakesText /\ ~Connect
  <2>1. serverHolds # {} /\ sphinxStep # "connect"
    BY DEF Stuck, Connected
  <2>2. ~WriteToForgotten
    BY SphinxAssumption DEF Stuck, WriteToForgotten
  <2>3. ~WriteToSphinx
    BY DEF Stuck, WriteToSphinx, FillInv
  <2> QED BY <2>1, <2>2, <2>3 DEF MessageForSphinx, ServerTakesText, Connect
<1>2. CASE sphinx_init \/ ConnectAgain \/ SphinxHandledAll \/ StartRecognize
           \/ NotRecording \/ SpeechBegins \/ NothingUnderstood
  BY <1>2 DEF sphinx_init, ConnectAgain, SphinxHandledAll, StartRecognize,
              NotRecording, SpeechBegins, NothingUnderstood, Stuck, Connected,
              connections, publishing, WaitingInv
<1>3. CASE SphinxHandle
  BY <1>3 DEF SphinxHandle, Stuck, Connected, connections, publishing,
              WaitingInv
<1>4. CASE Recognized
  <2>1. sphinxInbox' = [i \in 1..Len(sphinxInbox) |->
                          [sphinxInbox[i] EXCEPT !.texts = @ + 1]]
    BY <1>4 DEF Recognized, WaitingInv
  <2>2. Len(sphinxInbox') = Len(sphinxInbox) /\ Len(sphinxInbox) \in Nat
    BY <2>1 DEF WaitingInv
  <2>3. Stuck' /\ distributed' = distributed
    BY <1>4 DEF Recognized, Stuck, Connected, connections
  <2> QED BY <2>2, <2>3
<1> QED BY <1>1, <1>2, <1>3, <1>4 DEF SphinxNext

\* For any room of a socket and any number of messages: sphinx gets at most as
\* many messages as its forgotten connection holds, and one more that the
\* server is stuck with; then neither a message nor a text gets through while
\* sphinx runs (clientmain.c:82, 101).
THEOREM BusStops == SphinxSpec => SphinxStopsTheServer
<1>1. SphinxInit => WaitingInv /\ FillInv
  BY DEF SphinxInit, WaitingInv, FillInv, Connected
<1>2. FillInv => (Connected => sphinxOrders <= SocketRoom + 1)
  BY SphinxAssumption DEF FillInv
<1>3. FillInv /\ WaitingInv /\ [SphinxNext]_sphinxVars =>
        [Stuck /\ sphinxStep' # "exit" =>
          /\ Stuck'
          /\ distributed' = distributed
          /\ Len(sphinxInbox') <= Len(sphinxInbox)]_sphinxVars
  BY StuckStep
<1> QED BY <1>1, <1>2, <1>3, WaitingStep, FillStep, PTL
        DEF SphinxSpec, SphinxStopsTheServer

-----------------------------------------------------------------------------
(***************************************************************************)
(* The types of sphinx: the bound of the texts is looked at before sphinx  *)
(* listens, and reached with the text.                                     *)
(***************************************************************************)
SphinxRest ==
  /\ sphinxStep \in {"connect", "init", "again", "orders", "record", "listen",
                     "exit"}
  /\ forgotten \in 0..SocketRoom
  /\ toServer \in 0..SocketRoom
  /\ sphinxOrders \in 0..MaxSphinxOrders
  /\ texts \in 0..MaxSphinxTexts
  /\ sphinxStep = "listen" => texts < MaxSphinxTexts

LEMMA SphinxRestInit == SphinxInit => SphinxRest
<1>1. 0 \in 0..SocketRoom /\ 0 \in 0..MaxSphinxOrders /\ 0 \in 0..MaxSphinxTexts
  BY SphinxAssumption
<1> QED BY <1>1 DEF SphinxInit, SphinxRest

LEMMA SphinxRestStep ==
  ASSUME SphinxRest, [SphinxNext]_sphinxVars
  PROVE  SphinxRest'
<1>1. SocketRoom \in Nat /\ MaxSphinxOrders \in Nat /\ MaxSphinxTexts \in Nat
  BY SphinxAssumption
<1> USE DEF SphinxRest, connections, publishing
<1>2. CASE Connect \/ sphinx_init \/ ConnectAgain
  BY <1>2 DEF Connect, sphinx_init, ConnectAgain
<1>3. CASE MessageForSphinx
  BY <1>1, <1>3 DEF MessageForSphinx
<1>4. CASE WriteToForgotten
  BY <1>1, <1>4 DEF WriteToForgotten
<1>5. CASE WriteToSphinx
  BY <1>5 DEF WriteToSphinx
<1>6. CASE ServerTakesText
  BY <1>1, <1>6 DEF ServerTakesText
<1>7. CASE SphinxHandle \/ SphinxHandledAll
  BY <1>7 DEF SphinxHandle, SphinxHandledAll
<1>8. CASE StartRecognize \/ NotRecording
  BY <1>8 DEF StartRecognize, NotRecording
<1>9. CASE SpeechBegins \/ NothingUnderstood
  BY <1>9 DEF SpeechBegins, NothingUnderstood
<1>10. CASE Recognized
  BY <1>1, <1>10 DEF Recognized
<1>11. CASE UNCHANGED sphinxVars
  BY <1>11 DEF sphinxVars
<1> QED BY <1>2, <1>3, <1>4, <1>5, <1>6, <1>7, <1>8, <1>9, <1>10, <1>11 DEF SphinxNext

\* sphinx's variables keep their types: no socket holds more than its room, and
\* the server holds a message for one of the two connections.
THEOREM SphinxTypeCorrect == SphinxSpec => []SphinxTypeOK
<1>1. SphinxInit => WaitingInv
  BY DEF SphinxInit, WaitingInv, SphinxOrders
<1>2. SphinxRest /\ WaitingInv => SphinxTypeOK
  <2> SUFFICES ASSUME SphinxRest, WaitingInv PROVE SphinxTypeOK
    OBVIOUS
  <2>1. \A m \in Range(sphinxInbox) : m \in SphinxOrders
    BY RangeOf DEF WaitingInv
  <2>2. \A m \in Range(sphinxInbox) : m.id \in {"sphinx.start", "sphinx.stop"}
    BY <2>1 DEF SphinxOrders, SphinxIds
  <2>3. \A m \in serverHolds : m.to \in {"forgotten", "sphinx"}
    BY DEF WaitingInv
  <2> QED BY <2>2, <2>3 DEF SphinxRest, SphinxTypeOK
<1> QED BY <1>1, <1>2, WaitingStep, SphinxRestInit, SphinxRestStep, PTL
        DEF SphinxSpec

-----------------------------------------------------------------------------
(***************************************************************************)
(* The message map of canbus.  Without an accident all its entries have    *)
(* the id an address makes, which no order names: so none is ever found.   *)
(***************************************************************************)
CanEntries == [id : CanIds \union {Address}, back : BOOLEAN]

CanMessages ==
  [order : {"can.send", "can.addmap", "can.delmap"},
   id : {{}} \union {{c} : c \in CanIds}]

CanTypes ==
  /\ canStep \in {"config", "open", "orders", "read", "crashed"}
  /\ messagemap \in Seq(CanEntries)
  /\ configured \in 0..MaxConfigured
  /\ opened \in BOOLEAN
  /\ canInbox \in Seq(CanMessages)
  /\ canOrders \in 0..MaxCanOrders
  /\ frames \in Nat /\ canFrames \in Nat /\ frames <= canFrames
  /\ canSent \in Seq(CanIds \union {Address})
  /\ added \in Nat
  /\ accident \in BOOLEAN

NoIdIsMeant ==
  ~accident => /\ Len(messagemap) = added
               /\ \A i \in DOMAIN messagemap : messagemap[i].id = Address

CanInv == CanTypes /\ NoIdIsMeant

LEMMA CanInitInv == CanInit => CanInv
<1> SUFFICES ASSUME CanInit PROVE CanInv
  OBVIOUS
<1>1. CanTypes
  <2>1. 0 \in 0..MaxConfigured /\ 0 \in 0..MaxCanOrders /\ FALSE \in BOOLEAN
    BY CanAssumption
  <2>2. <<>> \in Seq(CanEntries) /\ <<>> \in Seq(CanMessages)
        /\ <<>> \in Seq(CanIds \union {Address})
    OBVIOUS
  <2>3. /\ canStep = "config" /\ messagemap = <<>> /\ configured = 0 /\ opened = FALSE
        /\ canInbox = <<>> /\ canOrders = 0 /\ frames = 0 /\ canFrames = 0
        /\ canSent = <<>> /\ added = 0 /\ accident = FALSE
    BY DEF CanInit
  <2>4. opened \in BOOLEAN /\ accident \in BOOLEAN
    BY <2>3
  <2>5. frames \in Nat /\ canFrames \in Nat /\ frames <= canFrames /\ added \in Nat
    BY <2>3
  <2> QED BY <2>1, <2>2, <2>3, <2>4, <2>5 DEF CanTypes
<1>2. NoIdIsMeant
  BY DEF CanInit, NoIdIsMeant
<1> QED BY <1>1, <1>2 DEF CanInv

LEMMA DeletedMap ==
  ASSUME CanInv, NEW id \in CanIds \union {0}
  PROVE  /\ del_messagemap(id) \in Seq(CanEntries)
         /\ ~accident => del_messagemap(id) = messagemap
<1>1. messagemap \in Seq(CanEntries) /\ Len(messagemap) \in Nat
  BY DEF CanInv, CanTypes
<1>2. ASSUME NEW i \in Found(id) PROVE Without(i) \in Seq(CanEntries)
  <2>1. i \in 1..Len(messagemap)
    BY <1>1 DEF Found
  <2>2. Len(messagemap) - 1 \in Nat
    BY <1>1, <2>1
  <2>3. ASSUME NEW j \in 1..Len(messagemap) - 1
        PROVE  (IF j < i THEN messagemap[j]
                ELSE [messagemap[j + 1] EXCEPT !.back = IF j = i THEN i = 1 ELSE @])
                  \in CanEntries
    <3>1. messagemap[j] \in CanEntries /\ messagemap[j + 1] \in CanEntries
      BY <1>1
    <3>2. (i = 1) \in BOOLEAN /\ messagemap[j + 1].back \in BOOLEAN
      BY <3>1 DEF CanEntries
    <3> DEFINE b == IF j = i THEN i = 1 ELSE messagemap[j + 1].back
    <3>3. b \in BOOLEAN
      BY <3>2
    <3> HIDE DEF b
    <3>4. [messagemap[j + 1] EXCEPT !.back = b] \in CanEntries
      BY <3>1, <3>3 DEF CanEntries
    <3> QED BY <3>1, <3>4 DEF b
  <2> QED BY <2>2, <2>3 DEF Without
<1>3. del_messagemap(id) \in Seq(CanEntries)
  <2>1. CASE Found(id) = {}
    BY <1>1, <2>1 DEF del_messagemap
  <2>2. CASE Found(id) # {}
    <3>1. (CHOOSE i \in Found(id) : TRUE) \in Found(id)
      BY <2>2
    <3> QED BY <1>2, <2>2, <3>1 DEF del_messagemap
  <2> QED BY <2>1, <2>2
<1>4. ASSUME ~accident PROVE del_messagemap(id) = messagemap
  <2>1. \A i \in DOMAIN messagemap : messagemap[i].id # id
    BY <1>4, CanAssumption DEF CanInv, NoIdIsMeant
  <2>2. Found(id) = {}
    BY <2>1 DEF Found
  <2> QED BY <2>2 DEF del_messagemap
<1> QED BY <1>3, <1>4

LEMMA MapAdds ==
  ASSUME CanInv, NEW id \in CanIds \union {0}, add_messagemap(id)
  PROVE  /\ messagemap' \in Seq(CanEntries) /\ added' \in Nat /\ accident' \in BOOLEAN
         /\ NoIdIsMeant'
<1>1. PICK copied \in CanIds \union {Address} :
        /\ messagemap' = Append(del_messagemap(id), [id |-> copied, back |-> TRUE])
        /\ accident' = (accident \/ copied # Address)
  BY DEF add_messagemap
<1> DEFINE e == [id |-> copied, back |-> TRUE]
<1>2. added' = added + 1 /\ added \in Nat /\ accident \in BOOLEAN
  BY DEF add_messagemap, CanInv, CanTypes
<1>3. e \in CanEntries /\ e.id = copied
  BY DEF CanEntries
<1> HIDE DEF e
<1>4. del_messagemap(id) \in Seq(CanEntries) /\ messagemap' = Append(del_messagemap(id), e)
  BY <1>1, DeletedMap DEF e
<1>5. messagemap' \in Seq(CanEntries)
  BY <1>3, <1>4
<1>6. ASSUME ~accident'
      PROVE  /\ Len(messagemap') = added'
             /\ \A i \in DOMAIN messagemap' : messagemap'[i].id = Address
  <2>1. ~accident /\ copied = Address
    BY <1>1, <1>6
  <2>2. /\ messagemap' = Append(messagemap, e) /\ Len(messagemap) = added
        /\ \A i \in DOMAIN messagemap : messagemap[i].id = Address
        /\ messagemap \in Seq(CanEntries)
    BY <1>4, <2>1, DeletedMap DEF CanInv, NoIdIsMeant, CanTypes
  <2> QED BY <1>2, <1>3, <2>1, <2>2
<1> QED BY <1>1, <1>2, <1>5, <1>6 DEF NoIdIsMeant

LEMMA MapIdType ==
  ASSUME CanInv, canInbox # <<>>
  PROVE  /\ MapId(Head(canInbox)) \in CanIds \union {0}
         /\ Tail(canInbox) \in Seq(CanMessages)
         /\ Head(canInbox).id \in {{}} \union {{c} : c \in CanIds}
<1>1. Head(canInbox) \in CanMessages /\ Tail(canInbox) \in Seq(CanMessages)
  BY HeadTail DEF CanInv, CanTypes
<1>2. Head(canInbox).id \in {{}} \union {{c} : c \in CanIds}
  BY <1>1 DEF CanMessages
<1>3. MapId(Head(canInbox)) \in CanIds \union {0}
  <2>1. MapId(Head(canInbox)) = get_val(0, Head(canInbox).id)
    BY DEF MapId
  <2>2. CASE Head(canInbox).id = {}
    BY <2>1, <2>2, GetVal
  <2>3. CASE Head(canInbox).id # {}
    <3>1. PICK c \in CanIds : Head(canInbox).id = {c}
      BY <1>2, <2>3
    <3>2. get_val(0, {c}) = c
      BY GetVal
    <3> QED BY <2>1, <3>1, <3>2
  <2> QED BY <2>2, <2>3
<1> QED BY <1>1, <1>2, <1>3

LEMMA CanInvStep == CanInv /\ [CanNext]_canVars => CanInv'
<1> SUFFICES ASSUME CanInv, [CanNext]_canVars PROVE CanInv'
  OBVIOUS
<1> USE DEF canTraffic, canHistory
<1>0. CanTypes /\ NoIdIsMeant
  BY DEF CanInv
<1>1. CASE ConfigureEntry
  <2>1. PICK id \in CanIds : add_messagemap(id)
    BY <1>1 DEF ConfigureEntry
  <2>2. /\ messagemap' \in Seq(CanEntries) /\ added' \in Nat /\ accident' \in BOOLEAN
        /\ NoIdIsMeant'
    BY <2>1, MapAdds
  <2>3. /\ UNCHANGED <<canStep, opened, canInbox, canOrders, frames, canFrames, canSent>>
        /\ configured' \in 0..MaxConfigured
    BY <1>0, <1>1, CanAssumption DEF ConfigureEntry, CanTypes
  <2> QED BY <1>0, <2>2, <2>3 DEF CanTypes, CanInv
<1>2. CASE CanConfigured
  BY <1>0, <1>2 DEF CanConfigured, CanTypes, CanInv, NoIdIsMeant
<1>3. CASE can_open
  BY <1>0, <1>3 DEF can_open, CanTypes, CanInv, NoIdIsMeant
<1>4. CASE CanMessage
  <2>1. PICK o \in {"can.send", "can.addmap", "can.delmap"},
             id \in {{}} \union {{c} : c \in CanIds} :
          canInbox' = Append(canInbox, [order |-> o, id |-> id])
    BY <1>4 DEF CanMessage
  <2>2. [order |-> o, id |-> id] \in CanMessages
    BY DEF CanMessages
  <2>3. canInbox' \in Seq(CanMessages)
    BY <1>0, <2>1, <2>2 DEF CanTypes
  <2>4. /\ canOrders' \in 0..MaxCanOrders
        /\ UNCHANGED <<canStep, messagemap, configured, opened, frames, canFrames,
                       canSent, added, accident>>
    BY <1>0, <1>4, CanAssumption DEF CanMessage, CanTypes
  <2> QED BY <1>0, <2>3, <2>4 DEF CanTypes, CanInv, NoIdIsMeant
<1>5. CASE Frame
  <2>1. UNCHANGED <<canStep, messagemap, configured, opened, canInbox, canOrders, canSent,
                    added, accident>>
    BY <1>5 DEF Frame
  <2>2. frames' \in Nat /\ canFrames' \in Nat /\ frames' <= canFrames'
    BY <1>0, <1>5 DEF Frame, CanTypes
  <2> QED BY <1>0, <2>1, <2>2 DEF CanTypes, CanInv, NoIdIsMeant
<1>6. CASE CanSend
  <2>1. /\ canInbox # <<>> /\ canInbox' = Tail(canInbox)
        /\ UNCHANGED <<canStep, messagemap, configured, opened, canOrders, frames,
                       canFrames, added, accident>>
    BY <1>6 DEF CanSend, HandlesCan
  <2>2. canInbox' \in Seq(CanMessages)
        /\ Head(canInbox).id \in {{}} \union {{c} : c \in CanIds}
    BY <2>1, MapIdType
  <2>3. PICK id \in IF Head(canInbox).id = {} THEN CanIds \union {Address}
                   ELSE Head(canInbox).id :
          canSent' = IF opened THEN Append(canSent, id) ELSE canSent
    BY <1>6 DEF CanSend
  <2>4. id \in CanIds \union {Address}
    BY <2>2, <2>3
  <2>5. canSent' \in Seq(CanIds \union {Address})
    BY <1>0, <2>3, <2>4 DEF CanTypes
  <2> QED BY <1>0, <2>1, <2>2, <2>5 DEF CanTypes, CanInv, NoIdIsMeant
<1>7. CASE CanAddMap
  <2>1. /\ canInbox # <<>> /\ canInbox' = Tail(canInbox)
        /\ UNCHANGED <<configured, opened, canOrders, frames, canFrames, canSent>>
    BY <1>7 DEF CanAddMap, HandlesCan
  <2>2. canInbox' \in Seq(CanMessages)
    BY <2>1, MapIdType
  <2>3. \/ /\ canStep' = "crashed"
           /\ UNCHANGED <<messagemap, added, accident>>
        \/ /\ add_messagemap(MapId(Head(canInbox)))
           /\ UNCHANGED canStep
    BY <1>7 DEF CanAddMap
  <2>4. /\ messagemap' \in Seq(CanEntries) /\ added' \in Nat /\ accident' \in BOOLEAN
        /\ NoIdIsMeant'
    <3>1. CASE UNCHANGED <<messagemap, added, accident>>
      BY <1>0, <3>1 DEF CanTypes, NoIdIsMeant
    <3>2. CASE add_messagemap(MapId(Head(canInbox)))
      BY <2>1, <3>2, MapIdType, MapAdds
    <3> QED BY <2>3, <3>1, <3>2
  <2> QED BY <1>0, <2>1, <2>2, <2>3, <2>4 DEF CanTypes, CanInv
<1>8. CASE CanDelMap
  <2>1. /\ canInbox # <<>> /\ canInbox' = Tail(canInbox)
        /\ UNCHANGED <<configured, opened, canOrders, frames, canFrames, canSent, added, accident>>
        /\ canStep' \in {canStep, "crashed"}
        /\ messagemap' \in {messagemap, del_messagemap(MapId(Head(canInbox)))}
    BY <1>8 DEF CanDelMap, HandlesCan
  <2>2. canInbox' \in Seq(CanMessages) /\ MapId(Head(canInbox)) \in CanIds \union {0}
    BY <2>1, MapIdType
  <2>3. messagemap' \in Seq(CanEntries) /\ (~accident => messagemap' = messagemap)
    BY <1>0, <2>1, <2>2, DeletedMap DEF CanTypes
  <2>4. NoIdIsMeant'
    BY <1>0, <2>1, <2>3 DEF NoIdIsMeant
  <2> QED BY <1>0, <2>1, <2>2, <2>3, <2>4 DEF CanTypes, CanInv
<1>9. CASE CanOrdersDone
  BY <1>0, <1>9 DEF CanOrdersDone, CanTypes, CanInv, NoIdIsMeant
<1>10. CASE CanNothing
  BY <1>0, <1>10 DEF CanNothing, CanTypes, CanInv, NoIdIsMeant
<1>11. CASE CanReceive
  BY <1>0, <1>11 DEF CanReceive, CanTypes, CanInv, NoIdIsMeant
<1>12. CASE UNCHANGED canVars
  BY <1>0, <1>12 DEF canVars, CanTypes, CanInv, NoIdIsMeant
<1> QED BY <1>1, <1>2, <1>3, <1>4, <1>5, <1>6, <1>7, <1>8, <1>9, <1>10, <1>11, <1>12
        DEF CanNext

\* Every entry that was to be added is in the map, unless an address makes an
\* id: nothing is ever replaced or deleted.
THEOREM MapGrows == CanSpec => []MapOnlyGrows
<1>1. CanInv => MapOnlyGrows
  BY DEF CanInv, NoIdIsMeant, MapOnlyGrows
<1> QED BY CanInitInv, CanInvStep, <1>1, PTL DEF CanSpec

\* Of the frames that came in, those that wait are no more; every id on the bus
\* is one that was given, or what the stack held.
THEOREM CanTypeCorrect == CanSpec => []CanTypeOK
<1>1. CanInv => CanTypeOK
  <2> SUFFICES ASSUME CanTypes PROVE CanTypeOK
    BY DEF CanInv
  <2>1. ASSUME NEW i \in DOMAIN messagemap
        PROVE  /\ messagemap[i].id \in CanIds \union {Address}
               /\ messagemap[i].back \in BOOLEAN
    <3>1. messagemap[i] \in CanEntries
      BY DEF CanTypes
    <3> QED BY <3>1 DEF CanEntries
  <2>2. Range(canSent) \subseteq CanIds \union {Address}
    BY RangeOf DEF CanTypes
  <2> QED BY <2>1, <2>2 DEF CanTypes, CanTypeOK
<1> QED BY CanInitInv, CanInvStep, <1>1, PTL DEF CanSpec

\* What a history holds when something is put at its end.
LEMMA AppendedRange ==
  ASSUME NEW S, NEW s \in Seq(S), NEW x \in S
  PROVE  /\ Append(s, x) \in Seq(S)
         /\ x \in Range(Append(s, x))
         /\ Range(s) \subseteq Range(Append(s, x))
<1>1. /\ Append(s, x) \in Seq(S) /\ Len(s) \in Nat /\ Len(Append(s, x)) = Len(s) + 1
      /\ DOMAIN s = 1..Len(s) /\ DOMAIN Append(s, x) = 1..(Len(s) + 1)
  OBVIOUS
<1>2. Append(s, x)[Len(s) + 1] = x /\ Len(s) + 1 \in DOMAIN Append(s, x)
  BY <1>1
<1>3. \A i \in DOMAIN s : i \in DOMAIN Append(s, x) /\ Append(s, x)[i] = s[i]
  BY <1>1
<1>4. x \in Range(Append(s, x))
  BY <1>2 DEF Range
<1>5. Range(s) \subseteq Range(Append(s, x))
  BY <1>3 DEF Range
<1> QED BY <1>1, <1>4, <1>5

-----------------------------------------------------------------------------
(***************************************************************************)
(* What speech says: the text that plays is the last one, every text       *)
(* before it has an end, and one that was cut was the last at a cancel.    *)
(***************************************************************************)
SpokenTexts ==
  {"", "what the stack held"} \union UNION {m.text : m \in SpeechOrders}

Spoken == [text : SpokenTexts, end : {"none", "full", "cut"}]

SpeechTypes ==
  /\ speechStep \in {"config", "init", "orders", "synchronize", "exit"}
  /\ voice \in Voices \union {DefaultVoice}
  /\ espeakVoice \subseteq {voice}
  /\ speechStep = "config" => espeakVoice = {}
  /\ speechInbox \in Seq(SpeechOrders)
  /\ text \in SpokenTexts
  /\ speechTexts \in Seq(Spoken)
  /\ playing \in {0, Len(speechTexts)}
  /\ cancels \in Seq(Nat)
  /\ speechArrived \in 0..MaxSpeechOrders

SpeechInv == SpeechTypes /\ OnlyTheLastTextIsCut

\* A text that was cut is still a text.
Stopped(e) == [e EXCEPT !.end = "cut"]

LEMMA StoppedIsSpoken ==
  ASSUME NEW e \in Spoken
  PROVE  Stopped(e) \in Spoken /\ Stopped(e).end = "cut"
<1>1. e = [text |-> e.text, end |-> e.end] /\ e.text \in SpokenTexts
  BY DEF Spoken
<1>2. Stopped(e) = [text |-> e.text, end |-> "cut"]
  BY <1>1 DEF Stopped
<1> QED BY <1>1, <1>2 DEF Spoken

LEMMA SpeechInitInv == SpeechInit => SpeechInv
<1> SUFFICES ASSUME SpeechInit PROVE SpeechInv
  OBVIOUS
<1>1. 0 \in 0..MaxSpeechOrders /\ "" \in SpokenTexts
  BY SpeechAssumption DEF SpokenTexts
<1>a. /\ speechTexts = <<>> /\ cancels = <<>> /\ speechInbox = <<>>
      /\ playing = 0
  BY DEF SpeechInit
<1>e. Len(speechTexts) = 0
  BY <1>a
<1>f. DOMAIN speechTexts = {}
  <2>1. speechTexts \in Seq(Spoken)
    BY <1>a
  <2> QED BY <1>e, <2>1
<1>b. /\ speechTexts \in Seq(Spoken) /\ cancels \in Seq(Nat)
      /\ speechInbox \in Seq(SpeechOrders)
  BY <1>a
<1>c. playing \in {0, Len(speechTexts)}
  BY <1>a
<1>d. /\ speechStep = "config" /\ voice = DefaultVoice /\ espeakVoice = {} /\ text = ""
      /\ speechArrived = 0
  BY DEF SpeechInit
<1>2. SpeechTypes
  BY <1>1, <1>b, <1>c, <1>d DEF SpeechTypes
<1>3. OnlyTheLastTextIsCut
  BY <1>f DEF OnlyTheLastTextIsCut
<1> QED BY <1>2, <1>3 DEF SpeechInv

\* A step that gives espeak no text and cuts none.
LEMMA NothingCut ==
  ASSUME OnlyTheLastTextIsCut, UNCHANGED <<speechTexts, playing, cancels>>
  PROVE  OnlyTheLastTextIsCut'
  BY DEF OnlyTheLastTextIsCut

LEMMA SpeechSpeaks == ASSUME SpeechInv, SpeakOrder PROVE SpeechInv'
<1>1. /\ speechInbox # <<>> /\ text' \in TextsOf(Head(speechInbox))
      /\ speechStep' \in {"orders", "synchronize"} /\ speechInbox' = Tail(speechInbox)
      /\ UNCHANGED <<voice, espeakVoice, playing, speechTexts, cancels, speechArrived>>
  BY DEF SpeakOrder
<1>2. Head(speechInbox) \in SpeechOrders /\ speechInbox' \in Seq(SpeechOrders)
  BY <1>1, HeadTail DEF SpeechInv, SpeechTypes
<1>3. text' \in SpokenTexts
  <2>1. CASE Head(speechInbox).text = {}
    BY <1>1, <2>1 DEF TextsOf, SpokenTexts
  <2>2. CASE Head(speechInbox).text # {}
    <3>1. text' \in Head(speechInbox).text
      BY <1>1, <2>2 DEF TextsOf
    <3> QED BY <1>2, <3>1 DEF SpokenTexts
  <2> QED BY <2>1, <2>2
<1>4. OnlyTheLastTextIsCut'
  BY <1>1, NothingCut DEF SpeechInv
<1>5. SpeechTypes'
  BY <1>1, <1>2, <1>3 DEF SpeechInv, SpeechTypes
<1> QED BY <1>4, <1>5 DEF SpeechInv

LEMMA SpeechSynths == ASSUME SpeechInv, Synth PROVE SpeechInv'
<1> DEFINE e == [text |-> text, end |-> "none"]
<1>1. /\ playing = 0 /\ speechTexts' = Append(speechTexts, e) /\ playing' = Len(speechTexts')
      /\ speechStep' = "orders"
      /\ UNCHANGED <<voice, espeakVoice, speechInbox, text, cancels, speechArrived>>
  BY DEF Synth
<1>2. e \in Spoken /\ e.end = "none" /\ speechTexts \in Seq(Spoken)
  BY DEF SpeechInv, SpeechTypes, Spoken
<1> HIDE DEF e
<1>3. speechTexts' \in Seq(Spoken) /\ Len(speechTexts') = Len(speechTexts) + 1
      /\ \A i \in DOMAIN speechTexts' : speechTexts'[i] = IF i \in DOMAIN speechTexts
                                                          THEN speechTexts[i] ELSE e
  BY <1>1, <1>2
<1>4. OnlyTheLastTextIsCut'
  <2> SUFFICES ASSUME NEW i \in DOMAIN speechTexts'
               PROVE  /\ speechTexts'[i].end = "none" => i = playing'
                      /\ speechTexts'[i].end = "cut" => i \in Range(cancels')
    BY DEF OnlyTheLastTextIsCut
  <2>1. CASE i \in DOMAIN speechTexts
    <3>1. speechTexts'[i] = speechTexts[i] /\ i # playing
      BY <1>1, <1>2, <1>3, <2>1
    <3> QED BY <1>1, <2>1, <3>1 DEF SpeechInv, OnlyTheLastTextIsCut
  <2>2. CASE i \notin DOMAIN speechTexts
    <3>1. speechTexts'[i] = e /\ i = Len(speechTexts')
      BY <1>2, <1>3, <2>2
    <3> QED BY <1>1, <1>2, <3>1
  <2> QED BY <2>1, <2>2
<1> QED BY <1>1, <1>3, <1>4 DEF SpeechInv, SpeechTypes

LEMMA SpeechPlayed == ASSUME SpeechInv, Played PROVE SpeechInv'
<1>1. /\ playing # 0 /\ playing' = 0
      /\ speechTexts' = [speechTexts EXCEPT ![playing].end = "full"]
      /\ UNCHANGED <<speechStep, voice, espeakVoice, speechInbox, text, cancels, speechArrived>>
  BY DEF Played
<1>2. speechTexts \in Seq(Spoken) /\ playing \in DOMAIN speechTexts
  BY <1>1 DEF SpeechInv, SpeechTypes
<1> DEFINE e == [speechTexts[playing] EXCEPT !.end = "full"]
<1>3. e \in Spoken /\ e.end = "full" /\ speechTexts' = [speechTexts EXCEPT ![playing] = e]
  <2>1. speechTexts[playing] \in Spoken
    BY <1>2
  <2> QED BY <1>1, <2>1 DEF Spoken
<1> HIDE DEF e
<1>4. speechTexts' \in Seq(Spoken) /\ DOMAIN speechTexts' = DOMAIN speechTexts
      /\ \A i \in DOMAIN speechTexts : speechTexts'[i] = IF i = playing THEN e ELSE speechTexts[i]
  BY <1>2, <1>3
<1>5. OnlyTheLastTextIsCut'
  BY <1>1, <1>3, <1>4 DEF SpeechInv, OnlyTheLastTextIsCut
<1>6. playing' \in {0, Len(speechTexts')}
  BY <1>1
<1>7. SpeechTypes
  BY DEF SpeechInv
<1>8. /\ speechTexts' \in Seq(Spoken)
      /\ UNCHANGED <<speechStep, voice, espeakVoice, speechInbox, text, cancels, speechArrived>>
  BY <1>1, <1>4
<1>9. SpeechTypes'
  BY <1>6, <1>7, <1>8 DEF SpeechTypes
<1> QED BY <1>5, <1>9 DEF SpeechInv

LEMMA SpeechCancels == ASSUME SpeechInv, CancelOrder PROVE SpeechInv'
<1> DEFINE n == Len(speechTexts)
<1>1. /\ speechInbox # <<>> /\ speechInbox' = Tail(speechInbox) /\ playing' = 0
      /\ speechTexts' = [i \in DOMAIN speechTexts |->
                           IF i = playing THEN Stopped(speechTexts[i])
                           ELSE speechTexts[i]]
      /\ cancels' = Append(cancels, n)
      /\ UNCHANGED <<speechStep, voice, espeakVoice, text, speechArrived>>
  BY DEF CancelOrder, Stopped
<1>2. speechTexts \in Seq(Spoken) /\ cancels \in Seq(Nat) /\ playing \in {0, n}
  BY DEF SpeechInv, SpeechTypes
<1>3. speechInbox' \in Seq(SpeechOrders)
  BY <1>1, HeadTail DEF SpeechInv, SpeechTypes
<1>4. n \in Nat /\ DOMAIN speechTexts = 1..n
  <2>1. speechTexts \in Seq(Spoken)
    BY <1>2
  <2> QED BY <2>1
<1>5. \A i \in 1..n : speechTexts[i] \in Spoken
  <2>1. speechTexts \in Seq(Spoken)
    BY <1>2
  <2> QED BY <2>1
<1> DEFINE T(i) == IF i = playing THEN Stopped(speechTexts[i]) ELSE speechTexts[i]
<1>6. speechTexts' = [i \in 1..n |-> T(i)]
  BY <1>1, <1>4
<1>7. \A i \in 1..n : T(i) \in Spoken
  BY <1>5, StoppedIsSpoken
<1> HIDE DEF n, T
<1>8. speechTexts' \in Seq(Spoken) /\ DOMAIN speechTexts' = 1..n
  BY <1>4, <1>6, <1>7
<1>9. /\ cancels' \in Seq(Nat) /\ n \in Range(cancels')
      /\ Range(cancels) \subseteq Range(cancels')
  BY <1>1, <1>2, <1>4, AppendedRange
<1>10. OnlyTheLastTextIsCut'
  <2> SUFFICES ASSUME NEW i \in 1..n
               PROVE  /\ speechTexts'[i].end # "none"
                      /\ speechTexts'[i].end = "cut" => i \in Range(cancels')
    BY <1>8 DEF OnlyTheLastTextIsCut
  <2>1. CASE i = playing
    <3>1. speechTexts'[i] = Stopped(speechTexts[i])
      BY <1>6, <2>1 DEF T
    <3>2. speechTexts'[i].end = "cut"
      BY <1>5, <3>1, StoppedIsSpoken
    <3>3. i = n
      BY <1>2, <1>4, <2>1
    <3> QED BY <1>9, <3>2, <3>3
  <2>2. CASE i # playing
    <3>1. speechTexts'[i] = speechTexts[i]
      BY <1>6, <2>2 DEF T
    <3>2. /\ speechTexts[i].end # "none"
          /\ speechTexts[i].end = "cut" => i \in Range(cancels)
      BY <1>4, <2>2 DEF SpeechInv, OnlyTheLastTextIsCut
    <3> QED BY <1>9, <3>1, <3>2
  <2> QED BY <2>1, <2>2
<1>11. SpeechTypes
  BY DEF SpeechInv
<1>12. /\ playing' \in {0, Len(speechTexts')}
       /\ UNCHANGED <<speechStep, voice, espeakVoice, text, speechArrived>>
  BY <1>1
<1>13. SpeechTypes'
  BY <1>3, <1>8, <1>9, <1>11, <1>12 DEF SpeechTypes
<1> QED BY <1>10, <1>13 DEF SpeechInv

LEMMA SpeechInvStep == SpeechInv /\ [SpeechNext]_speechVars => SpeechInv'
<1> SUFFICES ASSUME SpeechInv, [SpeechNext]_speechVars PROVE SpeechInv'
  OBVIOUS
<1>1. CASE speech_custom_config
  <2>1. PICK configured0 \in {{}} \union {{v} : v \in Voices} : voice' = get_val(voice, configured0)
    BY <1>1 DEF speech_custom_config
  <2>2. voice' \in Voices \union {DefaultVoice}
    <3>1. CASE configured0 = {}
      BY <2>1, <3>1, GetVal DEF SpeechInv, SpeechTypes
    <3>2. CASE configured0 # {}
      <4>1. PICK v \in Voices : configured0 = {v}
        BY <3>2
      <4>2. get_val(voice, {v}) = v
        BY GetVal
      <4> QED BY <2>1, <4>1, <4>2
    <3> QED BY <3>1, <3>2
  <2>3. /\ espeakVoice = {} /\ speechStep' = "init"
        /\ UNCHANGED <<espeakVoice, speechInbox, text, playing, speechTexts, cancels,
                       speechArrived>>
    BY <1>1 DEF speech_custom_config, SpeechInv, SpeechTypes
  <2> QED BY <2>2, <2>3, NothingCut DEF SpeechInv, SpeechTypes
<1>2. CASE init_espeak
  BY <1>2, NothingCut DEF init_espeak, SpeechInv, SpeechTypes
<1>3. CASE SpeechMessage
  <2>1. PICK m \in SpeechOrders : speechInbox' = Append(speechInbox, m)
    BY <1>3 DEF SpeechMessage
  <2>2. speechInbox' \in Seq(SpeechOrders)
    BY <2>1 DEF SpeechInv, SpeechTypes
  <2>3. /\ speechArrived' \in 0..MaxSpeechOrders
        /\ UNCHANGED <<speechStep, voice, espeakVoice, text, playing, speechTexts, cancels>>
    BY <1>3, SpeechAssumption DEF SpeechMessage, SpeechInv, SpeechTypes
  <2> QED BY <2>2, <2>3, NothingCut DEF SpeechInv, SpeechTypes
<1>4. CASE SpeakOrder
  BY <1>4, SpeechSpeaks
<1>5. CASE Synth
  BY <1>5, SpeechSynths
<1>6. CASE Played
  BY <1>6, SpeechPlayed
<1>7. CASE CancelOrder
  BY <1>7, SpeechCancels
<1>8. CASE UNCHANGED speechVars
  BY <1>8, NothingCut DEF speechVars, SpeechInv, SpeechTypes
<1> QED BY <1>1, <1>2, <1>3, <1>4, <1>5, <1>6, <1>7, <1>8 DEF SpeechNext

\* A cancel cuts the last text before it, and a text that does not play was
\* played to its end or cut.
THEOREM CancelCutsTheLast == SpeechSpec => []OnlyTheLastTextIsCut
<1>1. SpeechInv => OnlyTheLastTextIsCut
  BY DEF SpeechInv
<1> QED BY SpeechInitInv, SpeechInvStep, <1>1, PTL DEF SpeechSpec

\* The text that plays is one of the texts, and espeak has the configured voice.
THEOREM SpeechTypeCorrect == SpeechSpec => []SpeechTypeOK
<1>1. SpeechInv => SpeechTypeOK
  <2> SUFFICES ASSUME SpeechTypes PROVE SpeechTypeOK
    BY DEF SpeechInv
  <2>1. Range(speechInbox) \subseteq SpeechOrders
    BY RangeOf DEF SpeechTypes
  <2>2. playing \in 0..Len(speechTexts)
    BY DEF SpeechTypes
  <2> QED BY <2>1, <2>2 DEF SpeechTypes, SpeechTypeOK
<1> QED BY SpeechInitInv, SpeechInvStep, <1>1, PTL DEF SpeechSpec

-----------------------------------------------------------------------------
(***************************************************************************)
(* What tty publishes: the buffer holds the last text, and each of its     *)
(* characters is the one of the last line that reached so far.             *)
(***************************************************************************)
Characters == UNION {Range(l) : l \in TtyLines}

TtyText == Seq(Characters)

TtyEntries == [line : TtyText, text : TtyText]

TtyTypes ==
  /\ lines \in Seq(TtyLines)
  /\ recvdata \in TtyText
  /\ ttyLog \in Seq(TtyEntries)

\* Line j is the last of the first i that has k characters.
LastReaching(log, i, k, j) ==
  /\ j \in 1..i
  /\ Len(log[j].line) >= k
  /\ \A h \in 1..i : Len(log[h].line) >= k => h <= j

KeepsEnds(log, i) ==
  /\ \A j \in 1..i : Len(log[j].line) <= Len(log[i].text)
  /\ \A k \in DOMAIN log[i].text :
       \E j \in 1..i : LastReaching(log, i, k, j) /\ log[i].text[k] = log[j].line[k]

TtyInv ==
  /\ TtyTypes
  /\ ttyLog = <<>> => recvdata = <<>>
  /\ ttyLog # <<>> => recvdata = ttyLog[Len(ttyLog)].text
  /\ \A i \in 1..Len(ttyLog) : KeepsEnds(ttyLog, i)

LEMMA LineIsText == ASSUME NEW l \in TtyLines PROVE l \in TtyText
<1>1. l \in Seq(Range(l))
  BY TtyAssumption
<1>2. Range(l) \subseteq Characters
  BY DEF Characters
<1> HIDE DEF Characters
<1>3. \A i \in 1..Len(l) : l[i] \in Characters
  BY <1>1, <1>2
<1>4. l = [i \in 1..Len(l) |-> l[i]] /\ Len(l) \in Nat
  BY <1>1
<1> QED BY <1>3, <1>4 DEF TtyText

\* The copy is the line, then what the buffer had behind it.
LEMMA Overwritten ==
  ASSUME NEW line \in TtyText, NEW buffer \in TtyText
  PROVE  /\ Overwrite(buffer, line) \in TtyText
         /\ Len(Overwrite(buffer, line)) = IF Len(buffer) <= Len(line) THEN Len(line)
                                           ELSE Len(buffer)
         /\ \A k \in 1..Len(line) : Overwrite(buffer, line)[k] = line[k]
         /\ \A k \in (Len(line) + 1)..Len(buffer) : Overwrite(buffer, line)[k] = buffer[k]
<1> DEFINE m == Len(line)
           b == Len(buffer)
           rest == SubSeq(buffer, m + 1, b)
<1>0. m \in Nat /\ b \in Nat
  BY DEF TtyText
<1>1. rest \in TtyText /\ Len(rest) = IF b <= m THEN 0 ELSE b - m
  BY <1>0 DEF TtyText
<1>2. \A k \in 1..Len(rest) : rest[k] = buffer[m + k]
  BY <1>0, <1>1 DEF TtyText
<1>3. Overwrite(buffer, line) = line \o rest
  BY DEF Overwrite
<1> HIDE DEF rest
<1>4. line \o rest \in TtyText /\ Len(line \o rest) = m + Len(rest) /\ Len(rest) \in Nat
  BY <1>0, <1>1 DEF TtyText
<1>5. \A k \in 1..m : (line \o rest)[k] = line[k]
  BY <1>0, <1>1 DEF TtyText
<1>6. ASSUME NEW k \in (m + 1)..b PROVE (line \o rest)[k] = buffer[k]
  <2>1. k - m \in 1..Len(rest) /\ k \in (m + 1)..(m + Len(rest)) /\ m + (k - m) = k
    BY <1>0, <1>1
  <2>2. (line \o rest)[k] = rest[k - m]
    BY <1>0, <1>1, <2>1 DEF TtyText
  <2>3. rest[k - m] = buffer[m + (k - m)]
    BY <1>2, <2>1
  <2> QED BY <2>1, <2>2, <2>3
<1> QED BY <1>0, <1>1, <1>3, <1>4, <1>5, <1>6

\* What a text keeps of the lines before it does not change with the lines
\* after it.
LEMMA KeptBefore ==
  ASSUME NEW log \in Seq(TtyEntries), NEW e \in TtyEntries, NEW i \in 1..Len(log),
         KeepsEnds(log, i)
  PROVE  KeepsEnds(Append(log, e), i)
<1>1. Len(log) \in Nat
  OBVIOUS
<1>2. \A j \in 1..i : Append(log, e)[j] = log[j]
  BY <1>1
<1>3. i \in 1..i /\ 1..i \subseteq 1..Len(log)
  BY <1>1
<1> DEFINE new == Append(log, e)
<1> HIDE DEF new
<1>4. \A j \in 1..i : new[j] = log[j]
  BY <1>2 DEF new
<1>5. KeepsEnds(new, i)
  BY <1>3, <1>4 DEF KeepsEnds, LastReaching
<1> QED BY <1>5 DEF new

LEMMA KeptLast ==
  ASSUME TtyInv, NEW line \in TtyText,
         NEW e, e = [line |-> line, text |-> Overwrite(recvdata, line)]
  PROVE  KeepsEnds(Append(ttyLog, e), Len(ttyLog) + 1)
<1> DEFINE n == Len(ttyLog)
           new == Append(ttyLog, e)
           text0 == Overwrite(recvdata, line)
           m == Len(line)
           b == Len(recvdata)
<1>1. ttyLog \in Seq(TtyEntries) /\ recvdata \in TtyText /\ n \in Nat /\ m \in Nat /\ b \in Nat
  BY DEF TtyInv, TtyTypes, TtyText
<1>2. /\ text0 \in TtyText /\ Len(text0) = IF b <= m THEN m ELSE b
      /\ \A k \in 1..m : text0[k] = line[k]
      /\ \A k \in (m + 1)..b : text0[k] = recvdata[k]
  BY <1>1, Overwritten
<1>3. /\ \A j \in 1..n : new[j] = ttyLog[j]
      /\ new[n + 1] = e
  BY <1>1
<1>4. e.line = line /\ e.text = text0
  OBVIOUS
<1>5. \A j \in 1..n : ttyLog[j].line \in TtyText /\ ttyLog[j].text \in TtyText
  <2>1. \A j \in 1..n : ttyLog[j] \in TtyEntries
    BY <1>1
  <2> QED BY <2>1 DEF TtyEntries
<1>6. ASSUME n # 0
      PROVE  /\ recvdata = ttyLog[n].text
             /\ KeepsEnds(ttyLog, n)
  <2>1. ttyLog # <<>>
    BY <1>1, <1>6
  <2> QED BY <1>1, <1>6, <2>1 DEF TtyInv
<1>7. ASSUME n = 0
      PROVE  b = 0
  <2>1. ttyLog = <<>>
    BY <1>1, <1>7
  <2>2. recvdata = <<>>
    BY <2>1 DEF TtyInv
  <2> QED BY <2>2
<1> HIDE DEF n, new, text0, m, b
<1>8. ASSUME NEW j \in 1..(n + 1)
      PROVE  Len(new[j].line) <= Len(text0)
  <2>1. CASE j = n + 1
    <3>1. Len(new[j].line) = m
      BY <1>3, <1>4, <2>1 DEF m
    <3> QED BY <1>1, <1>2, <3>1
  <2>2. CASE j # n + 1
    <3>1. j \in 1..n /\ n # 0
      BY <1>1, <2>2
    <3>2. Len(ttyLog[j].line) <= b
      BY <1>6, <3>1 DEF KeepsEnds, b
    <3>3. Len(ttyLog[j].line) \in Nat /\ new[j] = ttyLog[j]
      BY <1>3, <1>5, <3>1 DEF TtyText
    <3> QED BY <1>1, <1>2, <3>2, <3>3
  <2> QED BY <2>1, <2>2
<1>9. ASSUME NEW k \in DOMAIN text0
      PROVE  \E j \in 1..(n + 1) : LastReaching(new, n + 1, k, j) /\ text0[k] = new[j].line[k]
  <2>0. k \in 1..Len(text0) /\ k \in Nat /\ Len(text0) \in Nat
    <3>1. Len(text0) \in Nat /\ DOMAIN text0 = 1..Len(text0)
      BY <1>2 DEF TtyText
    <3> QED BY <3>1
  <2>1. CASE k <= m
    <3>1. n + 1 \in 1..(n + 1) /\ new[n + 1].line = line
      BY <1>1, <1>3, <1>4
    <3>2. text0[k] = line[k]
      BY <1>1, <1>2, <2>0, <2>1
    <3>3. Len(new[n + 1].line) >= k
      BY <1>1, <2>0, <2>1, <3>1 DEF m
    <3>4. \A h \in 1..(n + 1) : h <= n + 1
      BY <1>1
    <3>5. LastReaching(new, n + 1, k, n + 1)
      BY <3>1, <3>3, <3>4 DEF LastReaching
    <3> QED BY <3>1, <3>2, <3>5
  <2>2. CASE ~(k <= m)
    <3>1. k \in (m + 1)..b /\ n # 0
      BY <1>1, <1>2, <1>7, <2>0, <2>2
    <3>2. text0[k] = recvdata[k] /\ k \in DOMAIN recvdata
      BY <1>1, <1>2, <2>0, <3>1 DEF b, TtyText
    <3>3. PICK j \in 1..n : LastReaching(ttyLog, n, k, j) /\ ttyLog[n].text[k] = ttyLog[j].line[k]
      BY <1>6, <3>1, <3>2 DEF KeepsEnds
    <3>4. j \in 1..(n + 1) /\ new[j] = ttyLog[j]
      BY <1>1, <1>3
    <3>5. Len(new[n + 1].line) = m
      BY <1>3, <1>4 DEF m
    <3>6. \A h \in 1..(n + 1) : Len(new[h].line) >= k => h <= j
      <4> SUFFICES ASSUME NEW h \in 1..(n + 1), Len(new[h].line) >= k PROVE h <= j
        OBVIOUS
      <4>1. h # n + 1
        BY <1>1, <2>0, <2>2, <3>5
      <4>2. h \in 1..n /\ new[h] = ttyLog[h]
        BY <1>1, <1>3, <4>1
      <4> QED BY <3>3, <4>2 DEF LastReaching
    <3>7. LastReaching(new, n + 1, k, j)
      BY <3>3, <3>4, <3>6 DEF LastReaching
    <3>8. text0[k] = new[j].line[k]
      BY <1>6, <3>1, <3>2, <3>3, <3>4
    <3> QED BY <3>4, <3>7, <3>8
  <2> QED BY <2>1, <2>2
<1>10. new[n + 1].text = text0
  BY <1>3, <1>4
<1>11. KeepsEnds(new, n + 1)
  BY <1>8, <1>9, <1>10 DEF KeepsEnds
<1> QED BY <1>11 DEF new, n

LEMMA TtyInitInv == TtyInit => TtyInv
<1> SUFFICES ASSUME TtyInit PROVE TtyInv
  OBVIOUS
<1>1. lines = <<>> /\ recvdata = <<>> /\ ttyLog = <<>>
  BY DEF TtyInit
<1>2. TtyTypes
  BY <1>1 DEF TtyTypes, TtyText
<1>3. 1..Len(ttyLog) = {}
  BY <1>1
<1> QED BY <1>1, <1>2, <1>3 DEF TtyInv

LEMMA TtyPublishes == ASSUME TtyInv, TtyPublish PROVE TtyInv'
<1> DEFINE line == Head(lines)
           e == [line |-> line, text |-> Overwrite(recvdata, line)]
<1>1. /\ lines # <<>> /\ lines' = Tail(lines) /\ recvdata' = Overwrite(recvdata, line)
      /\ ttyLog' = Append(ttyLog, e)
  BY DEF TtyPublish
<1>2. line \in TtyText /\ lines' \in Seq(TtyLines)
  BY <1>1, HeadTail, LineIsText DEF TtyInv, TtyTypes
<1>3. recvdata \in TtyText /\ ttyLog \in Seq(TtyEntries)
  BY DEF TtyInv, TtyTypes
<1>4. e \in TtyEntries /\ recvdata' \in TtyText
  BY <1>1, <1>2, <1>3, Overwritten DEF TtyEntries
<1>5. e.text = recvdata'
  BY <1>1
<1>6. KeepsEnds(Append(ttyLog, e), Len(ttyLog) + 1)
  BY <1>2, KeptLast
<1> HIDE DEF line, e
<1>7. /\ Len(ttyLog) \in Nat /\ Len(ttyLog') = Len(ttyLog) + 1 /\ ttyLog' # <<>>
      /\ ttyLog'[Len(ttyLog')] = e /\ ttyLog' \in Seq(TtyEntries)
  BY <1>1, <1>3, <1>4
<1>8. \A i \in 1..Len(ttyLog) : KeepsEnds(ttyLog', i)
  BY <1>1, <1>3, <1>4, KeptBefore DEF TtyInv
<1>9. \A i \in 1..Len(ttyLog') : i \in 1..Len(ttyLog) \/ i = Len(ttyLog) + 1
  BY <1>7
<1>10. \A i \in 1..Len(ttyLog') : KeepsEnds(ttyLog', i)
  BY <1>1, <1>6, <1>8, <1>9
<1> QED BY <1>2, <1>4, <1>5, <1>7, <1>10 DEF TtyInv, TtyTypes

LEMMA TtyInvStep == TtyInv /\ [TtyNext]_ttyVars => TtyInv'
<1> SUFFICES ASSUME TtyInv, [TtyNext]_ttyVars PROVE TtyInv'
  OBVIOUS
<1>1. ASSUME UNCHANGED <<recvdata, ttyLog>>, lines' \in Seq(TtyLines)
      PROVE  TtyInv'
  BY <1>1 DEF TtyInv, TtyTypes
<1>2. lines \in Seq(TtyLines)
  BY DEF TtyInv, TtyTypes
<1>3. CASE TtyPublish
  BY <1>3, TtyPublishes
<1>4. CASE TtyLine
  BY <1>1, <1>2, <1>4 DEF TtyLine
<1>5. CASE TtyNoData
  BY <1>1, <1>2, <1>5, HeadTail DEF TtyNoData
<1>6. CASE tty_custom_config \/ tty_init \/ TtyMessage \/ TtyHandle \/ TtyOrdersDone
           \/ UNCHANGED ttyVars
  BY <1>1, <1>2, <1>6
     DEF tty_custom_config, tty_init, TtyMessage, TtyHandle, TtyOrdersDone, ttyVars
<1> QED BY <1>3, <1>4, <1>5, <1>6 DEF TtyNext

LEMMA LastIsLast ==
  ASSUME NEW S \in SUBSET Nat, NEW j \in S, \A h \in S : h <= j
  PROVE  LastOf(S) = j
<1>1. /\ LastOf(S) \in S
      /\ \A h \in S : h <= LastOf(S)
  BY DEF LastOf
<1>2. LastOf(S) \in Nat /\ j \in Nat /\ j <= LastOf(S) /\ LastOf(S) <= j
  BY <1>1
<1> QED BY <1>2

\* A text starts with its line and goes on with the ends of the lines before
\* it, each character that of the last line that reached so far.
THEOREM TextsKeep == TtySpec => []TextsKeepOldEnds
<1>1. TtyInv => TextsKeepOldEnds
  <2> SUFFICES ASSUME TtyInv, NEW i \in DOMAIN ttyLog
               PROVE  LET text0 == ttyLog[i].text
                          Reaching(k) == {j \in 1..i : Len(ttyLog[j].line) >= k}
                      IN /\ Reaching(Len(text0) + 1) = {}
                         /\ \A k \in DOMAIN text0 :
                              /\ Reaching(k) # {}
                              /\ text0[k] = ttyLog[LastOf(Reaching(k))].line[k]
    BY DEF TextsKeepOldEnds
  <2> DEFINE text0 == ttyLog[i].text
             Reaching(k) == {j \in 1..i : Len(ttyLog[j].line) >= k}
  <2>1. ttyLog \in Seq(TtyEntries) /\ i \in 1..Len(ttyLog) /\ Len(ttyLog) \in Nat
    BY DEF TtyInv, TtyTypes
  <2>2. KeepsEnds(ttyLog, i)
    BY <2>1 DEF TtyInv
  <2>3. \A j \in 1..i : Len(ttyLog[j].line) \in Nat
    <3> SUFFICES ASSUME NEW j \in 1..i PROVE Len(ttyLog[j].line) \in Nat
      OBVIOUS
    <3>1. ttyLog[j] \in TtyEntries
      BY <2>1
    <3> QED BY <3>1 DEF TtyEntries, TtyText
  <2>4. Len(text0) \in Nat
    BY <2>1 DEF TtyEntries, TtyText
  <2>5. Reaching(Len(text0) + 1) = {}
    BY <2>2, <2>3, <2>4 DEF KeepsEnds
  <2>6. ASSUME NEW k \in DOMAIN text0
        PROVE  /\ Reaching(k) # {}
               /\ text0[k] = ttyLog[LastOf(Reaching(k))].line[k]
    <3>1. PICK j \in 1..i : LastReaching(ttyLog, i, k, j) /\ text0[k] = ttyLog[j].line[k]
      BY <2>2, <2>6 DEF KeepsEnds
    <3>2. j \in Reaching(k) /\ \A h \in Reaching(k) : h <= j
      BY <3>1 DEF LastReaching
    <3>3. Reaching(k) \in SUBSET Nat
      BY <2>1
    <3> HIDE DEF Reaching
    <3>4. LastOf(Reaching(k)) = j
      BY <3>2, <3>3, LastIsLast
    <3> QED BY <3>1, <3>2, <3>4
  <2> QED BY <2>5, <2>6
<1> QED BY TtyInitInv, TtyInvStep, <1>1, PTL DEF TtySpec

-----------------------------------------------------------------------------
TtyRest ==
  /\ rate \in Rates \union {9600}
  /\ speed = 0
  /\ ttyStep \in {"config", "init", "orders", "line"}
  /\ ttyInbox \in Seq(TtyOrders)
  /\ sender \in {m.sender : m \in TtyOrders} \union {Stack}
  /\ DOMAIN arrived = {"messages", "lines"}
  /\ arrived.messages \in 0..MaxTtyOrders
  /\ arrived.lines \in 0..MaxLines

LEMMA TtyRestInit == TtyInit => TtyRest
<1> SUFFICES ASSUME TtyInit PROVE TtyRest
  OBVIOUS
<1>1. 0 \in 0..MaxTtyOrders /\ 0 \in 0..MaxLines
  BY TtyAssumption
<1>2. ttyInbox = <<>> /\ ttyInbox \in Seq(TtyOrders)
  BY DEF TtyInit
<1>3. /\ DOMAIN arrived = {"messages", "lines"}
      /\ arrived.messages = 0 /\ arrived.lines = 0
  BY DEF TtyInit
<1> QED BY <1>1, <1>2, <1>3 DEF TtyInit, TtyRest

LEMMA TtyRestStep == ASSUME TtyRest, [TtyNext]_ttyVars PROVE TtyRest'
<1>1. MaxTtyOrders \in Nat /\ MaxLines \in Nat
  BY TtyAssumption
<1>2. CASE tty_custom_config
  <2>1. PICK configured0 \in {{}} \union {{r} : r \in Rates} :
          rate' = get_val(rate, configured0)
    BY <1>2 DEF tty_custom_config
  <2>2. rate' \in Rates \union {9600}
    <3>1. CASE configured0 = {}
      BY <2>1, <3>1, GetVal DEF TtyRest
    <3>2. CASE configured0 # {}
      <4>1. PICK r \in Rates : configured0 = {r}
        BY <2>1, <3>2
      <4>2. get_val(rate, {r}) = r
        BY GetVal
      <4> QED BY <2>1, <4>1, <4>2
    <3> QED BY <3>1, <3>2
  <2> QED BY <1>2, <2>2 DEF TtyRest, tty_custom_config
<1>3. CASE tty_init
  BY <1>3 DEF TtyRest, tty_init
<1>4. CASE TtyMessage
  <2>1. arrived' = [arrived EXCEPT !.messages = arrived.messages + 1]
    BY <1>4 DEF TtyMessage
  <2>2. PICK m \in TtyOrders : ttyInbox' = Append(ttyInbox, m)
    BY <1>4 DEF TtyMessage
  <2>3. ttyInbox' \in Seq(TtyOrders)
    BY <2>2 DEF TtyRest
  <2>4. /\ DOMAIN arrived' = {"messages", "lines"}
        /\ arrived'.messages = arrived.messages + 1 /\ arrived'.lines = arrived.lines
    BY <2>1 DEF TtyRest
  <2>5. arrived'.messages \in 0..MaxTtyOrders
    BY <1>1, <1>4, <2>4 DEF TtyRest, TtyMessage
  <2> QED BY <1>4, <2>3, <2>4, <2>5 DEF TtyRest, TtyMessage, ttyDevice
<1>5. CASE TtyLine
  <2>1. arrived' = [arrived EXCEPT !.lines = arrived.lines + 1]
    BY <1>5 DEF TtyLine
  <2>2. /\ DOMAIN arrived' = {"messages", "lines"}
        /\ arrived'.lines = arrived.lines + 1 /\ arrived'.messages = arrived.messages
    BY <2>1 DEF TtyRest
  <2>3. arrived'.lines \in 0..MaxLines
    BY <1>1, <1>5, <2>2 DEF TtyRest, TtyLine
  <2> QED BY <1>5, <2>2, <2>3 DEF TtyRest, TtyLine, ttyDevice
<1>6. CASE TtyHandle
  <2>1. ttyInbox # <<>> /\ ttyInbox' = Tail(ttyInbox) /\ sender' = Head(ttyInbox).sender
    BY <1>6 DEF TtyHandle
  <2>2. Head(ttyInbox) \in TtyOrders /\ ttyInbox' \in Seq(TtyOrders)
    BY <2>1, HeadTail DEF TtyRest
  <2> QED BY <1>6, <2>1, <2>2 DEF TtyRest, TtyHandle, ttyDevice
<1>7. CASE TtyOrdersDone
  BY <1>7 DEF TtyRest, TtyOrdersDone, ttyDevice
<1>8. CASE TtyPublish
  BY <1>8 DEF TtyRest, TtyPublish, ttyDevice
<1>9. CASE TtyNoData
  BY <1>9 DEF TtyRest, TtyNoData, ttyDevice
<1>10. CASE UNCHANGED ttyVars
  BY <1>10 DEF TtyRest, ttyVars, ttyDevice
<1> QED BY <1>2, <1>3, <1>4, <1>5, <1>6, <1>7, <1>8, <1>9, <1>10 DEF TtyNext

\* tty's variables keep their types; the speed of the terminal stays B0.
THEOREM TtyTypeCorrect == TtySpec => []TtyTypeOK
<1>1. TtyRest /\ TtyInv => TtyTypeOK
  <2> SUFFICES ASSUME TtyRest, TtyTypes PROVE TtyTypeOK
    BY DEF TtyInv
  <2>1. Range(ttyInbox) \subseteq TtyOrders /\ Range(lines) \subseteq TtyLines
    BY RangeOf DEF TtyRest, TtyTypes
  <2> QED BY <2>1 DEF TtyRest, TtyTypeOK
<1> QED BY TtyRestInit, TtyRestStep, TtyInitInv, TtyInvStep, <1>1, PTL DEF TtySpec
=============================================================================

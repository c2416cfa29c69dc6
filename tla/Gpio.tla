-------------------------------- MODULE Gpio --------------------------------
(***************************************************************************)
(* The gpio component: the configuration of its pins, and handle_message   *)
(* of rocsmq-gpio/src/clientmain.c on the orders gpio.read and gpio.set.   *)
(*                                                                         *)
(* The pattern an entry of an order names pins by is the set of pins it    *)
(* matches (Match.tla has the matching itself).  Between two steps the     *)
(* world may change what an input reads.  Orders of another id, or without *)
(* a list of pins, do nothing.                                             *)
(***************************************************************************)
EXTENDS Integers, Sequences, ConfigParser

CONSTANTS
  NumPins,       \* config->num_pins
  Inhibitions,   \* the inhibition a configuration may ask for
  Half,          \* an int8_t counts from -Half to Half - 1 (128)
  PinOrders,     \* the orders gpio may get
  MaxPinOrders   \* bound: orders handled

ASSUME GpioAssumption ==
  /\ NumPins \in Nat \ {0}
  /\ Inhibitions \subseteq Int
  /\ Half \in Nat \ {0}
  /\ MaxPinOrders \in Nat
  /\ PinOrders \subseteq
       [id : {"gpio.read", "gpio.set"},
        pins : Seq([name : SUBSET (SUBSET (1..NumPins)),
                    value : SUBSET Int])]

VARIABLES
  inhibition,  \* pin->inhibition
  countdown,   \* pin->countdown
  working,     \* the pins whose files under /sys/class/gpio open
  output,      \* the level of the outputs; -1: never set
  pinStep,     \* where gpio is: "config", "idle", "entry", "pin"
  pinOrder,    \* the order being handled
  entry,       \* the index i of its entry
  pin,         \* the index a of the pin
  name,        \* the local name: the pins it matches
  value,       \* the local value
  changed,     \* the local changed
  tail,        \* the local tail: what was reported so far
  answers,     \* history: the answers sent to this order
  reported,    \* history: what this order's measurements were to report
  waited,      \* history: requests of a pin since it was last measured
  pinOrders    \* orders handled

configVars == <<inhibition, working>>
localVars == <<entry, pin, name, value, changed, tail>>
answerVars == <<answers, reported>>
gpioVars == <<configVars, countdown, output, pinStep, pinOrder, localVars,
              answerVars, waited, pinOrders>>

Pins == 1..NumPins

\* Defect: the value is not cut to eight bits.
int8_t_wide(d) == d

int8_t(d) == ((d + Half) % (2 * Half)) - Half

\* Requests that go by between two measurements of a pin.
Window(p) == inhibition[p] % (2 * Half)

NoOrder == [id |-> "gpio.read", pins |-> <<>>]

GpioInit ==
  /\ inhibition = [p \in Pins |-> 0]
  /\ countdown = [p \in Pins |-> 0]
  /\ working = {}
  /\ output = [p \in Pins |-> -1]
  /\ pinStep = "config"
  /\ pinOrder = NoOrder
  /\ entry = 1
  /\ pin = 1
  /\ name = {}
  /\ value = 0
  /\ changed = FALSE
  /\ tail = <<>>
  /\ answers = <<>>
  /\ reported = <<>>
  /\ waited = [p \in Pins |-> 0]
  /\ pinOrders = 0

-----------------------------------------------------------------------------
(***************************************************************************)
(* gpio_custom_config, and gpio_init, which goes on with pins it could not *)
(* export or give a direction.                                             *)
(***************************************************************************)
gpio_custom_config ==
  /\ pinStep = "config"
  /\ \E d \in [Pins -> Inhibitions] :
       inhibition' = [p \in Pins |-> int8_t(d[p])]
  /\ \E able \in SUBSET Pins : working' = able
  /\ waited' = [p \in Pins |-> inhibition'[p] % (2 * Half)]
  /\ pinStep' = "idle"
  /\ UNCHANGED <<countdown, output, pinOrder, localVars, answerVars, pinOrders>>

\* handle_message begins: name and value hold what the stack held.
PinOrder ==
  /\ pinStep = "idle"
  /\ pinOrders < MaxPinOrders
  /\ pinOrders' = pinOrders + 1
  /\ pinOrder' \in PinOrders
  /\ name' \in SUBSET Pins
  /\ value' \in {-1, 0, 1}
  /\ entry' = 1
  /\ changed' = FALSE
  /\ tail' = <<>>
  /\ answers' = <<>>
  /\ reported' = <<>>
  /\ pinStep' = "entry"
  /\ UNCHANGED <<configVars, countdown, output, pin, waited>>

NextEntry ==
  LET e == pinOrder.pins[entry] IN
  /\ pinStep = "entry"
  /\ entry <= Len(pinOrder.pins)
  /\ name' = get_val(name, e.name)
  /\ value' = get_val(value, e.value)
  /\ pin' = 1
  /\ pinStep' = "pin"
  /\ UNCHANGED <<configVars, countdown, output, pinOrder, entry, changed, tail,
                 answers, reported, waited, pinOrders>>

OrderDone ==
  /\ pinStep = "entry"
  /\ entry > Len(pinOrder.pins)
  /\ pinStep' = "idle"
  /\ pinOrder' = NoOrder
  /\ name' = {}
  /\ value' = 0
  /\ UNCHANGED <<configVars, countdown, output, entry, pin, changed, tail,
                 answerVars, waited, pinOrders>>

-----------------------------------------------------------------------------
AtPin(id) ==
  /\ pinStep = "pin"
  /\ pin <= NumPins
  /\ pinOrder.id = id

SkipPin ==
  /\ pinStep = "pin"
  /\ pin <= NumPins
  /\ pin \notin name
  /\ pin' = pin + 1
  /\ UNCHANGED <<configVars, countdown, output, pinStep, pinOrder, entry, name,
                 value, changed, tail, answerVars, waited, pinOrders>>

\* What gpio_read may return: the level outside, or -1.
gpio_read(p) == IF p \in working THEN {0, 1} ELSE {-1}

\* Defect: the countdown stops below zero.
InhibitStops ==
  /\ AtPin("gpio.read")
  /\ pin \in name
  /\ countdown[pin] # 0
  /\ countdown' = [countdown EXCEPT ![pin] = IF @ < 0 THEN 0 ELSE @ - 1]
  /\ waited' = [waited EXCEPT ![pin] = @ + 1]
  /\ pin' = pin + 1
  /\ UNCHANGED <<configVars, output, pinStep, pinOrder, entry, name, value,
                 changed, tail, answerVars, pinOrders>>

Inhibit ==
  /\ AtPin("gpio.read")
  /\ pin \in name
  /\ countdown[pin] # 0
  /\ countdown' = [countdown EXCEPT ![pin] = int8_t(@ - 1)]
  /\ waited' = [waited EXCEPT ![pin] = @ + 1]
  /\ pin' = pin + 1
  /\ UNCHANGED <<configVars, output, pinStep, pinOrder, entry, name, value,
                 changed, tail, answerVars, pinOrders>>

\* The measurement; a failed one is reported when any value was asked for.
Measure ==
  /\ AtPin("gpio.read")
  /\ pin \in name
  /\ countdown[pin] = 0
  /\ countdown' = [countdown EXCEPT ![pin] = inhibition[pin]]
  /\ waited' = [waited EXCEPT ![pin] = 0]
  /\ pin' = pin + 1
  /\ \E read \in gpio_read(pin) :
       IF value \in {-1, read}
       THEN /\ tail' = Append(tail, [pin |-> pin, value |-> read])
            /\ reported' = Append(reported, [pin |-> pin, value |-> read])
            /\ changed' = TRUE
       ELSE UNCHANGED <<tail, reported, changed>>
  /\ UNCHANGED <<configVars, output, pinStep, pinOrder, entry, name, value,
                 answers, pinOrders>>

\* gpio_write: anything but LOW is high; the result is not looked at.
Write ==
  /\ AtPin("gpio.set")
  /\ pin \in name
  /\ output' = [output EXCEPT ![pin] =
                  IF pin \notin working THEN @
                  ELSE IF value = 0 THEN 0 ELSE 1]
  /\ pin' = pin + 1
  /\ UNCHANGED <<configVars, countdown, pinStep, pinOrder, entry, name, value,
                 changed, tail, answerVars, waited, pinOrders>>

\* Defect: the tail starts anew with each answer.
EntryDoneClears ==
  /\ pinStep = "pin"
  /\ pin > NumPins
  /\ entry' = entry + 1
  /\ pinStep' = "entry"
  /\ IF changed THEN answers' = Append(answers, tail) ELSE UNCHANGED answers
  /\ tail' = <<>>
  /\ UNCHANGED <<configVars, countdown, output, pinOrder, pin, name, value,
                 changed, reported, waited, pinOrders>>

\* Behind the last pin of an entry: whatever was reported since the order
\* began is sent, again if need be.
EntryDone ==
  /\ pinStep = "pin"
  /\ pin > NumPins
  /\ entry' = entry + 1
  /\ pinStep' = "entry"
  /\ IF changed THEN answers' = Append(answers, tail) ELSE UNCHANGED answers
  /\ UNCHANGED <<configVars, countdown, output, pinOrder, pin, name, value,
                 changed, tail, reported, waited, pinOrders>>

GpioNext ==
  \/ gpio_custom_config
  \/ PinOrder
  \/ NextEntry
  \/ OrderDone
  \/ SkipPin
  \/ Inhibit
  \/ Measure
  \/ Write
  \/ EntryDone

GpioSpec == GpioInit /\ [][GpioNext]_gpioVars

-----------------------------------------------------------------------------
GpioTypeOK ==
  /\ inhibition \in [Pins -> -Half..Half - 1]
  /\ countdown \in [Pins -> -Half..Half - 1]
  /\ working \subseteq Pins
  /\ output \in [Pins -> {-1, 0, 1}]
  /\ pinStep \in {"config", "idle", "entry", "pin"}
  /\ pinOrder \in PinOrders \union {NoOrder}
  /\ entry \in Nat \ {0}
  /\ pin \in 1..NumPins + 1
  /\ name \subseteq Pins
  /\ changed \in BOOLEAN
  /\ waited \in [Pins -> 0..2 * Half - 1]
  /\ pinOrders \in 0..MaxPinOrders

\* A pin is measured at the first request and after exactly as many requests
\* as its inhibition says; a negative inhibition is a long one, as the eight
\* bit countdown has to come round (clientmain.c:234).
InhibitionCounts ==
  \A p \in Pins :
    /\ waited[p] <= Window(p)
    /\ countdown[p] = 0 <=> waited[p] = Window(p)

\* The answers to one order grow: each holds all that was measured for the
\* order before it was sent, none something twice, and once its last entry is
\* done the last answer holds everything that was to be reported.
AnswersGrow ==
  /\ \A i \in 1..Len(answers) :
       /\ answers[i] # <<>>
       /\ answers[i] = SubSeq(reported, 1, Len(answers[i]))
       /\ i > 1 => Len(answers[i - 1]) <= Len(answers[i])
  /\ pinStep = "idle" /\ reported # <<>> =>
       answers # <<>> /\ answers[Len(answers)] = reported
=============================================================================

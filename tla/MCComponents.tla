---------------------------- MODULE MCComponents ----------------------------
(***************************************************************************)
(* Small instances of the components.                                      *)
(***************************************************************************)
EXTENDS Components, MCLua

PinEntry(n, v) == [name |-> n, value |-> v]

\* Orders with one or two entries, with and without a name and a value, that
\* read a pin twice or set one.
MCPinOrders ==
  {[id |-> "gpio.read",
    pins |-> <<PinEntry({{1}}, {1}), PinEntry({}, {-1})>>],
   [id |-> "gpio.read",
    pins |-> <<PinEntry({{1, 2}}, {-1}), PinEntry({{2}}, {0})>>],
   [id |-> "gpio.read", pins |-> <<PinEntry({}, {})>>],
   [id |-> "gpio.set",
    pins |-> <<PinEntry({{1}}, {1}), PinEntry({{2}}, {}), PinEntry({}, {0})>>]}

MCInhibitions == {-2, 0, 1}

MCTtyLines == {<<"n">>, <<"a", "n">>, <<"b", "b", "n">>}

MCTtyOrders ==
  {[id |-> "tty.write", sender |-> "cli", value |-> {"on"}],
   [id |-> "tty.write", sender |-> "cron", value |-> {}]}

MCSpeechOrders ==
  {[id |-> "speech.speak", text |-> {"hello"}],
   [id |-> "speech.speak", text |-> {}],
   [id |-> "speech.cancel", text |-> {}]}

MCTogether ==
  {<<"cron", "gpio">>, <<"tty", "speech">>, <<"sphinx", "queue">>,
   <<"lua", "can">>}

MCConfigFiles ==
  {{}, {[rundaemon |-> {TRUE}, loglevel |-> {}]}}
=============================================================================

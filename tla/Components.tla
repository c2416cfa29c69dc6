----------------------------- MODULE Components -----------------------------
(***************************************************************************)
(* All components in one specification.  They share no state and meet on   *)
(* the bus only (RocsServer.tla, with ClientQueue.tla at the client's      *)
(* end); what comes from the bus is an input each of them has to take in   *)
(* any order.  So a behaviour is one of a single component, chosen at the  *)
(* start: a property of one component holds whatever the others do.        *)
(***************************************************************************)
EXTENDS Match, Gpio, Can, Tty, Speech, Sphinx,
        Lua, QueueBridge, Cli, ComponentMain

VARIABLE component  \* the component that runs

vars == <<component, matchVars, gpioVars, canVars, ttyVars, speechVars,
          sphinxVars, luaVars, bridgeVars, cliVars, mainVars>>

Init ==
  /\ component \in {"match", "gpio", "can", "tty", "speech", "sphinx",
                    "lua", "queue", "cli", "main"}
  /\ MatchInit
  /\ GpioInit
  /\ CanInit
  /\ TtyInit
  /\ SpeechInit
  /\ SphinxInit
  /\ LuaInit
  /\ BridgeInit
  /\ CliInit
  /\ MainInit
  /\ component # "main" => program = CHOOSE together \in Together : TRUE

-----------------------------------------------------------------------------
MatchStep ==
  /\ component = "match"
  /\ MatchNext
  /\ UNCHANGED <<component, gpioVars, canVars, ttyVars, speechVars, sphinxVars,
                 luaVars, bridgeVars, cliVars, mainVars>>

GpioStep ==
  /\ component = "gpio"
  /\ GpioNext
  /\ UNCHANGED <<component, matchVars, canVars, ttyVars, speechVars, sphinxVars,
                 luaVars, bridgeVars, cliVars, mainVars>>

CanStep ==
  /\ component = "can"
  /\ CanNext
  /\ UNCHANGED <<component, matchVars, gpioVars, ttyVars, speechVars, sphinxVars,
                 luaVars, bridgeVars, cliVars, mainVars>>

TtyStep ==
  /\ component = "tty"
  /\ TtyNext
  /\ UNCHANGED <<component, matchVars, gpioVars, canVars, speechVars, sphinxVars,
                 luaVars, bridgeVars, cliVars, mainVars>>

SpeechStep ==
  /\ component = "speech"
  /\ SpeechNext
  /\ UNCHANGED <<component, matchVars, gpioVars, canVars, ttyVars, sphinxVars,
                 luaVars, bridgeVars, cliVars, mainVars>>

SphinxStep ==
  /\ component = "sphinx"
  /\ SphinxNext
  /\ UNCHANGED <<component, matchVars, gpioVars, canVars, ttyVars, speechVars,
                 luaVars, bridgeVars, cliVars, mainVars>>

LuaStep ==
  /\ component = "lua"
  /\ LuaNext
  /\ UNCHANGED <<component, matchVars, gpioVars, canVars, ttyVars, speechVars,
                 sphinxVars, bridgeVars, cliVars, mainVars>>

BridgeStep ==
  /\ component = "queue"
  /\ BridgeNext
  /\ UNCHANGED <<component, matchVars, gpioVars, canVars, ttyVars, speechVars,
                 sphinxVars, luaVars, cliVars, mainVars>>

CliStep ==
  /\ component = "cli"
  /\ CliNext
  /\ UNCHANGED <<component, matchVars, gpioVars, canVars, ttyVars, speechVars,
                 sphinxVars, luaVars, bridgeVars, mainVars>>

MainStep ==
  /\ component = "main"
  /\ MainNext
  /\ UNCHANGED <<component, matchVars, gpioVars, canVars, ttyVars, speechVars,
                 sphinxVars, luaVars, bridgeVars, cliVars>>

Next ==
  \/ MatchStep
  \/ GpioStep
  \/ CanStep
  \/ TtyStep
  \/ SpeechStep
  \/ SphinxStep
  \/ LuaStep
  \/ BridgeStep
  \/ CliStep
  \/ MainStep

Spec == Init /\ [][Next]_vars

\* The main loop of the bridge goes on, and the server reads.
FairSpec ==
  /\ Spec
  /\ WF_vars(BridgeStep /\ BridgeLoop)
  /\ WF_vars(BridgeStep /\ ServerReads)

-----------------------------------------------------------------------------
\* Every variable of every component keeps its type, and the state of the
\* components that do not run stays as it was.
ComponentsTypeOK ==
  /\ GpioTypeOK
  /\ CanTypeOK
  /\ TtyTypeOK
  /\ SpeechTypeOK
  /\ SphinxTypeOK
  /\ LuaTypeOK
  /\ BridgeTypeOK
  /\ CliTypeOK
  /\ MainTypeOK
=============================================================================

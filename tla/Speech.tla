------------------------------- MODULE Speech -------------------------------
(***************************************************************************)
(* The speech component: rocsmq-speech/src/clientmain.c and                *)
(* speech_output.c over espeak, which plays a text while the main thread   *)
(* goes on.  Messages with another id than the two orders do nothing and   *)
(* are left out.                                                           *)
(***************************************************************************)
EXTENDS Naturals, Sequences, SequencesExt, ConfigParser

CONSTANTS
  SpeechOrders,     \* the messages that may come in: [id, text]
  Voices,           \* what a configuration may ask of espeak
  DefaultVoice,     \* and what it has when it asks for nothing
  MaxSpeechOrders   \* bound: messages that come in

ASSUME SpeechAssumption == MaxSpeechOrders \in Nat

VARIABLES
  speechStep,    \* "config", "init", "orders", "synchronize" or "exit"
  voice,         \* clientconfig.voice, speed, volume, pitch and gap
  espeakVoice,   \* what espeak was set to
  speechInbox,   \* the messages the listener put in the queue
  text,          \* the local text of handle_message
  playing,       \* the text espeak plays, a number of speechTexts, or 0
  speechTexts,   \* history: the texts given to espeak: [text, end]
  cancels,       \* history: how many texts there were at each cancel
  speechArrived  \* how many messages came in

speechVars == <<speechStep, voice, espeakVoice, speechInbox, text, playing,
                speechTexts, cancels, speechArrived>>

SpeechInit ==
  /\ speechStep = "config"
  /\ voice = DefaultVoice
  /\ espeakVoice = {}
  /\ speechInbox = <<>>
  /\ text = ""
  /\ playing = 0
  /\ speechTexts = <<>>
  /\ cancels = <<>>
  /\ speechArrived = 0

-----------------------------------------------------------------------------
speech_custom_config ==
  /\ speechStep = "config"
  /\ \E configured \in {{}} \union {{v} : v \in Voices} :
       voice' = get_val(voice, configured)
  /\ speechStep' = "init"
  /\ UNCHANGED <<espeakVoice, speechInbox, text, playing, speechTexts, cancels,
                 speechArrived>>

\* Without espeak the program ends before it connects.
init_espeak ==
  /\ speechStep = "init"
  /\ \/ speechStep' = "orders" /\ espeakVoice' = {voice}
     \/ speechStep' = "exit" /\ UNCHANGED espeakVoice
  /\ UNCHANGED <<voice, speechInbox, text, playing, speechTexts, cancels,
                 speechArrived>>

SpeechMessage ==
  /\ speechStep \in {"orders", "synchronize"}
  /\ speechArrived < MaxSpeechOrders
  /\ speechArrived' = speechArrived + 1
  /\ \E m \in SpeechOrders : speechInbox' = Append(speechInbox, m)
  /\ UNCHANGED <<speechStep, voice, espeakVoice, text, playing, speechTexts,
                 cancels>>

\* What text may hold: a message without a text leaves what the stack held.
TextsOf(m) == IF m.text = {} THEN {"", "what the stack held"} ELSE m.text

\* speak: espeak_Synchronize waits until nothing plays.
SpeakOrder ==
  /\ speechStep = "orders"
  /\ speechInbox # <<>>
  /\ Head(speechInbox).id = "speech.speak"
  /\ text' \in TextsOf(Head(speechInbox))
  /\ speechStep' = IF text' = "" THEN "orders" ELSE "synchronize"
  /\ speechInbox' = Tail(speechInbox)
  /\ UNCHANGED <<voice, espeakVoice, playing, speechTexts, cancels,
                 speechArrived>>

\* Defect: the text before is not waited for.
SynthAtOnce ==
  /\ speechStep = "synchronize"
  /\ speechTexts' = Append(speechTexts, [text |-> text, end |-> "none"])
  /\ playing' = Len(speechTexts')
  /\ speechStep' = "orders"
  /\ UNCHANGED <<voice, espeakVoice, speechInbox, text, cancels, speechArrived>>

Synth ==
  /\ speechStep = "synchronize"
  /\ playing = 0
  /\ speechTexts' = Append(speechTexts, [text |-> text, end |-> "none"])
  /\ playing' = Len(speechTexts')
  /\ speechStep' = "orders"
  /\ UNCHANGED <<voice, espeakVoice, speechInbox, text, cancels, speechArrived>>

\* espeak has played the text to its end.
Played ==
  /\ playing # 0
  /\ speechTexts' = [speechTexts EXCEPT ![playing].end = "full"]
  /\ playing' = 0
  /\ UNCHANGED <<speechStep, voice, espeakVoice, speechInbox, text, cancels,
                 speechArrived>>

\* shutup: espeak_Cancel stops what plays.
CancelOrder ==
  /\ speechStep = "orders"
  /\ speechInbox # <<>>
  /\ Head(speechInbox).id = "speech.cancel"
  /\ speechTexts' = [i \in DOMAIN speechTexts |->
                       IF i = playing THEN [speechTexts[i] EXCEPT !.end = "cut"]
                       ELSE speechTexts[i]]
  /\ playing' = 0
  /\ cancels' = Append(cancels, Len(speechTexts))
  /\ speechInbox' = Tail(speechInbox)
  /\ UNCHANGED <<speechStep, voice, espeakVoice, text, speechArrived>>

SpeechNext ==
  \/ speech_custom_config
  \/ init_espeak
  \/ SpeechMessage
  \/ SpeakOrder
  \/ Synth
  \/ Played
  \/ CancelOrder

SpeechSpec == SpeechInit /\ [][SpeechNext]_speechVars

-----------------------------------------------------------------------------
SpeechTypeOK ==
  /\ speechStep \in {"config", "init", "orders", "synchronize", "exit"}
  /\ voice \in Voices \union {DefaultVoice}
  /\ espeakVoice \subseteq {voice}
  /\ Range(speechInbox) \subseteq SpeechOrders
  /\ playing \in 0..Len(speechTexts)
  /\ speechArrived \in 0..MaxSpeechOrders

\* A cancel cuts the last text before it and no other: one that came in while
\* a text played and another waited is handled when the first was played, and
\* cuts the second (speech_output.c:62).
OnlyTheLastTextIsCut ==
  \A i \in DOMAIN speechTexts :
    /\ speechTexts[i].end = "none" => i = playing
    /\ speechTexts[i].end = "cut" => i \in Range(cancels)
=============================================================================

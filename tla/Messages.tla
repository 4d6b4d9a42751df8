------------------------------ MODULE Messages ------------------------------
(***************************************************************************)
(* Messages to customers: the template of each event and channel, and the  *)
(* addons that send them.  The words are left out.                         *)
(***************************************************************************)
EXTENDS Addons

CONSTANTS Events,    \* NOTIFICATION_EVENTS
          SentOn     \* [Events -> SUBSET Channels], event_supports_channel

ASSUME MessagesAssumption == SentOn \in [Events -> SUBSET Channels]

VARIABLE template   \* of each <<event, channel>> with a row: whether it is enabled

messageVars == <<template>>

Templates == {m \in Events \X Channels : m[2] \in SentOn[m[1]]}

\* get_effective_template: without a row the default is sent.
Silenced(event, channel) ==
  <<event, channel>> \in DOMAIN template /\ ~template[<<event, channel>>]

\* dispatch_notification: the channels an event is sent on to someone who can be
\* reached on some.  Each may refuse it; it has been sent if one does not.
Dispatched(event, reached) ==
  {c \in SentOn[event] \cap reached : ~Silenced(event, c) /\ Serving(c) # {}}

\* admin_notification_message_save: a template is saved, or its row deleted.
SaveTemplate(m, on) ==
  template' = [t \in DOMAIN template \cup {m} |-> IF t = m THEN on ELSE template[t]]
ResetTemplate(m) == template' = [t \in DOMAIN template \ {m} |-> template[t]]

MessagesInit == template = [m \in {} |-> TRUE]

MessagesStep ==
  \E m \in shop.messages : ResetTemplate(m) \/ \E on \in BOOLEAN : SaveTemplate(m, on)

MessagesTypeOK == DOMAIN template \subseteq Templates /\ \A m \in DOMAIN template : template[m] \in BOOLEAN
=============================================================================

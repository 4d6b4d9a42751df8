------------------------------ MODULE Webhooks ------------------------------
(***************************************************************************)
(* The receiver of outbound webhooks: one row that the administrator saves *)
(* and whose secret is shown once, and that every delivery reads before    *)
(* its POST and writes after it.                                           *)
(***************************************************************************)
EXTENDS Server

CONSTANTS Hooks,       \* requests that use the row at a time
          MaxSecrets   \* bound on secrets generated

ASSUME WebhooksAssumption == MaxSecrets \in Nat

VARIABLES
  endpoint,  \* the OutboundWebhookEndpoint row
  hook,      \* the requests in progress, with the row each has read
  made,      \* secrets generated so far
  \* History, read by the properties only:
  shown,     \* the secret shown last
  crowded    \* a request has read the row while another was in progress

webhookVars == <<endpoint, hook, made, shown, crowded>>

NoEndpoint == [exists |-> FALSE, enabled |-> FALSE, secret |-> 0]
NoHook     == [op |-> "none", row |-> NoEndpoint, to |-> NoEndpoint]

\* get_outbound_webhook_endpoint creates the row; D1 commits it at once.
HookBegin(h, op, to) ==
  /\ hook[h] = NoHook
  /\ hook' = [hook EXCEPT ![h] = [op |-> op, row |-> endpoint, to |-> [to EXCEPT !.exists = TRUE]]]
  /\ endpoint' = [endpoint EXCEPT !.exists = @ \/ shop.backend = "d1"]
  /\ crowded' = (crowded \/ \E k \in Hooks : hook[k] # NoHook)
  /\ UNCHANGED <<made, shown>>

\* save_outbound_webhook_endpoint: a secret is generated if the row has none.
SaveHook(h) ==
  \E enabled \in BOOLEAN :
    HookBegin(h, IF endpoint.secret = 0 THEN "reveal" ELSE "save", [endpoint EXCEPT !.enabled = enabled])

\* rotate_outbound_webhook_secret
RotateHook(h) == HookBegin(h, "reveal", endpoint)

\* emit_outbound_webhook, for an event or a test: the row is read, then the
\* delivery is posted.
Emit(h) == endpoint.secret # 0 /\ HookBegin(h, "record", endpoint)

\* Faulty form: the whole row is written on SQLite too.
WrittenWhole(row, to) == to

\* The columns an UPDATE writes: those changed, or all on D1.
Written(row, to) ==
  IF shop.backend = "d1" THEN to
  ELSE [enabled |-> IF to.enabled # row.enabled THEN to.enabled ELSE endpoint.enabled,
        secret  |-> IF to.secret # row.secret THEN to.secret ELSE endpoint.secret,
        exists  |-> TRUE]

\* The flush and the commit; of two first requests on SQLite one cannot insert.
HookWrite(h) ==
  LET reveals == hook[h].op = "reveal"
      to      == IF reveals THEN [hook[h].to EXCEPT !.secret = made + 1] ELSE hook[h].to
  IN /\ hook[h] # NoHook
     /\ shop.backend = "sqlite" => hook[h].row.exists = endpoint.exists
     /\ reveals => made < MaxSecrets
     /\ made' = IF reveals THEN made + 1 ELSE made
     /\ shown' = IF reveals THEN made + 1 ELSE shown
     /\ endpoint' = Written(hook[h].row, to)
     /\ hook' = [hook EXCEPT ![h] = NoHook]
     /\ UNCHANGED crowded

\* The request is refused or rolled back.
HookFails(h) ==
  /\ hook[h] # NoHook
  /\ hook' = [hook EXCEPT ![h] = NoHook]
  /\ UNCHANGED <<endpoint, made, shown, crowded>>

\* The process ends.
DropHooks ==
  /\ hook' = [h \in Hooks |-> NoHook]
  /\ UNCHANGED <<endpoint, made, shown, crowded>>

WebhooksInit ==
  /\ endpoint = NoEndpoint
  /\ hook = [h \in Hooks |-> NoHook]
  /\ made = 0
  /\ shown = 0
  /\ crowded = FALSE

WebhooksStep ==
  \E h \in shop.hooks : SaveHook(h) \/ RotateHook(h) \/ Emit(h) \/ HookWrite(h) \/ HookFails(h)

-----------------------------------------------------------------------------
(* Properties *)

WebhooksTypeOK ==
  /\ endpoint \in [exists : BOOLEAN, enabled : BOOLEAN, secret : 0 .. MaxSecrets]
  /\ \A h \in Hooks : hook[h].op \in {"none", "save", "reveal", "record"}
  /\ made \in 0 .. MaxSecrets /\ shown \in 0 .. made

\* The secret that signs deliveries is the one shown to the administrator last:
\* on SQLite however saves, rotations and deliveries overlap, on D1 as long as
\* none of them has.
SecretIsShown == shop.backend = "sqlite" \/ ~crowded => endpoint.secret = shown
=============================================================================

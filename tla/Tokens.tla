------------------------------- MODULE Tokens -------------------------------
(***************************************************************************)
(* The credentials of one OAuth source and the routing of its workspaces:  *)
(* kb/admin_routes.oauth_exchange, engine/shared/tokens.py,                *)
(* engine/shared/customer_mapping.py and the two crons that keep tokens    *)
(* alive, scripts/cron_token_refresh.py and cron_token_health_check.py.    *)
(* A token is a generation number: the provider accepts some of them for   *)
(* calls (tkAccepted) and exchanges some of them once for the next one     *)
(* (tkGrants).  Every customer is a tenant that may own the workspace.     *)
(***************************************************************************)
EXTENDS Naturals, Sequences, FiniteSets

CONSTANTS
    TkCustomers,
    TkSources,   \* "rotating" (Slack, Linear, Notion) or "sentry"
    TkFirst,     \* source -> the customer connected from the start, or "none"
    TkGens,      \* source -> bound: tokens the provider issues
    TkProbes,    \* bound: cycles of the health cron
    TkFaults     \* bound: lost answers, dead processes, transient refusals,
                 \* disconnects, withdrawn grants and terminated tenants

ASSUME TkAssumption ==
    /\ "none" \notin TkCustomers
    /\ TkFirst \in [TkSources -> TkCustomers \cup {"none"}]

VARIABLES
    tkSource,
    tkIssued, tkOwner, tkAccepted, tkGrants,   \* the provider
    tkGen, tkStatus, tkSoon, tkErr,            \* integration_tokens, per customer
    tkMap,                                     \* ref -> customer or "none"
    tkHeld,                                    \* tenants that are not active
    tkPc, tkTok, tkRefs, tkAt,                 \* oauth_exchange, per customer
    tkAnswer,
    tkR, tkP,                                  \* the refresh and the health cron
    tkLost,                                    \* history: tokens lost with a reason
    tkProbesLeft, tkFaultsLeft

tkProvider == <<tkIssued, tkOwner, tkAccepted, tkGrants>>
tkRow == <<tkGen, tkStatus, tkSoon, tkErr>>
tkInstall == <<tkPc, tkTok, tkRefs, tkAt, tkAnswer>>
tkPast == <<tkLost>>
tkVars == <<tkSource, tkProvider, tkRow, tkMap, tkHeld, tkInstall, tkR, tkP,
            tkPast, tkProbesLeft, tkFaultsLeft>>

TkNobody == "none"

\* Where a cron is: its targets to come, the one it is on, and the token it read.
TkTurn(pc, todo, c, tok) == [pc |-> pc, todo |-> todo, c |-> c, tok |-> tok, old |-> 0]
TkIdle == TkTurn("idle", {}, TkNobody, 0)
TkLoop(todo) == TkTurn("loop", todo, TkNobody, 0)

\* identify_workspaces: Slack, Linear and Notion name one workspace, Sentry the
\* organisation twice, by slug and by id.
TkWorkspaces == IF tkSource = "sentry" THEN <<"slug", "id">> ELSE <<"team">>

TkInit ==
    /\ tkSource \in TkSources
    /\ tkIssued = IF TkFirst[tkSource] = TkNobody THEN 0 ELSE 1
    /\ tkOwner = [g \in 1..tkIssued |-> TkFirst[tkSource]]
    /\ tkAccepted = 1..tkIssued /\ tkGrants = 1..tkIssued
    /\ tkGen = [c \in TkCustomers |-> IF c = TkFirst[tkSource] THEN 1 ELSE 0]
    /\ tkStatus = [c \in TkCustomers |-> IF c = TkFirst[tkSource] THEN "active" ELSE "none"]
    /\ tkSoon = [c \in TkCustomers |-> FALSE]
    /\ tkErr = [c \in TkCustomers |-> FALSE]
    /\ tkMap = [r \in {"team", "slug", "id"} |->
                   IF r = "team" THEN TkFirst[tkSource] ELSE TkNobody]
    /\ tkHeld = {}
    /\ tkPc = [c \in TkCustomers |-> "idle"]
    /\ tkTok = [c \in TkCustomers |-> 0]
    /\ tkRefs = [c \in TkCustomers |-> <<>>]
    /\ tkAt = [c \in TkCustomers |-> 0]
    /\ tkAnswer = [c \in TkCustomers |-> "none"]
    /\ tkR = TkIdle /\ tkP = TkIdle
    /\ tkLost = {}
    /\ tkProbesLeft = TkProbes /\ tkFaultsLeft = TkFaults

TkFault == tkFaultsLeft > 0 /\ tkFaultsLeft' = tkFaultsLeft - 1

\* The provider issues the next token to c.
TkIssue(c) ==
    /\ tkIssued < TkGens[tkSource]
    /\ tkIssued' = tkIssued + 1
    /\ tkOwner' = Append(tkOwner, c)

\* Variant of TkSaveRow: the encrypted columns are left out of the update.
TkSaveRowKeepsToken(c, gen) ==
    /\ tkGen' = [tkGen EXCEPT ![c] = IF @ = 0 THEN gen ELSE @]
    /\ tkStatus' = [tkStatus EXCEPT ![c] = "active"]
    /\ tkSoon' = [tkSoon EXCEPT ![c] = FALSE]
    /\ tkErr' = [tkErr EXCEPT ![c] = FALSE]

\* save_token: insert or overwrite, active again and without an error, whatever
\* the row held.
TkSaveRow(c, gen) ==
    /\ tkGen' = [tkGen EXCEPT ![c] = gen]
    /\ tkStatus' = [tkStatus EXCEPT ![c] = "active"]
    /\ tkSoon' = [tkSoon EXCEPT ![c] = FALSE]
    /\ tkErr' = [tkErr EXCEPT ![c] = FALSE]

(***************************************************************************)
(* oauth_exchange                                                          *)
(***************************************************************************)
TkElse(c) == UNCHANGED <<tkSource, tkHeld, tkR, tkP, tkLost, tkProbesLeft>>

TkInstalling(d) == tkPc[d] # "idle"

\* The code is exchanged and the workspaces are identified.  A failed
\* identification is logged and the install goes on without workspaces.
TkExchange(c) ==
    /\ tkPc[c] = "idle"
    /\ TkIssue(c)
    /\ tkAccepted' = tkAccepted \cup {tkIssued'}
    /\ tkGrants' = tkGrants \cup {tkIssued'}
    /\ tkPc' = [tkPc EXCEPT ![c] = "check"]
    /\ tkTok' = [tkTok EXCEPT ![c] = tkIssued']
    /\ tkAt' = [tkAt EXCEPT ![c] = 1]
    /\ \/ tkRefs' = [tkRefs EXCEPT ![c] = TkWorkspaces] /\ UNCHANGED tkFaultsLeft
       \/ tkRefs' = [tkRefs EXCEPT ![c] = <<>>] /\ TkFault
    /\ tkAnswer' = [tkAnswer EXCEPT ![c] = "none"]
    /\ UNCHANGED <<tkRow, tkMap>> /\ TkElse(c)

TkReset(c, answer) ==
    /\ tkPc' = [tkPc EXCEPT ![c] = "idle"]
    /\ tkTok' = [tkTok EXCEPT ![c] = 0]
    /\ tkRefs' = [tkRefs EXCEPT ![c] = <<>>]
    /\ tkAt' = [tkAt EXCEPT ![c] = 0]
    /\ tkAnswer' = [tkAnswer EXCEPT ![c] = answer]

TkForeign(c, ref) == tkMap[ref] \notin {TkNobody, c}

\* resolve_customer of one workspace: one that belongs to another customer ends
\* the install with 409 before anything is saved.
TkCheck(c) ==
    /\ tkPc[c] = "check" /\ tkAt[c] <= Len(tkRefs[c])
    /\ \/ /\ TkForeign(c, tkRefs[c][tkAt[c]])
          /\ TkReset(c, "refused")
       \/ /\ ~TkForeign(c, tkRefs[c][tkAt[c]])
          /\ tkAt' = [tkAt EXCEPT ![c] = @ + 1]
          /\ UNCHANGED <<tkPc, tkTok, tkRefs, tkAnswer>>
    /\ UNCHANGED <<tkProvider, tkRow, tkMap, tkFaultsLeft>>
    /\ TkElse(c)

TkSave(c) ==
    /\ tkPc[c] = "check" /\ tkAt[c] > Len(tkRefs[c])
    /\ TkSaveRow(c, tkTok[c])
    /\ tkPc' = [tkPc EXCEPT ![c] = "select"]
    /\ tkAt' = [tkAt EXCEPT ![c] = 1]
    /\ UNCHANGED <<tkProvider, tkMap, tkTok, tkRefs, tkAnswer,
                   tkFaultsLeft>>
    /\ TkElse(c)

\* record_mapping, its SELECT: a row of another customer raises
\* SourceAlreadyConnectedError, and the route answers 409 with the token saved.
TkSelect(c) ==
    /\ tkPc[c] = "select" /\ tkAt[c] <= Len(tkRefs[c])
    /\ \/ /\ TkForeign(c, tkRefs[c][tkAt[c]])
          /\ TkReset(c, "refused")
       \/ /\ ~TkForeign(c, tkRefs[c][tkAt[c]])
          /\ tkPc' = [tkPc EXCEPT ![c] = "insert"]
          /\ UNCHANGED <<tkTok, tkRefs, tkAt, tkAnswer>>
    /\ UNCHANGED <<tkProvider, tkRow, tkMap, tkFaultsLeft>>
    /\ TkElse(c)

\* record_mapping, its INSERT ... ON CONFLICT DO UPDATE: the conflicting row's
\* customer_id is not among the updated columns.
TkOwnerAfter(c, ref) == IF tkMap[ref] = TkNobody THEN c ELSE tkMap[ref]

TkInsert(c) ==
    /\ tkPc[c] = "insert"
    /\ LET ref == tkRefs[c][tkAt[c]]
       IN tkMap' = [tkMap EXCEPT ![ref] = TkOwnerAfter(c, ref)]
    /\ tkAt' = [tkAt EXCEPT ![c] = @ + 1]
    /\ tkPc' = [tkPc EXCEPT ![c] = "select"]
    /\ UNCHANGED <<tkProvider, tkRow, tkTok, tkRefs, tkAnswer, tkFaultsLeft>>
    /\ TkElse(c)

\* The answer 200.  (enqueue_backfill, whose failure is swallowed, is modelled
\* with the backfills.)
TkFinish(c) ==
    /\ tkPc[c] = "select" /\ tkAt[c] > Len(tkRefs[c])
    /\ TkReset(c, IF tkRefs[c] = <<>> THEN "unmapped" ELSE "connected")
    /\ UNCHANGED <<tkProvider, tkRow, tkMap, tkFaultsLeft>> /\ TkElse(c)

\* The process dies inside the handler: no answer.
TkInstallDies(c) ==
    /\ TkInstalling(c) /\ TkFault
    /\ TkReset(c, "none")
    /\ UNCHANGED <<tkProvider, tkRow, tkMap>> /\ TkElse(c)

\* prbe-backend's disconnect: the token row and the mappings go in one
\* transaction.
TkDisconnect(c) ==
    /\ tkGen[c] # 0 /\ ~TkInstalling(c) /\ TkFault
    /\ tkGen' = [tkGen EXCEPT ![c] = 0]
    /\ tkStatus' = [tkStatus EXCEPT ![c] = "none"]
    /\ tkSoon' = [tkSoon EXCEPT ![c] = FALSE]
    /\ tkErr' = [tkErr EXCEPT ![c] = FALSE]
    /\ tkMap' = [r \in DOMAIN tkMap |-> IF tkMap[r] = c THEN TkNobody ELSE tkMap[r]]
    /\ tkAnswer' = [tkAnswer EXCEPT ![c] = "none"]
    /\ UNCHANGED <<tkSource, tkProvider, tkHeld, tkPc, tkTok, tkRefs, tkAt,
                   tkR, tkP, tkLost, tkProbesLeft>>

(***************************************************************************)
(* cron_token_refresh                                                      *)
(***************************************************************************)
TkCronElse == UNCHANGED <<tkSource, tkMap, tkHeld, tkInstall>>

TkRefreshElse == TkCronElse /\ UNCHANGED tkProbesLeft

TkList ==
    /\ tkR.pc = "idle"
    /\ LET due == {c \in TkCustomers \ tkHeld : tkStatus[c] = "active" /\ tkSoon[c]}
       IN due # {} /\ tkR' = TkLoop(due)
    /\ UNCHANGED <<tkProvider, tkRow, tkP, tkLost, tkFaultsLeft>> /\ TkRefreshElse

\* The next target: skipped when its row is no longer active, marked when the
\* connector has no exchange_refresh_token.
TkLoad ==
    /\ tkR.pc = "loop" /\ tkR.todo # {}
    /\ \E c \in tkR.todo :
          LET rest == TkLoop(tkR.todo \ {c})
          IN \/ /\ tkStatus[c] # "active"
                /\ tkR' = rest /\ UNCHANGED tkErr
             \/ /\ tkStatus[c] = "active" /\ tkSource = "sentry"
                /\ tkErr' = [tkErr EXCEPT ![c] = TRUE]
                /\ tkR' = rest
             \/ /\ tkStatus[c] = "active" /\ tkSource # "sentry"
                /\ tkR' = TkTurn("exchange", tkR.todo \ {c}, c, tkGen[c])
                /\ UNCHANGED tkErr
    /\ UNCHANGED <<tkProvider, tkGen, tkStatus, tkSoon, tkP, tkLost, tkFaultsLeft>>
    /\ TkRefreshElse

\* The answer of a rotation: the new token, still to be saved.
TkRotated(new) == [pc |-> "save", todo |-> tkR.todo, c |-> tkR.c, tok |-> new, old |-> tkR.tok]

\* exchange_refresh_token: the provider rotates a grant it knows, and refuses
\* any other; the answer, or the request, may be lost.
TkRefreshCall ==
    /\ tkR.pc = "exchange"
    /\ \/ /\ tkR.tok \in tkGrants
          /\ TkIssue(tkR.c)
          /\ tkAccepted' = (tkAccepted \ {tkR.tok}) \cup {tkIssued'}
          /\ tkGrants' = (tkGrants \ {tkR.tok}) \cup {tkIssued'}
          /\ \/ /\ tkR' = TkRotated(tkIssued')
                /\ UNCHANGED <<tkLost, tkFaultsLeft>>
             \/ /\ TkFault
                /\ tkR' = TkTurn("mark", tkR.todo, tkR.c, tkR.tok)
                /\ tkLost' = tkLost \cup {tkR.tok}
       \/ /\ tkR.tok \notin tkGrants
          /\ tkR' = TkTurn("mark", tkR.todo, tkR.c, tkR.tok)
          /\ UNCHANGED <<tkProvider, tkLost, tkFaultsLeft>>
       \/ /\ TkFault
          /\ tkR' = TkTurn("mark", tkR.todo, tkR.c, tkR.tok)
          /\ UNCHANGED <<tkProvider, tkLost>>
    /\ UNCHANGED <<tkRow, tkP>> /\ TkRefreshElse

TkNextTarget == TkLoop(tkR.todo)

TkSaveRefreshed ==
    /\ tkR.pc = "save"
    /\ TkSaveRow(tkR.c, tkR.tok)
    /\ tkR' = TkNextTarget
    /\ UNCHANGED <<tkProvider, tkP, tkLost, tkFaultsLeft>> /\ TkRefreshElse

\* mark_refresh_error, for whatever row there is: the status stays.
TkMark ==
    /\ tkR.pc = "mark"
    /\ tkErr' = [tkErr EXCEPT ![tkR.c] = tkGen[tkR.c] # 0]
    /\ tkR' = TkNextTarget
    /\ UNCHANGED <<tkProvider, tkGen, tkStatus, tkSoon, tkP, tkLost, tkFaultsLeft>>
    /\ TkRefreshElse

TkRefreshEnds ==
    /\ tkR.pc = "loop" /\ tkR.todo = {}
    /\ tkR' = TkIdle
    /\ UNCHANGED <<tkProvider, tkRow, tkP, tkLost, tkFaultsLeft>> /\ TkRefreshElse

\* The cron's process dies; the next schedule starts over.
TkRefreshDies ==
    /\ tkR.pc # "idle" /\ TkFault
    /\ tkR' = TkIdle
    /\ tkLost' = IF tkR.pc = "save" THEN tkLost \cup {tkR.old} ELSE tkLost
    /\ UNCHANGED <<tkProvider, tkRow, tkP>> /\ TkRefreshElse

(***************************************************************************)
(* cron_token_health_check                                                 *)
(***************************************************************************)
TkProbeElse == UNCHANGED <<tkProvider, tkR, tkLost>> /\ TkCronElse

TkProbeList ==
    /\ tkP.pc = "idle" /\ tkProbesLeft > 0
    /\ tkProbesLeft' = tkProbesLeft - 1
    /\ LET live == {c \in TkCustomers \ tkHeld : tkStatus[c] = "active"}
       IN live # {} /\ tkP' = TkLoop(live)
    /\ UNCHANGED <<tkRow, tkFaultsLeft>> /\ TkProbeElse

\* Sentry's connector has no verify_token_health: skipped.
TkProbeLoad ==
    /\ tkP.pc = "loop" /\ tkP.todo # {}
    /\ \E c \in tkP.todo :
          LET rest == TkLoop(tkP.todo \ {c})
          IN \/ /\ tkStatus[c] # "active" \/ tkSource = "sentry"
                /\ tkP' = rest
             \/ /\ tkStatus[c] = "active" /\ tkSource # "sentry"
                /\ tkP' = TkTurn("verify", tkP.todo \ {c}, c, tkGen[c])
    /\ UNCHANGED <<tkRow, tkFaultsLeft>> /\ UNCHANGED tkProbesLeft /\ TkProbeElse

\* verify_token_health: True, False, or an exception that decides nothing.
TkVerify ==
    /\ tkP.pc = "verify"
    /\ LET next == TkLoop(tkP.todo)
       IN \/ tkP.tok \in tkAccepted /\ tkP' = next /\ UNCHANGED tkFaultsLeft
          \/ tkP.tok \notin tkAccepted /\ tkP' = [tkP EXCEPT !.pc = "flag"]
             /\ UNCHANGED tkFaultsLeft
          \/ TkFault /\ tkP' = next
    /\ UNCHANGED <<tkRow>> /\ UNCHANGED tkProbesLeft /\ TkProbeElse

\* mark_token_auth_failed: whatever token the active row holds by now.
TkFlag ==
    /\ tkP.pc = "flag"
    /\ LET flips == tkStatus[tkP.c] = "active"
       IN /\ tkStatus' = [tkStatus EXCEPT ![tkP.c] = IF flips THEN "auth_failed" ELSE @]
          /\ tkErr' = [tkErr EXCEPT ![tkP.c] = flips \/ @]
    /\ tkP' = TkLoop(tkP.todo)
    /\ UNCHANGED <<tkGen, tkSoon, tkFaultsLeft>> /\ UNCHANGED tkProbesLeft /\ TkProbeElse

TkProbeEnds ==
    /\ tkP.pc = "loop" /\ tkP.todo = {}
    /\ tkP' = TkIdle
    /\ UNCHANGED <<tkRow, tkFaultsLeft>> /\ UNCHANGED tkProbesLeft /\ TkProbeElse

(***************************************************************************)
(* The world                                                               *)
(***************************************************************************)
\* A token comes within an hour of its expiry.
TkAge(c) ==
    /\ tkGen[c] # 0 /\ ~tkSoon[c] /\ tkIssued < TkGens[tkSource]
    /\ tkSoon' = [tkSoon EXCEPT ![c] = TRUE]
    /\ UNCHANGED <<tkSource, tkProvider, tkGen, tkStatus, tkErr, tkMap, tkHeld, tkInstall,
                   tkR, tkP, tkPast, tkFaultsLeft, tkProbesLeft>>

\* The user withdraws the grant at the provider.
TkRevoke(c) ==
    /\ \E g \in tkAccepted : tkOwner[g] = c
    /\ TkFault
    /\ tkAccepted' = {g \in tkAccepted : tkOwner[g] # c}
    /\ tkGrants' = {g \in tkGrants : tkOwner[g] # c}
    /\ tkLost' = tkLost \cup {g \in tkAccepted : tkOwner[g] = c}
    /\ UNCHANGED <<tkSource, tkIssued, tkOwner, tkRow, tkMap, tkHeld, tkInstall, tkR, tkP, tkProbesLeft>>

\* The tenant is terminated: its tokens are left to lapse.
TkHold(c) ==
    /\ c \notin tkHeld /\ TkFault
    /\ tkHeld' = tkHeld \cup {c}
    /\ UNCHANGED <<tkSource, tkProvider, tkRow, tkMap, tkInstall, tkR, tkP, tkPast, tkProbesLeft>>

TkCron == TkList \/ TkLoad \/ TkRefreshCall \/ TkSaveRefreshed \/ TkMark \/ TkRefreshEnds

TkProbe == TkProbeList \/ TkProbeLoad \/ TkVerify \/ TkFlag \/ TkProbeEnds

TkNext ==
    \/ \E c \in TkCustomers :
          \/ TkExchange(c) \/ TkCheck(c) \/ TkSave(c) \/ TkSelect(c) \/ TkInsert(c)
          \/ TkFinish(c) \/ TkInstallDies(c) \/ TkDisconnect(c)
          \/ TkAge(c) \/ TkRevoke(c) \/ TkHold(c)
    \/ TkCron \/ TkRefreshDies \/ TkProbe

TkSpec == TkInit /\ [][TkNext]_tkVars

\* An active row holds a token the provider accepts, unless the grant was
\* withdrawn, or the answer of a rotation was lost with the connection or the
\* process before save_token, or the rotation is under way.
LostTokenHasReason ==
    \A c \in TkCustomers :
       (tkStatus[c] = "active" /\ tkGen[c] \notin tkAccepted)
       => tkGen[c] \in tkLost \/ (tkR.pc = "save" /\ tkR.old = tkGen[c])

=============================================================================

------------------------------- MODULE Proxies -------------------------------
(***************************************************************************)
(* The routes under /api of the web UI, which relay a page's request to the *)
(* transaction service, and what that service demands of a request before   *)
(* it looks at anything else.  Nothing here has state.                      *)
(*                                                                          *)
(* A route turns a request away with 401 unless it carries one of the       *)
(* headers it asks for; it passes on the headers it names and no others,    *)
(* and hands back the service's status and body as they are.  When the      *)
(* service cannot be reached it answers 503 itself.                         *)
(***************************************************************************)

UserEmail == "X-User-Email"
UserID    == "X-User-ID"
SessionID == "X-Session-ID"
OldSessionID == "X-User-Session-ID"
IdempotencyKey == "Idempotency-Key"

Headers == {UserEmail, UserID, SessionID, OldSessionID, IdempotencyKey}

-----------------------------------------------------------------------------
(* asks: one of these must be there, if there are any; passes: what goes on *)
(* to the service.                                                          *)

HealthRoute   == [asks |-> {}, passes |-> {}]
LoginRoute    == [asks |-> {}, passes |-> {}]
RegisterRoute == [asks |-> {}, passes |-> {}]
ListRoute     == [asks |-> {}, passes |-> {}]
MeRoute       == [asks |-> {UserEmail, UserID}, passes |-> {UserEmail, UserID}]
PhoneRoute    == [asks |-> {UserEmail}, passes |-> {UserEmail}]
PasswordRoute == [asks |-> {UserEmail}, passes |-> {UserEmail}]
TopupRoute    == [asks |-> {UserEmail, UserID}, passes |-> {UserEmail, UserID}]
TransferRoute == [asks |-> {}, passes |-> {UserEmail, UserID}]

Route == [health |-> HealthRoute, login |-> LoginRoute, register |-> RegisterRoute,
          list |-> ListRoute, me |-> MeRoute, phone |-> PhoneRoute,
          password |-> PasswordRoute, topup |-> TopupRoute, transfer |-> TransferRoute]

Kinds == DOMAIN Route

Relayed(kind, headers) ==
    Route[kind].asks = {} \/ Route[kind].asks \cap headers # {}

Forwarded(kind, headers) == headers \cap Route[kind].passes

-----------------------------------------------------------------------------
(* The service: of each of these sets one header has to be there.  The      *)
(* session is looked up first (authMiddleware), then the handlers of money  *)
(* look for a user and a key.                                               *)

SessionDemand == {SessionID, OldSessionID}

TransferDemands == {SessionDemand, {UserEmail}, {IdempotencyKey}}
TopupDemands    == {SessionDemand, {UserEmail, UserID}, {IdempotencyKey}}
MeDemands       == {{UserEmail, UserID}}
PhoneDemands    == {{UserEmail}}
PasswordDemands == {{SessionID}}

Demands == [health |-> {}, login |-> {}, register |-> {}, list |-> {},
            me |-> MeDemands, phone |-> PhoneDemands, password |-> PasswordDemands,
            topup |-> TopupDemands, transfer |-> TransferDemands]

(* A request with these headers reaches the handler's own work. *)
Admitted(kind, headers) ==
    /\ Relayed(kind, headers)
    /\ \A demand \in Demands[kind] : demand \cap Forwarded(kind, headers) # {}
=============================================================================

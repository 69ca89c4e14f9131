----------------------------- MODULE OAuthGrants -----------------------------
(***************************************************************************)
(* OAuth for MCP clients: one consent request, the grant and the code that *)
(* its approval makes, and the chain of refresh tokens exchanged for one   *)
(* another, with replays, revocation, restriction and cleanup.             *)
(*                                                                         *)
(* Each batch is one transaction that works with the time its request      *)
(* began and may arrive any time later; any holder of a credential may     *)
(* present it any number of times.  Bindings, PKCE, scopes and access      *)
(* tokens (which carry the generation of the grant) are abstracted.        *)
(***************************************************************************)
EXTENDS Integers, Sequences, FiniteSets

CONSTANTS
  OAuthCallers,
  RequestLife, CodeLife, GrantLife,
  MaxCredentials, MaxOAuthTime   \* bounds of the checked instance

ASSUME OAuthAssumption ==
  /\ {RequestLife, CodeLife, GrantLife} \subseteq Nat \ {0}
  /\ MaxCredentials \in Nat /\ MaxOAuthTime \in Nat

VARIABLES
  oauthNow,     \* the clock
  consent,      \* the oauth_requests row, and whether the owner has access
  mcpGrants,    \* mcp_grants, in the order of their inserts
  credentials,  \* oauth_codes and oauth_refresh_tokens, in the order of their inserts
  oauthCall,    \* the requests under way
  exchanged     \* history: how often each credential was exchanged, and presented after that

oauthVars == <<oauthNow, consent, mcpGrants, credentials, oauthCall, exchanged>>

NoOAuthCall == [at |-> "idle", now |-> 0, credential |-> 0]

OAuthInit ==
  /\ oauthNow = 0
  /\ consent \in [decided : {FALSE}, expires : {RequestLife}, offline : BOOLEAN,
                  allowed : {TRUE}, restrictions : {0}]
  /\ mcpGrants = <<>> /\ credentials = <<>> /\ exchanged = <<>>
  /\ oauthCall = [c \in OAuthCallers |-> NoOAuthCall]

Lesser(a, b) == IF a < b THEN a ELSE b

\* The grant of the condition `active`: not revoked, not expired, its owner has access.
GrantActive(g, now) ==
  /\ consent.allowed
  /\ ~mcpGrants[g].revoked /\ mcpGrants[g].expires > now

RevokedGrants(which) ==
  [g \in DOMAIN mcpGrants |-> [mcpGrants[g] EXCEPT !.revoked = @ \/ g \in which]]

NewCredential(g, kind, expires) ==
  [grant |-> g, kind |-> kind, consumed |-> FALSE, expires |-> expires, gone |-> FALSE]

Answered(c) == oauthCall' = [oauthCall EXCEPT ![c] = NoOAuthCall]

-----------------------------------------------------------------------------
(* The owner's decision *)

\* decide() reads the request of its session, decided or not.
StartDecision(c) ==
  /\ oauthCall[c].at = "idle"
  /\ consent.allowed /\ consent.expires > oauthNow
  /\ oauthCall' = [oauthCall EXCEPT ![c] = [NoOAuthCall EXCEPT !.at = "decide", !.now = oauthNow]]
  /\ UNCHANGED <<oauthNow, consent, mcpGrants, credentials, exchanged>>

Undecided(now) == ~consent.decided /\ consent.expires > now /\ consent.allowed

(***************************************************************************)
(* The deciding batch: an approval makes the grant and its code.           *)
(***************************************************************************)
DecisionApplies(c) ==
  /\ oauthCall[c].at = "decide"
  /\ LET now == oauthCall[c].now IN
     \/ /\ Undecided(now)
        /\ consent' = [consent EXCEPT !.decided = TRUE]
        /\ \/ UNCHANGED <<mcpGrants, credentials, exchanged>>
           \/ /\ Len(credentials) < MaxCredentials
              /\ mcpGrants' = Append(mcpGrants, [revoked |-> FALSE, expires |-> now + GrantLife])
              /\ credentials' = Append(credentials,
                                       NewCredential(Len(mcpGrants) + 1, "code", now + CodeLife))
              /\ exchanged' = Append(exchanged, [times |-> 0, replayed |-> FALSE])
     \/ ~Undecided(now) /\ UNCHANGED <<consent, mcpGrants, credentials, exchanged>>
  /\ Answered(c) /\ UNCHANGED oauthNow

-----------------------------------------------------------------------------
(* Exchanges *)

\* find(): the row of the credential, whatever its state.
Present(c, k) ==
  /\ oauthCall[c].at = "idle" /\ ~credentials[k].gone
  /\ oauthCall' = [oauthCall EXCEPT ![c] =
                     [at |-> "exchange", now |-> oauthNow, credential |-> k]]
  /\ UNCHANGED <<oauthNow, consent, mcpGrants, credentials, exchanged>>

\* Faulty variant: a replay only counts while the credential would still be good.
Replayed_Unexpired(k, now) ==
  credentials[k].consumed /\ ~credentials[k].gone /\ credentials[k].expires > now

\* "A true replay revokes even after code expiry."
Replayed(k, now) == credentials[k].consumed /\ ~credentials[k].gone

Consumable(k, now) ==
  /\ ~credentials[k].consumed /\ ~credentials[k].gone /\ credentials[k].expires > now
  /\ GrantActive(credentials[k].grant, now)

(***************************************************************************)
(* The exchanging batch: a replay revokes the grant; else the credential   *)
(* is consumed and the next refresh token inserted, which a code only does *)
(* for offline access.  Its answer may be lost.                            *)
(***************************************************************************)
ExchangeApplies(c) ==
  /\ oauthCall[c].at = "exchange"
  /\ LET k == oauthCall[c].credential
         now == oauthCall[c].now
         next == credentials[k].kind = "refresh" \/ consent.offline
     IN \/ /\ Replayed(k, now)
           /\ mcpGrants' = RevokedGrants({credentials[k].grant})
           /\ exchanged' = [exchanged EXCEPT ![k].replayed = TRUE]
           /\ UNCHANGED credentials
        \/ /\ ~Replayed(k, now) /\ Consumable(k, now)
           /\ next => Len(credentials) < MaxCredentials
           /\ LET used == [credentials EXCEPT ![k].consumed = TRUE]
                  counted == [exchanged EXCEPT ![k].times = @ + 1]
                  g == credentials[k].grant
              IN IF next
                 THEN /\ credentials' = Append(used, NewCredential(g, "refresh", mcpGrants[g].expires))
                      /\ exchanged' = Append(counted, [times |-> 0, replayed |-> FALSE])
                 ELSE credentials' = used /\ exchanged' = counted
           /\ UNCHANGED mcpGrants
        \/ /\ ~Replayed(k, now) /\ ~Consumable(k, now)
           /\ exchanged' = [exchanged EXCEPT ![k].replayed = @ \/ exchanged[k].times > 0]
           /\ UNCHANGED <<mcpGrants, credentials>>
  /\ Answered(c) /\ UNCHANGED <<oauthNow, consent>>

\* The process stops, or the batch never arrives.
OAuthCallEnds(c) ==
  /\ oauthCall[c].at # "idle" /\ Answered(c)
  /\ UNCHANGED <<oauthNow, consent, mcpGrants, credentials, exchanged>>

-----------------------------------------------------------------------------
(* Revocation, restriction, cleanup *)

\* The owner in the settings, or the client by the token of the grant.
RevokeGrant(g) ==
  /\ ~mcpGrants[g].revoked
  /\ mcpGrants' = RevokedGrants({g})
  /\ UNCHANGED <<oauthNow, consent, credentials, oauthCall, exchanged>>

\* mcpRestrictContributor; one restriction and one re-admission are checked.
RestrictOwner ==
  /\ consent.allowed /\ consent.restrictions = 0
  /\ consent' = [consent EXCEPT !.allowed = FALSE, !.restrictions = 1,
                                !.expires = IF consent.decided THEN @ ELSE Lesser(@, oauthNow)]
  /\ mcpGrants' = RevokedGrants(DOMAIN mcpGrants)
  /\ credentials' = [k \in DOMAIN credentials |->
                       IF credentials[k].kind = "code" /\ credentials[k].consumed THEN credentials[k]
                       ELSE [credentials[k] EXCEPT !.expires = Lesser(@, oauthNow)]]
  /\ UNCHANGED <<oauthNow, oauthCall, exchanged>>

ReadmitOwner ==
  /\ ~consent.allowed
  /\ consent' = [consent EXCEPT !.allowed = TRUE]
  /\ UNCHANGED <<oauthNow, mcpGrants, credentials, oauthCall, exchanged>>

\* What cleanupMcp deletes: a consumed code stays until its grant is over.
Cleanable(k) ==
  \/ credentials[k].kind = "refresh" /\ credentials[k].expires <= oauthNow
  \/ /\ credentials[k].kind = "code"
     /\ \/ ~credentials[k].consumed /\ credentials[k].expires <= oauthNow
        \/ mcpGrants[credentials[k].grant].expires <= oauthNow

CleanUp(k) ==
  /\ ~credentials[k].gone /\ Cleanable(k)
  /\ credentials' = [credentials EXCEPT ![k].gone = TRUE]
  /\ UNCHANGED <<oauthNow, consent, mcpGrants, oauthCall, exchanged>>

OAuthTick ==
  /\ oauthNow < MaxOAuthTime /\ oauthNow' = oauthNow + 1
  /\ UNCHANGED <<consent, mcpGrants, credentials, oauthCall, exchanged>>

-----------------------------------------------------------------------------
OAuthNext ==
  \/ \E c \in OAuthCallers :
       \/ StartDecision(c) \/ DecisionApplies(c)
       \/ \E k \in DOMAIN credentials : Present(c, k)
       \/ ExchangeApplies(c) \/ OAuthCallEnds(c)
  \/ \E g \in DOMAIN mcpGrants : RevokeGrant(g)
  \/ RestrictOwner \/ ReadmitOwner
  \/ \E k \in DOMAIN credentials : CleanUp(k)
  \/ OAuthTick

OAuthSpec == OAuthInit /\ [][OAuthNext]_oauthVars

OAuthTypeOK ==
  /\ oauthNow \in 0 .. MaxOAuthTime
  /\ consent \in [decided : BOOLEAN, expires : Nat, offline : BOOLEAN, allowed : BOOLEAN,
                  restrictions : {0, 1}]
  /\ \A g \in DOMAIN mcpGrants : mcpGrants[g] \in [revoked : BOOLEAN, expires : Nat]
  /\ \A k \in DOMAIN credentials :
       credentials[k] \in [grant : DOMAIN mcpGrants, kind : {"code", "refresh"},
                           consumed : BOOLEAN, expires : Nat, gone : BOOLEAN]
  /\ DOMAIN exchanged = DOMAIN credentials
  /\ \A c \in OAuthCallers :
       oauthCall[c] \in [at : {"idle", "decide", "exchange"}, now : Nat, credential : Nat]

Exchangeable(k) == Consumable(k, oauthNow)

(***************************************************************************)
(* One consent gives one client one chain: it makes one grant at most, no  *)
(* credential is exchanged twice, a grant never has two that can still be  *)
(* exchanged, and once a credential was presented again after it had been  *)
(* exchanged, its grant is over, whoever came first.                       *)
(***************************************************************************)
OneChainPerConsent ==
  /\ Len(mcpGrants) <= 1
  /\ \A k \in DOMAIN exchanged :
       /\ exchanged[k].times <= 1
       /\ exchanged[k].replayed =>
            \/ mcpGrants[credentials[k].grant].revoked
            \/ mcpGrants[credentials[k].grant].expires <= oauthNow
  /\ \A j, k \in DOMAIN credentials : Exchangeable(j) /\ Exchangeable(k) => j = k
=============================================================================

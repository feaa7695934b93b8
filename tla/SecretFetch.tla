------------------------------ MODULE SecretFetch ------------------------------
(***************************************************************************)
(* The secrets of a pipeline are read before it is built: one request per  *)
(* path to a secret manager (src/common/src/secrets/providers), each with  *)
(* the access token that is cached, as long as it lives five minutes more, *)
(* or with a new one. Azure tries several ways to log in; the others have  *)
(* one. The first request that fails fails the pipeline.                   *)
(*                                                                         *)
(* Time is in units of Delay = 1, the time a request or an answer takes at *)
(* most. The provider's own cache of secrets never hits: a provider lives  *)
(* for one resolution, in which each path is read once.                    *)
(***************************************************************************)
EXTENDS Integers, Sequences, FiniteSets

CONSTANTS
  SecretPaths,
  Margin,        \* TOKEN_EXPIRY_MARGIN_SECS
  Lifetimes,     \* of the tokens the servers give out
  Year,          \* what the client takes for the lifetime of a configured token
  MaxTime

ASSUME SecretFetchAssumption ==
  /\ Margin \in Nat /\ Year \in Nat /\ MaxTime \in Nat /\ Lifetimes \subseteq Nat
  /\ Margin >= 2 /\ Year > MaxTime + Margin

\* Vault with its methods, Azure with and without a service principal, GCP.
Chains == {<<"token">>, <<"app_role">>, <<"kubernetes">>, <<"service_account">>, <<"metadata">>,
           <<"spn", "identity", "cli">>, <<"identity", "cli">>}

VARIABLES
  chain,       \* the ways to log in, in their order
  zone,        \* hours the machine's time zone is east of UTC
  clock,
  token,       \* cached: method, when obtained and for how long; granted by the server
  granted,     \* a token on its way to the client: its lifetime and when that ends
  unread,      \* paths still to read
  tries,       \* the ways to log in that are left
  sent_at,     \* when the outstanding request was sent
  fetch_pc     \* "next", "login", "granted", "get", "resolved", "failed" or "denied"

secretVars == <<chain, zone, clock, token, granted, unread, tries, sent_at, fetch_pc>>

NoToken == [method |-> "none", obtained |-> 0, expires_in |-> 0, dies |-> 0]

SecretFetchInit ==
  /\ chain \in Chains
  /\ zone \in IF chain[Len(chain)] = "cli" THEN {-2, 0, 2} ELSE {0}
  /\ clock = 0
  /\ token = NoToken
  /\ granted = [life |-> 0, dies |-> 0]
  /\ unread = SecretPaths
  /\ tries = <<>>
  /\ sent_at = 0
  /\ fetch_pc = "next"

Waiting == fetch_pc \in {"login", "granted", "get"}

Tick ==
  /\ clock < MaxTime
  /\ Waiting => clock < sent_at + 1
  /\ clock' = clock + 1
  /\ UNCHANGED <<chain, zone, token, granted, unread, tries, sent_at, fetch_pc>>

IsValidToTheEnd == token # NoToken /\ clock - token.obtained < token.expires_in

\* CachedToken::is_valid
IsValid == token # NoToken /\ clock - token.obtained + Margin < token.expires_in

\* get_secret begins with ensure_token. Azure logs in the way it did before, and when
\* that fails tries all ways from the first.
EnsureToken ==
  /\ fetch_pc = "next"
  /\ unread # {}
  /\ sent_at' = clock
  /\ IF IsValid
     THEN fetch_pc' = "get" /\ UNCHANGED tries
     ELSE /\ fetch_pc' = "login"
          /\ tries' = IF Len(chain) > 1 /\ token # NoToken THEN <<token.method>> \o chain ELSE chain
  /\ UNCHANGED <<chain, zone, clock, token, granted, unread>>

\* A server grants a token.
Grant ==
  /\ fetch_pc = "login"
  /\ \E life \in Lifetimes : granted' = [life |-> life, dies |-> clock + life]
  /\ fetch_pc' = "granted"
  /\ UNCHANGED <<chain, zone, clock, token, unread, tries, sent_at>>

\* expires_in as the client works it out. A server tells its lifetime; the Azure CLI
\* prints a time of day, local time, from which the client takes its UTC time.
ExpiresIn(method) ==
  LET left == granted.dies - clock + zone
  IN  CASE method = "token" -> Year
        [] method = "cli"   -> IF left > 0 THEN left ELSE 0
        [] OTHER            -> granted.life

StoreToken ==
  /\ fetch_pc = "granted"
  /\ token' = [method |-> Head(tries), obtained |-> clock, expires_in |-> ExpiresIn(Head(tries)),
               dies |-> granted.dies]
  /\ sent_at' = clock
  /\ fetch_pc' = "get"
  /\ UNCHANGED <<chain, zone, clock, granted, unread, tries>>

\* Refused, unreachable, an answer without a token, or too late for its timeout.
LoginFails ==
  /\ fetch_pc \in {"login", "granted"}
  /\ sent_at' = clock
  /\ tries' = Tail(tries)
  /\ fetch_pc' = IF tries' = <<>> THEN "failed" ELSE "login"
  /\ UNCHANGED <<chain, zone, clock, token, granted, unread>>

\* The secret's server takes the token while it lives.
Get ==
  /\ fetch_pc = "get"
  /\ \E path \in unread :
       IF clock <= token.dies
       THEN unread' = unread \ {path} /\ fetch_pc' = "next"
       ELSE fetch_pc' = "denied" /\ UNCHANGED unread
  /\ UNCHANGED <<chain, zone, clock, token, granted, tries, sent_at>>

\* No such secret, a path without a vault or a project, no answer.
GetFails ==
  /\ fetch_pc = "get"
  /\ fetch_pc' = "failed"
  /\ UNCHANGED <<chain, zone, clock, token, granted, unread, tries, sent_at>>

Resolved ==
  /\ fetch_pc = "next"
  /\ unread = {}
  /\ fetch_pc' = "resolved"
  /\ UNCHANGED <<chain, zone, clock, token, granted, unread, tries, sent_at>>

\* What follows of itself once requests are answered or given up.
Fetching == EnsureToken \/ Grant \/ StoreToken \/ LoginFails \/ Get \/ GetFails \/ Resolved

SecretFetchNext == Tick \/ Fetching

-----------------------------------------------------------------------------
\* A token from the cache is not refused as expired: with the margin it outlives the
\* time its answer and the next request take. That is true when its lifetime is known:
\* a token given in the configuration is believed to live a year, and one of the Azure
\* CLI is believed to live longer by as much as local time is ahead of UTC.
TokenLives ==
  fetch_pc = "denied" =>
    \/ token.method = "token"
    \/ token.method = "cli" /\ zone > 0
    \/ token.dies - token.obtained < Margin
=============================================================================

------------------------------ MODULE AIRouter ------------------------------
(***************************************************************************)
(* engine/intelligence/router.py and providers/: two text providers, what  *)
(* the router believes of their connectivity, the refreshes that establish *)
(* it (at startup in a thread, later by POST /ai/recheck), and one caller  *)
(* of complete() at a time.  Callers share nothing but the beliefs, which  *)
(* they only read, so one of them shows what happens to each.              *)
(*                                                                         *)
(* The services themselves change while all of this is going on.           *)
(***************************************************************************)
EXTENDS Naturals

CONSTANTS
    KeySets,         \* the sets of providers that may have an API key
    MissingSdks,     \* the sets of providers whose SDK may fail to be imported
    Refreshers,      \* the threads that may run refresh_connectivity()
    Startup,         \* the one that lifespan() starts
    MaxRetries,      \* max_retries of LLMProvider.complete()
    OverlapRefresh,  \* TRUE: a recheck may start while another refresh runs
    MaxRechecks,     \* bound on POST /ai/recheck
    MaxChanges,      \* bound on changes of the services
    MaxRequests      \* bound on calls of AIRouter.complete()

TextProviders == {"gemini", "groq"}

ASSUME RouterAssumption ==
    /\ KeySets \subseteq SUBSET TextProviders /\ MissingSdks \subseteq SUBSET TextProviders
    /\ Startup \in Refreshers
    /\ MaxRetries \in Nat
    /\ OverlapRefresh \in BOOLEAN
    /\ MaxRechecks \in Nat /\ MaxChanges \in Nat /\ MaxRequests \in Nat

VARIABLES
    configured, \* the providers with an API key (is_configured)
    health,     \* what each service is really like for our key, and from here
    known,      \* _connectivity
    refresh,    \* the place of each refresher ...
    on,         \* ... its provider ...
    verdict,    \* ... and what the probe said
    outdated,   \* history: the refreshers whose provider's service changed meanwhile
    at,         \* the place of complete(): a provider is looked at, or called
    active,     \* active_providers that are still to be tried
    attempt,    \* the attempt at the first of them
    confirmed,  \* history: the providers that a refresh has checked since their
                \* service changed last
    steady,     \* history: configured services that were up all through the request
    trusted,    \* history: those of them that were confirmed, or unchecked, at its start
    tallies      \* rechecks, changes and requests so far

refreshing == <<refresh, on, verdict, outdated>>
beliefs == <<known, refreshing, confirmed>>
request == <<at, active, attempt, steady, trusted>>
routerVars == <<configured, health, beliefs, request, tallies>>

Health == {"up", "flaky", "limited", "down", "badkey", "nomodel", "nosdk"}

\* ConnectivityStatus
Statuses == {"not_configured", "checking", "configured", "auth_failed", "unavailable",
             "model_not_found", "unknown"}

RouterTypeOK ==
    /\ configured \subseteq TextProviders
    /\ health \in [TextProviders -> Health]
    /\ known \in [TextProviders -> Statuses]
    /\ refresh \in [Refreshers -> {"idle", "mark", "probe", "store"}]
    /\ on \in [Refreshers -> TextProviders] /\ verdict \in [Refreshers -> Statuses]
    /\ outdated \subseteq Refreshers
    /\ confirmed \subseteq TextProviders
    /\ at \in TextProviders \cup {"idle", "call", "served", "failed", "raised"}
    /\ active \subseteq TextProviders
    /\ attempt \in 0 .. MaxRetries
    /\ steady \subseteq configured /\ trusted \subseteq steady
    /\ tallies \in [{"rechecks", "changes", "requests"} -> Nat]

\* Seeded from is_configured(); the startup thread is on its way.
RouterInit ==
    /\ configured \in KeySets
    /\ health \in [TextProviders -> Health]
    /\ {p \in TextProviders : health[p] = "nosdk"} \in MissingSdks
    /\ \A p \in TextProviders \ configured : health[p] \in {"badkey", "nosdk"}
    /\ known = [p \in TextProviders |-> IF p \in configured THEN "unknown" ELSE "not_configured"]
    /\ refresh = [r \in Refreshers |-> IF r = Startup THEN "mark" ELSE "idle"]
    /\ on = [r \in Refreshers |-> "gemini"] /\ verdict = [r \in Refreshers |-> "unknown"]
    /\ outdated = {}
    /\ at = "idle" /\ active = {} /\ attempt = 0
    /\ confirmed = {} /\ steady = {} /\ trusted = {}
    /\ tallies = [c \in {"rechecks", "changes", "requests"} |-> 0]

Tally(c, max) == tallies[c] < max /\ tallies' = [tallies EXCEPT ![c] = @ + 1]

-----------------------------------------------------------------------------
(* refresh_connectivity()                                                   *)

\* test_connection() and the two _probe_connection(): Groq's rate limit proves
\* its key, Gemini's is an API error like any other, and a bad key may be one.
Verdicts(p, h) ==
    {v \in Statuses :
       IF p \notin configured THEN v = "not_configured"
       ELSE \/ v = "configured" /\ (h \in {"up", "flaky"} \/ (h = "limited" /\ p = "groq"))
            \/ v = "unavailable" /\ h \in {"flaky", "down", "nosdk"}
            \/ v = "unavailable" /\ h \in {"limited", "badkey"} /\ p = "gemini"
            \/ v = "auth_failed" /\ h = "badkey"
            \/ v = "model_not_found" /\ h = "nomodel"}

Recheck(r) ==
    /\ refresh[r] = "idle"
    /\ OverlapRefresh \/ \A s \in Refreshers : refresh[s] = "idle"
    /\ Tally("rechecks", MaxRechecks)
    /\ refresh' = [refresh EXCEPT ![r] = "mark"] /\ on' = [on EXCEPT ![r] = "gemini"]
    /\ UNCHANGED <<configured, health, known, verdict, outdated, confirmed, request>>

\* CHECKING, also for a provider without a key.
Mark(r) ==
    /\ refresh[r] = "mark"
    /\ known' = [known EXCEPT ![on[r]] = "checking"]
    /\ refresh' = [refresh EXCEPT ![r] = "probe"] /\ outdated' = outdated \ {r}
    /\ UNCHANGED <<configured, health, on, verdict, confirmed, request, tallies>>

\* Mutant: test_connection() lets an unexpected exception of the probe through.
Probe_MayRaise(r) ==
    /\ refresh[r] = "probe"
    /\ verdict' \in {[verdict EXCEPT ![r] = v] : v \in Verdicts(on[r], health[on[r]])}
    /\ refresh' \in {[refresh EXCEPT ![r] = place] : place \in {"store", "idle"}}
    /\ UNCHANGED <<configured, health, known, on, outdated, confirmed, request, tallies>>

\* Nothing is thrown: whatever goes wrong is a verdict.
Probe(r) ==
    /\ refresh[r] = "probe"
    /\ \E v \in Verdicts(on[r], health[on[r]]) : verdict' = [verdict EXCEPT ![r] = v]
    /\ refresh' = [refresh EXCEPT ![r] = "store"]
    /\ UNCHANGED <<configured, health, known, on, outdated, confirmed, request, tallies>>

\* Mutant: the verdict goes to the first provider, whichever was probed.
Store_First(r) ==
    /\ refresh[r] = "store"
    /\ known' = [known EXCEPT !["gemini"] = verdict[r]]
    /\ confirmed' = IF r \in outdated THEN confirmed ELSE confirmed \cup {on[r]}
    /\ refresh' = [refresh EXCEPT ![r] = IF on[r] = "gemini" THEN "mark" ELSE "idle"]
    /\ on' = [on EXCEPT ![r] = "groq"]
    /\ UNCHANGED <<configured, health, verdict, outdated, request, tallies>>

\* The verdict, and on to the other provider.
Store(r) ==
    /\ refresh[r] = "store"
    /\ known' = [known EXCEPT ![on[r]] = verdict[r]]
    /\ confirmed' = IF r \in outdated THEN confirmed ELSE confirmed \cup {on[r]}
    /\ refresh' = [refresh EXCEPT ![r] = IF on[r] = "gemini" THEN "mark" ELSE "idle"]
    /\ on' = [on EXCEPT ![r] = "groq"]
    /\ UNCHANGED <<configured, health, verdict, outdated, request, tallies>>

RefreshStep(r) == Mark(r) \/ Probe(r) \/ Store(r)

-----------------------------------------------------------------------------
(* complete()                                                               *)

\* _is_usable(): a status that says nothing yet does not count against a provider.
IsUsable(p) == p \in configured /\ known[p] \in {"configured", "unknown", "checking"}

\* The outcomes of _call(); Gemini's SDK may complain of a bad key with a plain
\* ValueError, which counts as transient.  The SDK is imported in front of the
\* "try", so that its absence is no ProviderError.
Outcomes(h) ==
    {o \in {"text", "transient", "permanent", "raised"} :
       \/ o = "text" /\ h \in {"up", "flaky"}
       \/ o = "transient" /\ h \in {"flaky", "limited", "down", "badkey"}
       \/ o = "permanent" /\ h \in {"badkey", "nomodel"}
       \/ o = "raised" /\ h = "nosdk"}

\* The provider whose turn it is: Gemini before Groq.
First == IF "gemini" \in active THEN "gemini" ELSE "groq"

Request ==
    /\ at \in {"idle", "served", "failed", "raised"}
    /\ Tally("requests", MaxRequests)
    /\ at' = "gemini" /\ active' = {} /\ attempt' = 0
    /\ steady' = {p \in configured : health[p] = "up"}
    /\ trusted' = {p \in configured : health[p] = "up" /\ (p \in confirmed \/ known[p] = "unknown")}
    /\ UNCHANGED <<configured, health, beliefs>>

\* _get_active_providers(): Gemini's status is read first, Groq's afterwards.
LookAt(p) ==
    /\ at = p
    /\ active' = IF IsUsable(p) THEN active \cup {p} ELSE active
    /\ at' = IF p = "gemini" THEN "groq" ELSE IF active' = {} THEN "failed" ELSE "call"
    /\ UNCHANGED <<configured, health, beliefs, attempt, steady, trusted, tallies>>

\* Mutant: the fallback is only for errors that are not worth a retry.
Call_NoFallbackAfterRetries ==
    /\ at = "call"
    /\ \E outcome \in Outcomes(health[First]) :
         IF outcome \in {"text", "raised"}
         THEN /\ at' = IF outcome = "text" THEN "served" ELSE "raised"
              /\ UNCHANGED <<active, attempt>>
         ELSE IF outcome = "transient" /\ attempt < MaxRetries
         THEN attempt' = attempt + 1 /\ UNCHANGED <<at, active>>
         ELSE /\ attempt' = 0 /\ active' = active \ {First}
              /\ at' = IF outcome = "transient" \/ active' = {} THEN "failed" ELSE "call"
    /\ UNCHANGED <<configured, health, beliefs, steady, trusted, tallies>>

\* One _call() of the provider whose turn it is: text, another attempt after a
\* transient failure, the next provider, or an exception that ends the request.
Call ==
    /\ at = "call"
    /\ \E outcome \in Outcomes(health[First]) :
         IF outcome \in {"text", "raised"}
         THEN /\ at' = IF outcome = "text" THEN "served" ELSE "raised"
              /\ UNCHANGED <<active, attempt>>
         ELSE IF outcome = "transient" /\ attempt < MaxRetries
         THEN attempt' = attempt + 1 /\ UNCHANGED <<at, active>>
         ELSE /\ attempt' = 0 /\ active' = active \ {First}
              /\ at' = IF active' = {} THEN "failed" ELSE "call"
    /\ UNCHANGED <<configured, health, beliefs, steady, trusted, tallies>>

RequestStep == (\E p \in TextProviders : LookAt(p)) \/ Call

-----------------------------------------------------------------------------
(* The services                                                             *)

ServiceChanges(p) ==
    /\ p \in configured /\ health[p] # "nosdk"
    /\ Tally("changes", MaxChanges)
    /\ \E h \in Health \ {health[p], "nosdk"} : health' = [health EXCEPT ![p] = h]
    /\ confirmed' = confirmed \ {p}
    /\ steady' = steady \ {p} /\ trusted' = trusted \ {p}
    /\ outdated' = outdated \cup {r \in Refreshers : on[r] = p}
    /\ UNCHANGED <<configured, known, refresh, on, verdict, at, active, attempt>>

RouterNext ==
    \/ \E r \in Refreshers : Recheck(r) \/ RefreshStep(r)
    \/ Request \/ RequestStep
    \/ \E p \in TextProviders : ServiceChanges(p)

RouterSpec == RouterInit /\ [][RouterNext]_routerVars

\* Threads are scheduled, and the requests to the services have timeouts.
FairSpec == RouterSpec /\ WF_routerVars(RequestStep) /\ \A r \in Refreshers : WF_routerVars(RefreshStep(r))

-----------------------------------------------------------------------------
(* Properties                                                               *)

\* A request fails only if each provider was down at some moment of it, unless
\* its status was out of date when the request began: retries, the fallback and
\* a refresh that runs meanwhile lose no provider that works.
ServedIfChecked ==
    at = "failed" => trusted = {}

\* "tries the primary provider, falls back to the secondary one" (router.py:1):
\* no exception of one provider ends a request that another one would serve.
FallsBack ==
    at = "raised" => trusted = {}

\* Once a refresh has checked a provider since its service changed last, what
\* /health shows and what the router goes by is what the service is, whatever
\* refresh ran before ("just to confirm a key still works", main.py:347).
CheckSticks ==
    \A p \in confirmed : known[p] \in Verdicts(p, health[p]) \cup {"checking"}

\* Only a provider with a key is called, although a refresh marks every
\* provider as being checked.
CallsHaveKeys ==
    at = "call" => active # {} /\ active \subseteq configured

\* CHECKING is not for ever, which is why complete() may count on it.
CheckingEnds ==
    \A p \in TextProviders : known[p] = "checking" ~> known[p] # "checking"

\* What base.py and service.py promise without a condition: a request fails only
\* when no configured provider works.  A service that recovered after it was
\* found unavailable is not tried until someone asks for a recheck.
ServedIfUp ==
    at = "failed" => steady = {}
=============================================================================

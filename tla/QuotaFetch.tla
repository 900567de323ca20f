----------------------------- MODULE QuotaFetch -----------------------------
(***************************************************************************)
(* /commandcode-quota (src/quota-command.ts) and fetchCommandCodeQuota()   *)
(* of src/quota.ts: whoami, then credits and subscription together, then   *)
(* the usage summary, under one overall timeout.  A section that cannot be *)
(* had is left out of the answer; a rejected key ends it.  The key is the  *)
(* registry's or the configured one of src/api-key.ts.                     *)
(***************************************************************************)
EXTENDS FiniteSetsExt, Naturals

CONSTANT Places      \* how many places getConfiguredApiKey() looks at: environment, files

ASSUME PlacesAssumption == Places \in Nat

Sections == {"credits", "subscription", "usage"}

\* What a request comes back with: a recognised body, an unrecognised one, 401 or 403,
\* another error status, a network error, the overall timeout.
Replies == {"recognised", "unrecognised", "blocking", "http_error", "network", "timeout"}

\* What a place holds: nothing (also "", or a file that is missing or malformed), white
\* space, the name of an environment variable, a member token or a key of CommandCode.
KeyValues == {"absent", "blank", "placeholder", "member", "plain"}

VARIABLES
    hostKeys,   \* hostKeys[1] is the registry's key, the rest the places in their order
    asked,      \* the place the key was taken from, 0 for none
    qphase,     \* idle, whoami, sections (credits and subscription), usage, done
    reply,      \* what each request came back with: "none" before it is sent
    expired,    \* overallController.signal.aborted
    outcome     \* what the user is told: the quota and its unavailable sections, the
                \* kind of failure, or why nothing was asked

quotaVars == <<hostKeys, asked, qphase, reply, expired, outcome>>

NoOutcome == [kind |-> "none", unavailable |-> {}]

QuotaInit ==
    /\ hostKeys = <<>>
    /\ asked = 0
    /\ qphase = "idle"
    /\ reply = [s \in Sections \cup {"whoami"} |-> "none"]
    /\ expired = FALSE
    /\ outcome = NoOutcome

Fails(kind) == qphase' = "done" /\ outcome' = [kind |-> kind, unavailable |-> {}]

\* request(): none is sent after the overall timeout.
Sends(S) ==
    reply' = [s \in DOMAIN reply |-> IF s \notin S THEN reply[s]
                                     ELSE IF expired THEN "timeout" ELSE "sent"]

\* getConfiguredApiKey(): the first place that holds anything, usable or not.
Configured(keys) ==
    LET given == {i \in 2 .. Places + 1 : keys[i] # "absent"}
    IN  IF given = {} THEN 0 ELSE Min(given)

\* Mutant: what the registry returns is taken for a key.
UsableIfGiven(value) == value # "absent"

\* usableCommandCodeApiKey()
Usable(value) == value \in {"member", "plain"}

\* pickCommandCodeApiKey()
Picked(keys) ==
    LET configured == Configured(keys)
    IN  IF Usable(keys[1]) THEN 1
        ELSE IF configured # 0 /\ Usable(keys[configured]) THEN configured
        ELSE 0

\* A member token is never sent to CommandCode.
QuotaCommand(keys) ==
    /\ qphase = "idle"
    /\ hostKeys' = keys /\ asked' = Picked(keys)
    /\ \/ asked' = 0 /\ Fails("no_key") /\ UNCHANGED reply
       \/ asked' # 0 /\ keys[asked'] = "member" /\ Fails("member_page") /\ UNCHANGED reply
       \/ /\ asked' # 0 /\ keys[asked'] # "member"
          /\ qphase' = "whoami" /\ Sends({"whoami"}) /\ UNCHANGED outcome
    /\ UNCHANGED expired

\* The overall timer aborts every request in flight.
TimerEnds ==
    /\ qphase \notin {"idle", "done"} /\ ~expired
    /\ expired' = TRUE
    /\ UNCHANGED <<hostKeys, asked, qphase, reply, outcome>>

\* After the abort a failure is a timeout, but an error status already read still counts.
Possible == IF expired THEN {"timeout", "blocking", "http_error"} ELSE Replies \ {"timeout"}

Returns(s) ==
    /\ reply[s] = "sent"
    /\ \E answer \in Possible : reply' = [reply EXCEPT ![s] = answer]
    /\ UNCHANGED <<hostKeys, asked, qphase, expired, outcome>>

Returned(S) == \A s \in S : reply[s] \in Replies

WhoamiIn ==
    /\ qphase = "whoami" /\ Returned({"whoami"})
    /\ \/ /\ reply["whoami"] = "recognised"
          /\ qphase' = "sections"
          /\ Sends({"credits", "subscription"})
          /\ UNCHANGED outcome
       \/ /\ reply["whoami"] \in {"unrecognised", "blocking", "http_error"}
          /\ Fails("http") /\ UNCHANGED reply
       \/ /\ reply["whoami"] \in {"network", "timeout"}
          /\ Fails(IF expired THEN "timeout" ELSE "network") /\ UNCHANGED reply
    /\ UNCHANGED <<hostKeys, asked, expired>>

\* Mutant: a refused key only makes its section unavailable.
NoneBlocks(S) == FALSE

Blocked(S) == \E s \in S : reply[s] = "blocking"

SectionsIn ==
    /\ qphase = "sections" /\ Returned({"credits", "subscription"})
    /\ \/ /\ Blocked({"credits", "subscription"})
          /\ Fails("http") /\ UNCHANGED reply
       \/ /\ ~Blocked({"credits", "subscription"})
          /\ qphase' = "usage" /\ Sends({"usage"}) /\ UNCHANGED outcome
    /\ UNCHANGED <<hostKeys, asked, expired>>

Unavailable == {s \in Sections : reply[s] # "recognised"}

UsageIn ==
    /\ qphase = "usage" /\ Returned({"usage"})
    /\ \/ Blocked({"usage"}) /\ Fails("http")
       \/ /\ ~Blocked({"usage"}) /\ Unavailable = Sections
          /\ Fails(IF expired THEN "timeout" ELSE "http")
       \/ /\ ~Blocked({"usage"}) /\ Unavailable # Sections
          /\ qphase' = "done"
          /\ outcome' = [kind |-> "ok", unavailable |-> Unavailable]
    /\ UNCHANGED <<hostKeys, asked, reply, expired>>

QuotaNext ==
    \/ \E keys \in [1 .. Places + 1 -> KeyValues] : QuotaCommand(keys)
    \/ \E s \in Sections \cup {"whoami"} : Returns(s)
    \/ TimerEnds \/ WhoamiIn \/ SectionsIn \/ UsageIn

QuotaSpec == QuotaInit /\ [][QuotaNext]_quotaVars

-----------------------------------------------------------------------------
\* The answer tells what happened, however the replies and the timeout interleave: it is
\* ok only if no request refused the key and some section came back, it names exactly
\* the sections that did not, it blames the timeout only when that passed, and without a
\* key of CommandCode nothing was sent.  The key is the first usable one; a usable key is
\* passed over only for one before it, or for what hides it in an earlier place.
QuotaTruthful ==
    /\ outcome.kind = "ok" =>
          /\ \A s \in DOMAIN reply : reply[s] \in Replies \ {"blocking"}
          /\ outcome.unavailable = {s \in Sections : reply[s] # "recognised"}
          /\ outcome.unavailable # Sections
    /\ outcome.kind = "timeout" => expired
    /\ outcome.kind \in {"no_key", "member_page"} => \A s \in DOMAIN reply : reply[s] = "none"
    /\ (qphase = "done") <=> (outcome.kind # "none")
    /\ reply["whoami"] # "none" => asked # 0 /\ hostKeys[asked] = "plain"
    /\ \A i \in DOMAIN hostKeys :
          hostKeys[i] \in {"member", "plain"} =>
              \/ asked \in 1 .. i
              \/ asked = 0 /\ \E j \in 2 .. i - 1 : hostKeys[j] \in {"blank", "placeholder"}
=============================================================================

------------------------------ MODULE CachedFetch ------------------------------
(***************************************************************************)
(* What the Trends, News and autocomplete routers have in common: a        *)
(* question is looked up in the response cache by its key; where nothing   *)
(* is kept the upstream is asked, and what it answered in full is kept.    *)
(* Each router's own part is in GoogleTrends, GoogleNews, Autocomplete.    *)
(***************************************************************************)
EXTENDS Naturals

CONSTANTS
  Inquirers,  \* concurrent requests, each asking one question
  Choices,    \* parameters of a request that its cache key carries
  Extras      \* parameters of a request that its cache key does not carry

ASSUME FetchAssumption == Choices # {} /\ Extras # {}

VARIABLES
  inquiry,   \* what the handler of each request is at
  kept       \* the response cache: a function from the keys that have an entry

fetchVars == <<inquiry, kept>>

Plain == CHOOSE e \in Extras : TRUE

\* A question; the whole of it is the key, but for the extras.
Question(op, choice, extra) == [op |-> op, choice |-> choice, extra |-> extra]
KeyOf(q) == <<q.op, q.choice>>

\* An answer: its status, what it says, and (history) the question it was fetched
\* for and how much of it the upstream gave; odd is an answer of a shape unknown.
Heard == {"full", "nothing", "some", "odd", "failed", "limited", "unasked"}
Reply(q, status, says, heard) == [status |-> status, says |-> says, of |-> q, heard |-> heard]

FetchInit == inquiry = [r \in Inquirers |-> [at |-> "new"]] /\ kept = <<>>

Asked(r)   == inquiry[r].q
Turn(r, at) == inquiry' = [inquiry EXCEPT ![r].at = at]
Told(r, q, answer) == inquiry' = [inquiry EXCEPT ![r] = [at |-> "told", q |-> q, answer |-> answer]]

\* A question passes the checks of its handler, or is refused.
Ask(r, at, q) ==
  /\ inquiry[r].at = "new"
  /\ inquiry' = [inquiry EXCEPT ![r] = [at |-> at, q |-> q]]
  /\ kept' = kept
Refuse(r, status, q) ==
  /\ inquiry[r].at = "new"
  /\ Told(r, q, Reply(q, status, "invalid", "unasked"))
  /\ kept' = kept

\* get_cached_or_fetch: an entry is the answer, the upstream is asked otherwise.
Lookup(r) ==
  /\ inquiry[r].at = "lookup"
  /\ LET k == KeyOf(Asked(r)) IN
     IF k \in DOMAIN kept THEN Told(r, Asked(r), kept[k]) ELSE Turn(r, "fetch")
  /\ UNCHANGED kept

\* What the fetcher returned is stored; what it raised passes the cache by.
Returned(r, answer) == inquiry' = [inquiry EXCEPT ![r] = [at |-> "store", q |-> @.q, answer |-> answer]]
Raised(r, answer)   == Told(r, Asked(r), answer)

Keep(key, answer) ==
  kept' = [k \in DOMAIN kept \cup {key} |-> IF k = key THEN answer ELSE kept[k]]

Store(r) ==
  /\ inquiry[r].at = "store"
  /\ Keep(KeyOf(Asked(r)), inquiry[r].answer)
  /\ Told(r, Asked(r), inquiry[r].answer)

\* The ttl of an entry runs out.
Expire ==
  /\ \E k \in DOMAIN kept : kept' = [l \in DOMAIN kept \ {k} |-> kept[l]]
  /\ UNCHANGED inquiry
=============================================================================

------------------------- MODULE HostedCapabilities -------------------------
(***************************************************************************)
(* HostedActionCapabilities: the tokens a hosted server hands to browsers. *)
(* A request reads the clock before it takes the lock, so that instants    *)
(* arrive at the table out of order.                                       *)
(***************************************************************************)
EXTENDS Integers, Sequences, FiniteSets, SequencesExt

CONSTANTS
  Browsers,   \* threads that serve GET /session and the POSTs
  MaxTokens,  \* bound on the tokens handed out
  Ttl,        \* 30 minutes
  Maximum,    \* 64 live tokens
  MaxInstant  \* bound on the clock

VARIABLES
  instant,    \* the wall clock
  entries,    \* the OrderedDict: tokens with their expiry, oldest first
  reading,    \* the request each thread has read the clock for
  handed,     \* history: the expiry of the tokens handed out, in order
  answer      \* history: the last decision of validate and its instant

capabilityVars == <<instant, entries, reading, handed, answer>>

\* A token is as random as it is long: it is the serial of its issue.
Tokens == 1..MaxTokens
Entries == [token : Tokens, expiry : 0..(MaxInstant + Ttl)]
Free == [kind |-> "free"]
NoAnswer == [token |-> 1, now |-> 0, yes |-> FALSE]
BrowserRequests ==
  {Free} \cup [kind : {"issue"}, now : 0..MaxInstant]
  \cup [kind : {"validate"}, token : Tokens, now : 0..MaxInstant]

ASSUME CapabilityAssumption ==
  /\ Ttl \in Nat \ {0} /\ Maximum \in Nat \ {0}
  /\ MaxInstant \in Nat /\ MaxTokens \in Nat \ {0}

CapabilityTypeOK ==
  /\ instant \in 0..MaxInstant
  /\ entries \in Seq(Entries) /\ Len(entries) <= Maximum
  /\ reading \in [Browsers -> BrowserRequests]
  /\ handed \in Seq(0..(MaxInstant + Ttl)) /\ Len(handed) <= MaxTokens
  /\ answer \in [token : Tokens, now : 0..MaxInstant, yes : BOOLEAN]
------------------------------------------------------------------------------
CapabilityInit ==
  /\ instant = 0 /\ entries = <<>> /\ reading = [b \in Browsers |-> Free]
  /\ handed = <<>> /\ answer = NoAnswer

TickInstant ==
  /\ instant < MaxInstant /\ instant' = instant + 1
  /\ UNCHANGED <<entries, reading, handed, answer>>

\* issue() and validate() read the clock before they take the lock.
Read(b, request) ==
  /\ reading[b] = Free /\ request # Free /\ request.now = instant
  /\ reading' = [reading EXCEPT ![b] = request]
  /\ UNCHANGED <<instant, entries, handed, answer>>

\* Mutant: a token is kept through the instant of its expiry.
PruneLate(now) == SelectSeq(entries, LAMBDA entry : entry.expiry >= now)

\* The entries that have not expired, in their order.
Prune(now) ==
  LET kept[k \in 0..Len(entries)] ==
        IF k = 0 THEN <<>>
        ELSE IF entries[k].expiry > now THEN Append(kept[k - 1], entries[k])
        ELSE kept[k - 1]
  IN  kept[Len(entries)]

\* Mutant: the newest entry is dropped.
EvictNewest(kept) == IF Len(kept) > Maximum THEN Front(kept) ELSE kept

\* Mutant: the table is one over its maximum before anything is dropped.
EvictLate(kept) == IF Len(kept) > Maximum + 1 THEN Tail(kept) ELSE kept

\* The oldest entries are dropped while the table holds more than its maximum.
Evict(kept) == IF Len(kept) > Maximum THEN Tail(kept) ELSE kept

Issue(b) ==
  /\ reading[b].kind = "issue" /\ Len(handed) < MaxTokens
  /\ LET now == reading[b].now
         entry == [token |-> Len(handed) + 1, expiry |-> now + Ttl]
     IN /\ entries' = Evict(Append(Prune(now), entry))
        /\ handed' = Append(handed, entry.expiry)
  /\ reading' = [reading EXCEPT ![b] = Free]
  /\ UNCHANGED <<instant, answer>>

Validate(b) ==
  /\ reading[b].kind = "validate"
  /\ LET now == reading[b].now
         token == reading[b].token
     IN /\ entries' = Prune(now)
        /\ answer' = [token |-> token, now |-> now,
                      yes |-> token \in {e.token : e \in ToSet(Prune(now))}]
  /\ reading' = [reading EXCEPT ![b] = Free]
  /\ UNCHANGED <<instant, handed>>

\* The table is process-local: a restart loses it.
CapabilityReset ==
  /\ entries' = <<>> /\ handed' = <<>> /\ answer' = NoAnswer
  /\ reading' = [b \in Browsers |-> Free]
  /\ UNCHANGED instant
------------------------------------------------------------------------------
\* A request is authorised only with a token handed out by this process, at an
\* instant before its expiry, however old the instant is when it is used.
ExpiredNeverAuthorises ==
  answer.yes => answer.token \in DOMAIN handed /\ answer.now < handed[answer.token]

\* A browser loses a token before its expiry only to Maximum later ones.
LostOnlyToCrowd ==
  \A i \in DOMAIN handed :
    instant < handed[i] /\ i \notin {e.token : e \in ToSet(entries)}
    => Len(handed) - i >= Maximum

\* A token lives from its issue to its expiry, or until it is crowded out.
TokenLifetime == ExpiredNeverAuthorises /\ LostOnlyToCrowd
==============================================================================

------------------------------ MODULE Listings ------------------------------
(***************************************************************************)
(* The listing of one agent in the directories of its seller and of other  *)
(* nodes: AgentListingService and ListingCRDT of internal/marketplace, the *)
(* announcer and the pull on connection of cmd/betar/main.go.  The id of   *)
(* an agent comes from the node's key and the agent's name: a seller that  *)
(* is started again with another price writes to the same key, from an     *)
(* empty directory, while the others still have the old listing.           *)
(*                                                                         *)
(* Every message of a listing is put into the directory as a write of the  *)
(* node that received it, newer than all it knows.  The replication, of    *)
(* go-ds-crdt, is external: of two writes the one of higher rank wins, and *)
(* of two of one rank the one with the larger value.  Only the order of    *)
(* ranks counts, so they are kept as small as they can be.                 *)
(***************************************************************************)
EXTENDS Naturals, FiniteSets

CONSTANTS
  Node, Seller,
  MaxTerms,      \* bound: how many versions of the listing there are
  Bytes(_),      \* the order of their encodings
  MaxStops,      \* bound: how often a node stops
  MaxConnects    \* bound: how often a connection brings about a pull

Terms == 1..MaxTerms
Nothing == [rank |-> 0, terms |-> 0]

ASSUME ListingsAssumption ==
  /\ IsFiniteSet(Node) /\ Seller \in Node
  /\ MaxTerms \in Nat /\ MaxStops \in Nat /\ MaxConnects \in Nat
  /\ \A v \in Terms : Bytes(v) \in Nat
  /\ \A v, w \in Terms : Bytes(v) = Bytes(w) => v = w

VARIABLES
  running,    \* the seller serves the agent
  terms,      \* what it serves it for, or last did
  book,       \* the entry in the directory of each node
  announced,  \* the announcements on their way to a node
  pulled,     \* the answers to a node's pulls on their way
  stops, connects

bounds == <<stops, connects>>
vars == <<running, terms, book, announced, pulled, bounds>>

Up(n) == n = Seller => running

Entry == [rank : 1..Cardinality(Node), terms : 1..terms] \cup {Nothing}

TypeOK ==
  /\ running \in BOOLEAN /\ terms \in 0..MaxTerms
  /\ book \in [Node -> Entry]
  /\ announced \in [Node -> SUBSET (1..terms)] /\ pulled \in [Node -> SUBSET (1..terms)]
  /\ \A n \in Node : ~Up(n) => book[n] = Nothing /\ announced[n] = {} /\ pulled[n] = {}
  /\ stops \in 0..MaxStops /\ connects \in 0..MaxConnects

Init ==
  /\ running = FALSE /\ terms = 0
  /\ book = [n \in Node |-> Nothing]
  /\ announced = [n \in Node |-> {}] /\ pulled = [n \in Node |-> {}]
  /\ stops = 0 /\ connects = 0

-----------------------------------------------------------------------------
(* Directories *)

Ranks(b) == {b[m].rank : m \in Node} \ {0}

\* ranks without gaps
Normal(b) ==
  [n \in Node |-> [b[n] EXCEPT !.rank = Cardinality({r \in Ranks(b) : r <= b[n].rank})]]

\* a rank above the node's own, and anywhere among those of the others
HigherRanks(n) == (2 * book[n].rank + 1)..(2 * Cardinality(Ranks(book)) + 1)

\* Apply: whatever the directory has and whenever the listing was made
Stored(n, v) ==
  \E r \in HigherRanks(n) :
    book' = Normal([m \in Node |->
      IF m = n THEN [rank |-> r, terms |-> v]
      ELSE [book[m] EXCEPT !.rank = 2 * book[m].rank]])

\* or the store fails, which no caller of Apply looks at
Put(n, v) == Stored(n, v) \/ book' = book

Beats(e, f) ==
  \/ e.rank > f.rank
  \/ e.rank = f.rank /\ e.terms # f.terms /\ Bytes(e.terms) > Bytes(f.terms)

\* the deltas of another node arrive, at once or when its heads are sent again
Merge(n, m) ==
  /\ Up(n) /\ Up(m) /\ Beats(book[m], book[n])
  /\ book' = Normal([book EXCEPT ![n] = book[m]])
  /\ UNCHANGED <<running, terms, announced, pulled, bounds>>

-----------------------------------------------------------------------------
(* The seller *)

\* to every node that is there, the seller's own subscription included
Publish(v) ==
  announced' = [n \in Node |-> IF n = Seller \/ Up(n) THEN announced[n] \cup {v} ELSE announced[n]]

\* registerLocalAgentFromFlags, the upsert and the first announcement
Start ==
  /\ ~running /\ running' = TRUE
  /\ \E v \in Terms \cap {terms, terms + 1} : terms' = v /\ Put(Seller, v) /\ Publish(v)
  /\ UNCHANGED <<pulled, bounds>>

\* a node stops, and with it goes all it has; other nodes are soon there again
Stop(n) ==
  /\ Up(n) /\ stops < MaxStops /\ stops' = stops + 1
  /\ running' = (running /\ n # Seller)
  /\ book' = Normal([book EXCEPT ![n] = Nothing])
  /\ announced' = [announced EXCEPT ![n] = {}] /\ pulled' = [pulled EXCEPT ![n] = {}]
  /\ UNCHANGED <<terms, connects>>

\* mutant: the listing is announced when the agent is registered, and no more
AnnouncesOnce == FALSE /\ UNCHANGED vars

\* a tick of runListingAnnouncer
Announce ==
  /\ running
  /\ Put(Seller, terms) /\ Publish(terms)
  /\ UNCHANGED <<running, terms, pulled, bounds>>

-----------------------------------------------------------------------------
(* Announcements and pulls *)

\* handleAgentListingMessage
Hear(n, v) ==
  /\ v \in announced[n]
  /\ announced' = [announced EXCEPT ![n] = @ \ {v}]
  /\ Put(n, v)
  /\ UNCHANGED <<running, terms, pulled, bounds>>

Miss(n, v) ==
  /\ v \in announced[n]
  /\ announced' = [announced EXCEPT ![n] = @ \ {v}]
  /\ UNCHANGED <<running, terms, book, pulled, bounds>>

\* mutant: a listing without an id is a listing
PullsAnything(n, m) == pulled' = [pulled EXCEPT ![n] = @ \cup {book[m].terms}]

\* the "info" handler: all the listings of the node asked, of whatever seller
Pulls(n, m) ==
  pulled' = [pulled EXCEPT ![n] = @ \cup ({book[m].terms} \ {Nothing.terms})]

\* a connection: its pull is answered
Connect(n, m) ==
  /\ n # m /\ Up(n) /\ Up(m)
  /\ connects < MaxConnects /\ connects' = connects + 1
  /\ Pulls(n, m)
  /\ UNCHANGED <<running, terms, book, announced, stops>>

\* UpsertLocalListing of an answer
Upsert(n, v) ==
  /\ v \in pulled[n]
  /\ pulled' = [pulled EXCEPT ![n] = @ \ {v}]
  /\ Put(n, v)
  /\ UNCHANGED <<running, terms, announced, bounds>>

-----------------------------------------------------------------------------
Next ==
  \/ Start \/ Announce
  \/ \E n \in Node : Stop(n) \/ \E v \in Terms : Hear(n, v) \/ Miss(n, v) \/ Upsert(n, v)
  \/ \E n, m \in Node : Merge(n, m) \/ Connect(n, m)

Spec == Init /\ [][Next]_vars

\* the ticker ticks, and not every write of the seller fails, goroutines run, heads
\* are sent again and again
Fairness ==
  /\ WF_vars(Announce /\ Stored(Seller, terms))
  /\ \A n, m \in Node : WF_vars(Merge(n, m))
  /\ \A n \in Node, v \in Terms : WF_vars(Upsert(n, v)) /\ WF_vars(Hear(n, v) \/ Miss(n, v))

FairSpec == Spec /\ Fairness

-----------------------------------------------------------------------------
(* Properties *)

\* A seller that stays up gets its present terms into every directory, for good,
\* when nodes stop and connect no more: whatever old listing was heard late or
\* pulled from a node that was behind, and although a write of an empty directory
\* has the lowest rank, the announcer's next write comes out above it
\* (crdt.go 67-107, main.go 735-757, 807-827).
TermsSpread ==
  <>[]running => <>[](\A n \in Node : book[n].terms = terms)

\* Once the last old entry, announcement and answer are gone, only a seller that
\* starts with new terms brings about others: no write, late message, pull or
\* merge makes up a listing (crdt.go 67-107, manager.go 519-525).
OnlyPresentTerms ==
  \A n \in Node : book[n].terms \in {0, terms} /\ announced[n] \cup pulled[n] \subseteq {terms}
OldTermsStayAway == [][OnlyPresentTerms /\ terms' = terms => OnlyPresentTerms']_vars

\* When no node has anything that would win over another's entry, all that are
\* up have the same listing: two writes that tie in rank are one listing, or one
\* of them wins.  If old terms are gone by then and some write succeeded, it is the
\* present one of the seller, everywhere (crdt.go 48-107).
Merged == \A n, m \in Node : Up(n) /\ Up(m) => ~Beats(book[m], book[n])
MergedBooksAgree ==
  Merged => /\ \A n, m \in Node : Up(n) /\ Up(m) => book[n] = book[m]
            /\ running /\ OnlyPresentTerms /\ (\E n \in Node : book[n].terms # 0) =>
                 \A n \in Node : book[n].terms = terms
=============================================================================

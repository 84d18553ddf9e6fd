--------------------------- MODULE ListingsProofs ---------------------------
(***************************************************************************)
(* The types of Listings for any finite set of nodes and any number of     *)
(* versions, stops and connections; that ranks made small keep their       *)
(* order; and what they decide.                                            *)
(***************************************************************************)
EXTENDS Listings, FiniteSetTheorems, TLAPS

USE ListingsAssumption

\* books with any ranks, as they are between a write and its normalisation
Books == [Node -> [rank : Nat, terms : Nat]]

-----------------------------------------------------------------------------
(* Ranks *)

\* The ranks of a directory are finitely many, no more than nodes.
LEMMA RanksAreFew ==
  ASSUME NEW b \in Books
  PROVE  /\ IsFiniteSet(Ranks(b)) /\ Ranks(b) \subseteq Nat \ {0}
         /\ Cardinality(Ranks(b)) <= Cardinality(Node)
<1> DEFINE R == {b[m].rank : m \in Node}
<1>1. IsFiniteSet(R) /\ Cardinality(R) <= Cardinality(Node)
  <2> DEFINE f == [m \in Node |-> b[m].rank]
  <2>1. f \in Surjection(Node, R)
    BY DEF Surjection
  <2> HIDE DEF f, R
  <2> QED BY <2>1, FS_Surjection
<1>2. Ranks(b) \subseteq R /\ Ranks(b) = R \ {0}
  BY DEF Ranks
<1>3. IsFiniteSet(Ranks(b)) /\ Cardinality(Ranks(b)) <= Cardinality(R)
  BY <1>1, <1>2, FS_Subset
<1>4. Cardinality(R) \in Nat /\ Cardinality(Node) \in Nat /\ Cardinality(Ranks(b)) \in Nat
  BY <1>1, <1>3, FS_CardinalityType
<1> QED BY <1>1, <1>2, <1>3, <1>4 DEF Books

\* the ranks up to one
Below(b, k) == {r \in Ranks(b) : r <= k}

\* Counting the ranks up to one keeps their order.
LEMMA BelowGrows ==
  ASSUME NEW b \in Books, NEW j \in Nat, NEW k \in Nat
  PROVE  /\ Cardinality(Below(b, k)) \in 0..Cardinality(Node)
         /\ j <= k => Cardinality(Below(b, j)) <= Cardinality(Below(b, k))
         /\ j < k /\ k \in Ranks(b) => Cardinality(Below(b, j)) < Cardinality(Below(b, k))
<1>1. /\ IsFiniteSet(Ranks(b)) /\ Ranks(b) \subseteq Nat \ {0}
      /\ Cardinality(Ranks(b)) <= Cardinality(Node)
  BY RanksAreFew
<1>2. \A i \in Nat : /\ Below(b, i) \subseteq Ranks(b)
                     /\ IsFiniteSet(Below(b, i)) /\ Cardinality(Below(b, i)) \in Nat
                     /\ Cardinality(Below(b, i)) <= Cardinality(Ranks(b))
  <2>1. ASSUME NEW i \in Nat PROVE Below(b, i) \subseteq Ranks(b)
    BY DEF Below
  <2> QED BY <1>1, <2>1, FS_Subset, FS_CardinalityType
<1>3. Cardinality(Ranks(b)) \in Nat /\ Cardinality(Node) \in Nat
  BY <1>1, FS_CardinalityType
<1>4. ASSUME j <= k PROVE Cardinality(Below(b, j)) <= Cardinality(Below(b, k))
  <2>1. Below(b, j) \subseteq Below(b, k)
    BY <1>1, <1>4 DEF Below
  <2> QED BY <1>2, <2>1, FS_Subset
<1>5. ASSUME j < k, k \in Ranks(b)
      PROVE  Cardinality(Below(b, j)) < Cardinality(Below(b, k))
  <2>1. Below(b, j) \subseteq Below(b, k) /\ k \in Below(b, k) /\ k \notin Below(b, j)
    BY <1>1, <1>5 DEF Below
  <2>2. Below(b, j) # Below(b, k)
    BY <2>1
  <2>3. Cardinality(Below(b, j)) <= Cardinality(Below(b, k))
    BY <1>2, <2>1, FS_Subset
  <2>4. Cardinality(Below(b, j)) # Cardinality(Below(b, k))
    BY <1>2, <2>1, <2>2, FS_Subset
  <2> QED BY <1>2, <2>3, <2>4
<1> HIDE DEF Below
<1>6. Cardinality(Below(b, k)) \in 0..Cardinality(Node)
  BY <1>1, <1>2, <1>3
<1> QED BY <1>4, <1>5, <1>6

\* A normalised directory has the terms it had, no rank where there was none,
\* ranks no larger than the number of nodes, and all of them in the order they
\* were in: only the order decides what a merge does.
LEMMA NormalKeepsOrder ==
  ASSUME NEW b \in Books
  PROVE  /\ Normal(b) \in Books
         /\ \A n \in Node :
              /\ Normal(b)[n].terms = b[n].terms
              /\ Normal(b)[n].rank \in 0..Cardinality(Node)
              /\ Normal(b)[n].rank = 0 <=> b[n].rank = 0
         /\ \A n, m \in Node : Normal(b)[n].rank < Normal(b)[m].rank <=> b[n].rank < b[m].rank
<1>1. Cardinality(Node) \in Nat
  BY FS_CardinalityType
<1> DEFINE count == [n \in Node |-> Cardinality(Below(b, b[n].rank))]
<1>2. \A n \in Node : b[n] \in [rank : Nat, terms : Nat] /\ b[n].rank \in Nat /\ b[n].terms \in Nat
  BY DEF Books
<1>c. \A n \in Node : count[n] = Cardinality(Below(b, b[n].rank)) /\ count[n] \in 0..Cardinality(Node)
  BY <1>2, BelowGrows
<1>6. \A n \in Node : Normal(b)[n] = [rank |-> count[n], terms |-> b[n].terms]
  <2>1. \A n \in Node : Normal(b)[n] = [b[n] EXCEPT !.rank = Cardinality(Below(b, b[n].rank))]
    BY DEF Normal, Below
  <2> QED BY <1>2, <1>c, <2>1
<1> HIDE DEF count
<1>r. \A n \in Node : b[n].rank # 0 => b[n].rank \in Ranks(b)
  BY DEF Ranks
<1>3. ASSUME NEW n \in Node
      PROVE  count[n] = 0 <=> b[n].rank = 0
  <2>1. Below(b, 0) = {}
    BY RanksAreFew DEF Below
  <2>2. Cardinality(Below(b, 0)) = 0
    BY <2>1, FS_EmptySet
  <2> DEFINE k == b[n].rank
  <2>3. k \in Nat /\ (k # 0 => k \in Ranks(b)) /\ count[n] = Cardinality(Below(b, k))
    BY <1>2, <1>r, <1>c
  <2> HIDE DEF k
  <2>4. k # 0 => Cardinality(Below(b, 0)) < Cardinality(Below(b, k))
    BY <2>3, BelowGrows
  <2>5. count[n] = 0 <=> k = 0
    BY <2>2, <2>3, <2>4
  <2> QED BY <2>5 DEF k
<1>4. ASSUME NEW n \in Node, NEW m \in Node
      PROVE  count[n] < count[m] <=> b[n].rank < b[m].rank
  <2> DEFINE j == b[n].rank
             k == b[m].rank
  <2>1. /\ j \in Nat /\ k \in Nat /\ (k # 0 => k \in Ranks(b))
        /\ count[n] = Cardinality(Below(b, j)) /\ count[m] = Cardinality(Below(b, k))
        /\ count[n] \in Nat /\ count[m] \in Nat
    BY <1>1, <1>2, <1>r, <1>c
  <2> HIDE DEF j, k
  <2>2. j < k => count[n] < count[m]
    BY <2>1, BelowGrows
  <2>3. k <= j => count[m] <= count[n]
    BY <2>1, BelowGrows
  <2>4. count[n] < count[m] <=> j < k
    BY <2>1, <2>2, <2>3
  <2> QED BY <2>4 DEF j, k
<1> DEFINE small == Normal(b)
<1>5. ASSUME NEW n \in Node
      PROVE  small[n].terms = b[n].terms /\ small[n].rank = count[n]
  <2>1. small[n] = [rank |-> count[n], terms |-> b[n].terms]
    BY <1>6
  <2> HIDE DEF small
  <2>2. small[n].terms = b[n].terms
    BY <2>1
  <2>3. small[n].rank = count[n]
    BY <2>1
  <2> QED BY <2>2, <2>3
<1>7. small \in Books
  <2>1. \A n \in Node : [rank |-> count[n], terms |-> b[n].terms] \in [rank : Nat, terms : Nat]
    BY <1>1, <1>2, <1>c
  <2>2. small = [n \in Node |-> small[n]]
    BY DEF Normal
  <2> QED BY <1>6, <2>1, <2>2 DEF Books
<1> HIDE DEF small
<1>8. /\ small \in Books
      /\ \A n \in Node :
           /\ small[n].terms = b[n].terms
           /\ small[n].rank \in 0..Cardinality(Node)
           /\ small[n].rank = 0 <=> b[n].rank = 0
      /\ \A n, m \in Node : small[n].rank < small[m].rank <=> b[n].rank < b[m].rank
  BY <1>3, <1>4, <1>5, <1>7, <1>c
<1> QED BY <1>8 DEF small

-----------------------------------------------------------------------------
(* Directories *)

\* directories of versions up to t, as they are between any two steps
Sound(b, t) ==
  /\ b \in Books
  /\ \A n \in Node : /\ b[n].rank \in 0..Cardinality(Node) /\ b[n].terms \in 0..t
                     /\ b[n].rank = 0 <=> b[n].terms = 0

\* A sound directory is one of entries.
LEMMA SoundBooks ==
  ASSUME terms \in Nat
  PROVE  book \in [Node -> Entry] <=> Sound(book, terms)
<1>1. Cardinality(Node) \in Nat
  BY FS_CardinalityType
<1>2. ASSUME book \in [Node -> Entry] PROVE Sound(book, terms)
  <2>1. \A n \in Node : /\ book[n] \in [rank : Nat, terms : Nat]
                        /\ book[n].rank \in 0..Cardinality(Node) /\ book[n].terms \in 0..terms
                        /\ book[n].rank = 0 <=> book[n].terms = 0
    BY <1>1, <1>2 DEF Entry, Nothing
  <2> QED BY <1>2, <2>1 DEF Sound, Books
<1>3. ASSUME Sound(book, terms) PROVE book \in [Node -> Entry]
  <2>1. ASSUME NEW n \in Node PROVE book[n] \in Entry
    <3>1. /\ book[n] \in [rank : Nat, terms : Nat]
          /\ book[n].rank \in 0..Cardinality(Node) /\ book[n].terms \in 0..terms
          /\ book[n].rank = 0 <=> book[n].terms = 0
      BY <1>3 DEF Sound, Books
    <3>2. CASE book[n].rank = 0
      BY <3>1, <3>2 DEF Entry, Nothing
    <3>3. CASE book[n].rank # 0
      BY <1>1, <3>1, <3>3 DEF Entry
    <3> QED BY <3>2, <3>3
  <2> QED BY <1>3, <2>1 DEF Sound, Books
<1> QED BY <1>2, <1>3

\* Books whose entries have a rank just when they have terms are sound once they
\* are normalised, and still have those terms.
LEMMA NormalIsSound ==
  ASSUME NEW b \in Books, NEW t \in Nat,
         \A n \in Node : b[n].terms \in 0..t /\ (b[n].rank = 0 <=> b[n].terms = 0)
  PROVE  Sound(Normal(b), t) /\ \A n \in Node : Normal(b)[n].terms = b[n].terms
<1> DEFINE small == Normal(b)
<1>1. /\ small \in Books
      /\ \A n \in Node :
           /\ small[n].terms = b[n].terms
           /\ small[n].rank \in 0..Cardinality(Node)
           /\ small[n].rank = 0 <=> b[n].rank = 0
  BY NormalKeepsOrder
<1> HIDE DEF small
<1>2. Sound(small, t) /\ \A n \in Node : small[n].terms = b[n].terms
  BY <1>1 DEF Sound
<1> QED BY <1>2 DEF small

\* A write that succeeds puts its terms into the book of the node that makes it,
\* and nothing into the others.
LEMMA StoredSteps ==
  ASSUME NEW t \in Nat, Sound(book, t), NEW n \in Node, NEW v \in 1..t, Stored(n, v)
  PROVE  Sound(book', t) /\ \A m \in Node : book'[m].terms = IF m = n THEN v ELSE book[m].terms
<1>1. PICK r \in HigherRanks(n) :
        book' = Normal([m \in Node |->
                  IF m = n THEN [rank |-> r, terms |-> v]
                  ELSE [book[m] EXCEPT !.rank = 2 * book[m].rank]])
  BY DEF Stored
<1> DEFINE b == [m \in Node |->
                  IF m = n THEN [rank |-> r, terms |-> v]
                  ELSE [book[m] EXCEPT !.rank = 2 * book[m].rank]]
<1>2. \A m \in Node : book[m] \in [rank : Nat, terms : Nat] /\ book[m].rank \in Nat
                     /\ book[m].terms \in 0..t /\ (book[m].rank = 0 <=> book[m].terms = 0)
  BY DEF Sound, Books
<1>3. r \in Nat \ {0}
  <2>1. book \in Books
    BY DEF Sound
  <2>2. Cardinality(Ranks(book)) \in Nat
    BY <2>1, RanksAreFew, FS_CardinalityType
  <2> QED BY <1>2, <2>2 DEF HigherRanks
<1>4. ASSUME NEW m \in Node
      PROVE  /\ b[m] \in [rank : Nat, terms : Nat]
             /\ b[m].terms = IF m = n THEN v ELSE book[m].terms
             /\ b[m].terms \in 0..t /\ (b[m].rank = 0 <=> b[m].terms = 0)
  <2>1. CASE m = n
    BY <1>3, <2>1
  <2>2. CASE m # n
    <3>1. b[m] = [book[m] EXCEPT !.rank = 2 * book[m].rank]
      BY <2>2
    <3> HIDE DEF b
    <3>2. /\ b[m] \in [rank : Nat, terms : Nat] /\ b[m].rank = 2 * book[m].rank
          /\ b[m].terms = book[m].terms
      BY <1>2, <3>1
    <3> QED BY <1>2, <2>2, <3>2
  <2> QED BY <2>1, <2>2
<1>5. b \in Books
  BY <1>4 DEF Books
<1>6. book' = Normal(b)
  BY <1>1
<1> HIDE DEF b
<1>7. Sound(Normal(b), t) /\ \A m \in Node : Normal(b)[m].terms = b[m].terms
  BY <1>4, <1>5, NormalIsSound
<1> QED BY <1>4, <1>6, <1>7

\* One that fails changes nothing.
LEMMA PutSteps ==
  ASSUME NEW t \in Nat, Sound(book, t), NEW n \in Node, NEW v \in 1..t, Put(n, v)
  PROVE  /\ Sound(book', t)
         /\ \A m \in Node : \/ book'[m].terms = book[m].terms
                            \/ (m = n /\ book'[m].terms = v)
<1>1. CASE Stored(n, v)
  BY <1>1, StoredSteps
<1>2. CASE book' = book
  BY <1>2
<1> QED BY <1>1, <1>2 DEF Put

\* the book of n becomes e
Copied(n, e) == book' = Normal([book EXCEPT ![n] = e])

\* A stop or a merge changes one book, to nothing or to that of another node.
LEMMA CopySteps ==
  ASSUME NEW t \in Nat, Sound(book, t), NEW n \in Node,
         NEW e \in {Nothing} \cup {book[m] : m \in Node},
         Copied(n, e)
  PROVE  /\ Sound(book', t)
         /\ \A m \in Node : book'[m].terms = IF m = n THEN e.terms ELSE book[m].terms
<1> DEFINE b == [book EXCEPT ![n] = e]
<1>1. /\ \A m \in Node : book[m] \in [rank : Nat, terms : Nat]
                     /\ book[m].terms \in 0..t /\ (book[m].rank = 0 <=> book[m].terms = 0)
      /\ book \in [Node -> [rank : Nat, terms : Nat]]
  BY DEF Sound, Books
<1>2. e \in [rank : Nat, terms : Nat] /\ e.terms \in 0..t /\ (e.rank = 0 <=> e.terms = 0)
  BY <1>1 DEF Nothing
<1>3. /\ b \in Books
      /\ \A m \in Node : /\ b[m].terms = IF m = n THEN e.terms ELSE book[m].terms
                         /\ b[m].terms \in 0..t /\ (b[m].rank = 0 <=> b[m].terms = 0)
  BY <1>1, <1>2 DEF Books
<1>4. book' = Normal(b)
  BY DEF Copied
<1> HIDE DEF b
<1>5. Sound(Normal(b), t) /\ \A m \in Node : Normal(b)[m].terms = b[m].terms
  BY <1>3, NormalIsSound
<1> QED BY <1>3, <1>4, <1>5

\* the types, with the books sound; what is served has a version
Types ==
  /\ running \in BOOLEAN /\ terms \in 0..MaxTerms /\ (running => terms # 0)
  /\ Sound(book, terms)
  /\ announced \in [Node -> SUBSET (1..terms)] /\ pulled \in [Node -> SUBSET (1..terms)]
  /\ \A n \in Node : ~Up(n) => book[n].terms = 0 /\ announced[n] = {} /\ pulled[n] = {}
  /\ stops \in 0..MaxStops /\ connects \in 0..MaxConnects

\* They imply TypeOK: a book without terms has no rank.
LEMMA TypesAreTypeOK == Types => TypeOK
<1>2. Types => terms \in Nat
  BY DEF Types
<1>3. ASSUME terms \in Nat, Sound(book, terms), NEW n \in Node
      PROVE  book[n].terms = 0 <=> book[n] = Nothing
  <2>1. book[n] \in [rank : Nat, terms : Nat] /\ (book[n].rank = 0 <=> book[n].terms = 0)
    BY <1>3 DEF Sound, Books
  <2> QED BY <2>1 DEF Nothing
<1> QED BY <1>2, <1>3, SoundBooks DEF TypeOK, Types

-----------------------------------------------------------------------------
(* Steps *)

\* Where the terms in the books and in the messages after a step come from.
Sources ==
  /\ terms' \in terms..MaxTerms
  /\ Sound(book', terms')
  /\ \A n \in Node :
       book'[n].terms \in {0, terms'} \cup announced[n] \cup pulled[n]
                          \cup {book[m].terms : m \in Node}
  /\ announced' \in [Node -> SUBSET (1..terms')]
  /\ \A n \in Node : announced'[n] \subseteq announced[n] \cup {terms'}
  /\ pulled' \in [Node -> SUBSET (1..terms')]
  /\ \A n \in Node : pulled'[n] \subseteq pulled[n] \cup {book[m].terms : m \in Node}

\* Nobody makes up a listing: what is in a book was there, or in a message to
\* the node, or in another book, or comes from the seller itself.
LEMMA NothingIsMadeUp ==
  ASSUME Types, [Next]_vars
  PROVE  Sources
<1>t. /\ terms \in Nat /\ terms \in terms..MaxTerms /\ Sound(book, terms)
      /\ announced \in [Node -> SUBSET (1..terms)] /\ pulled \in [Node -> SUBSET (1..terms)]
  BY DEF Types
<1>p. ASSUME terms' \in terms..MaxTerms, terms' > 0, Publish(terms')
      PROVE  /\ announced' \in [Node -> SUBSET (1..terms')]
             /\ \A n \in Node : announced'[n] \subseteq announced[n] \cup {terms'}
  <2>1. 1..terms \subseteq 1..terms' /\ terms' \in 1..terms'
    BY <1>t, <1>p
  <2> QED BY <1>t, <1>p, <2>1 DEF Publish
<1>1. CASE Start
  <2>1. /\ terms' \in Terms \cap {terms, terms + 1}
        /\ Put(Seller, terms') /\ Publish(terms') /\ pulled' = pulled
    BY <1>1 DEF Start
  <2>2. terms' \in terms..MaxTerms /\ terms' \in 1..terms' /\ terms' \in Nat
    BY <1>t, <2>1 DEF Terms
  <2>3. Sound(book, terms') /\ pulled \in [Node -> SUBSET (1..terms')]
    BY <1>t, <2>2 DEF Sound
  <2>4. /\ Sound(book', terms')
        /\ \A m \in Node : book'[m].terms = book[m].terms \/ (m = Seller /\ book'[m].terms = terms')
    BY <2>1, <2>2, <2>3, PutSteps
  <2> QED BY <1>p, <2>1, <2>2, <2>3, <2>4 DEF Sources
<1>2. CASE Announce
  <2>1. /\ running /\ terms' = terms /\ pulled' = pulled
        /\ Put(Seller, terms) /\ Publish(terms)
    BY <1>2 DEF Announce
  <2>2. terms \in 1..terms
    BY <1>t, <2>1 DEF Types
  <2>3. /\ Sound(book', terms)
        /\ \A m \in Node : book'[m].terms = book[m].terms \/ (m = Seller /\ book'[m].terms = terms)
    BY <1>t, <2>1, <2>2, PutSteps
  <2> QED BY <1>t, <1>p, <2>1, <2>2, <2>3 DEF Sources
<1>3. ASSUME NEW n \in Node, Stop(n)
      PROVE  Sources
  <2>1. /\ terms' = terms /\ Copied(n, Nothing)
        /\ Nothing.terms = 0
        /\ announced' = [announced EXCEPT ![n] = {}] /\ pulled' = [pulled EXCEPT ![n] = {}]
    BY <1>3 DEF Stop, Nothing, Copied
  <2>2. Sound(book', terms) /\ \A m \in Node : book'[m].terms = IF m = n THEN 0 ELSE book[m].terms
    BY <1>t, <2>1, CopySteps
  <2> QED BY <1>t, <2>1, <2>2 DEF Sources
<1>4. ASSUME NEW n \in Node, NEW v \in Terms, Hear(n, v) \/ Upsert(n, v)
      PROVE  Sources
  <2>1. /\ terms' = terms /\ Put(n, v) /\ v \in announced[n] \cup pulled[n]
        /\ announced' \in {announced, [announced EXCEPT ![n] = @ \ {v}]}
        /\ pulled' \in {pulled, [pulled EXCEPT ![n] = @ \ {v}]}
    BY <1>4 DEF Hear, Upsert
  <2>2. v \in 1..terms
    BY <1>t, <2>1
  <2>3. Sound(book', terms) /\ \A m \in Node : book'[m].terms = book[m].terms \/ (m = n /\ book'[m].terms = v)
    BY <1>t, <2>1, <2>2, PutSteps
  <2> QED BY <1>t, <2>1, <2>3 DEF Sources
<1>5. ASSUME NEW n \in Node, NEW v \in Terms, Miss(n, v)
      PROVE  Sources
  BY <1>t, <1>5 DEF Miss, Sources
<1>6. ASSUME NEW n \in Node, NEW m \in Node, Merge(n, m)
      PROVE  Sources
  <2>1. /\ terms' = terms /\ Copied(n, book[m])
        /\ announced' = announced /\ pulled' = pulled
    BY <1>6 DEF Merge, Copied
  <2>2. /\ Sound(book', terms)
        /\ \A k \in Node : book'[k].terms = IF k = n THEN book[m].terms ELSE book[k].terms
    BY <1>t, <2>1, CopySteps
  <2> QED BY <1>t, <2>1, <2>2 DEF Sources
<1>7. ASSUME NEW n \in Node, NEW m \in Node, Connect(n, m)
      PROVE  Sources
  <2>1. /\ terms' = terms /\ book' = book /\ announced' = announced
        /\ pulled' = [pulled EXCEPT ![n] = @ \cup ({book[m].terms} \ {0})]
    BY <1>7 DEF Connect, Pulls, Nothing
  <2>2. {book[m].terms} \ {0} \subseteq 1..terms
    BY <1>t DEF Sound
  <2> QED BY <1>t, <2>1, <2>2 DEF Sources
<1>8. CASE UNCHANGED vars
  BY <1>t, <1>8 DEF vars, Sources
<1> QED BY <1>1, <1>2, <1>3, <1>4, <1>5, <1>6, <1>7, <1>8 DEF Next

\* A seller that is down has nothing and is told nothing.
LEMMA DownStep ==
  ASSUME Types, [Next]_vars, NEW n \in Node, ~Up(n)'
  PROVE  book'[n].terms = 0 /\ announced'[n] = {} /\ pulled'[n] = {}
<1>t. /\ terms \in Nat /\ terms \in terms..MaxTerms /\ Sound(book, terms)
      /\ announced \in [Node -> SUBSET (1..terms)] /\ pulled \in [Node -> SUBSET (1..terms)]
      /\ ~Up(n) => book[n].terms = 0 /\ announced[n] = {} /\ pulled[n] = {}
  BY DEF Types
<1>d. n = Seller /\ ~running'
  BY DEF Up
<1>1. ~(Start \/ Announce)
  BY <1>d DEF Start, Announce
<1>2. ASSUME NEW m \in Node, Stop(m)
      PROVE  book'[n].terms = 0 /\ announced'[n] = {} /\ pulled'[n] = {}
  <2>1. /\ Copied(m, Nothing) /\ Nothing.terms = 0 /\ running' = (running /\ m # Seller)
        /\ announced' = [announced EXCEPT ![m] = {}] /\ pulled' = [pulled EXCEPT ![m] = {}]
    BY <1>2 DEF Stop, Nothing, Copied
  <2>2. book'[n].terms = IF n = m THEN 0 ELSE book[n].terms
    BY <1>t, <2>1, CopySteps
  <2>3. n # m => ~Up(n)
    BY <1>d, <2>1 DEF Up
  <2> QED BY <1>t, <2>1, <2>2, <2>3
<1>3. ASSUME NEW m \in Node, NEW v \in Terms, Hear(m, v) \/ Upsert(m, v) \/ Miss(m, v)
      PROVE  book'[n].terms = 0 /\ announced'[n] = {} /\ pulled'[n] = {}
  <2>1. /\ v \in announced[m] \cup pulled[m] /\ running' = running
        /\ announced' \in {announced, [announced EXCEPT ![m] = @ \ {v}]}
        /\ pulled' \in {pulled, [pulled EXCEPT ![m] = @ \ {v}]}
        /\ Put(m, v) \/ book' = book
    BY <1>3 DEF Hear, Upsert, Miss
  <2>2. ~Up(n) /\ m # n /\ v \in 1..terms
    BY <1>t, <1>d, <2>1 DEF Up
  <2>3. book'[n].terms = book[n].terms
    BY <1>t, <2>1, <2>2, PutSteps
  <2> QED BY <1>t, <2>1, <2>2, <2>3
<1>4. ASSUME NEW m \in Node, NEW k \in Node, Merge(m, k)
      PROVE  book'[n].terms = 0 /\ announced'[n] = {} /\ pulled'[n] = {}
  <2>1. /\ Copied(m, book[k]) /\ running' = running /\ Up(m)
        /\ announced' = announced /\ pulled' = pulled
    BY <1>4 DEF Merge, Copied
  <2>2. ~Up(n) /\ m # n
    BY <1>d, <2>1 DEF Up
  <2>3. book'[n].terms = book[n].terms
    BY <1>t, <2>1, <2>2, CopySteps
  <2> QED BY <1>t, <2>1, <2>2, <2>3
<1>5. ASSUME NEW m \in Node, NEW k \in Node, Connect(m, k)
      PROVE  book'[n].terms = 0 /\ announced'[n] = {} /\ pulled'[n] = {}
  BY <1>t, <1>d, <1>5 DEF Connect, Pulls, Up
<1>6. CASE UNCHANGED vars
  BY <1>t, <1>d, <1>6 DEF vars, Up
<1> QED BY <1>1, <1>2, <1>3, <1>4, <1>5, <1>6 DEF Next

\* The types after any step.
LEMMA TypesStep ==
  ASSUME Types, [Next]_vars
  PROVE  Types'
<1>1. Sources
  BY NothingIsMadeUp
<1>2. running' \in BOOLEAN /\ (running' => terms' # 0)
  <2>1. Start => terms' # 0 /\ running' = TRUE
    BY DEF Start, Terms
  <2>2. ~Start => terms' = terms /\ running' \in BOOLEAN /\ (running' => running)
    BY DEF Next, Types, vars, Announce, Stop, Hear, Miss, Upsert, Merge, Connect
  <2> QED BY <2>1, <2>2 DEF Types
<1>3. stops' \in 0..MaxStops /\ connects' \in 0..MaxConnects
  <2>1. stops' = stops \/ (stops' = stops + 1 /\ stops < MaxStops)
    BY DEF Next, vars, bounds, Start, Announce, Stop, Hear, Miss, Upsert, Merge, Connect
  <2>2. connects' = connects \/ (connects' = connects + 1 /\ connects < MaxConnects)
    BY DEF Next, vars, bounds, Start, Announce, Stop, Hear, Miss, Upsert, Merge, Connect
  <2> QED BY <2>1, <2>2 DEF Types
<1>4. terms' \in 0..MaxTerms
  BY <1>1 DEF Types, Sources
<1> QED BY <1>1, <1>2, <1>3, <1>4, DownStep DEF Types, Sources

-----------------------------------------------------------------------------
(* Theorems *)

\* The types hold in every reachable state, for any nodes: ranks never outgrow
\* the number of nodes, and a listing is of a version its seller has served.
THEOREM TypesHold == Spec => []Types
<1>1. Init => Types
  <2> SUFFICES ASSUME Init PROVE Types
    OBVIOUS
  <2>1. Cardinality(Node) \in Nat
    BY FS_CardinalityType
  <2>2. Sound(book, terms)
    BY <2>1 DEF Init, Sound, Books, Nothing
  <2>3. \A n \in Node : book[n].terms = 0 /\ announced[n] = {} /\ pulled[n] = {}
    BY DEF Init, Nothing
  <2>4. /\ announced \in [Node -> SUBSET (1..terms)] /\ pulled \in [Node -> SUBSET (1..terms)]
        /\ terms = 0 /\ stops = 0 /\ connects = 0 /\ running = FALSE
    BY DEF Init
  <2>5. terms \in 0..MaxTerms /\ stops \in 0..MaxStops /\ connects \in 0..MaxConnects
    BY <2>4
  <2>6. running \in BOOLEAN /\ (running => terms # 0)
    BY <2>4
  <2> QED BY <2>2, <2>3, <2>4, <2>5, <2>6 DEF Types
<1> QED BY <1>1, TypesStep, PTL DEF Spec

\* Every variable keeps its range: directories name only versions the seller has
\* served, and one that is down has none (crdt.go 48-107).
THEOREM ListingsTypes == Spec => []TypeOK
BY TypesHold, TypesAreTypeOK, PTL

\* Once the last old entry and message are gone, old terms stay away until the
\* seller starts with new ones (crdt.go 67-107, manager.go 519-525).
THEOREM PresentTermsStay == Spec => OldTermsStayAway
<1>1. ASSUME Types, [Next]_vars, OnlyPresentTerms, terms' = terms
      PROVE  OnlyPresentTerms'
  <2>1. ASSUME NEW n \in Node
        PROVE  book'[n].terms \in {0, terms'} /\ announced'[n] \cup pulled'[n] \subseteq {terms'}
    <3>1. Sources
      BY <1>1, NothingIsMadeUp
    <3>2. \A m \in Node : book[m].terms \in {0, terms'} /\ announced[m] \cup pulled[m] \subseteq {terms'}
      BY <1>1 DEF OnlyPresentTerms
    <3>3. pulled'[n] \subseteq 1..terms'
      BY <3>1 DEF Sources
    <3> QED BY <3>1, <3>2, <3>3 DEF Sources
  <2> QED BY <2>1 DEF OnlyPresentTerms
<1>2. Types /\ [Next]_vars => [OnlyPresentTerms /\ terms' = terms => OnlyPresentTerms']_vars
  BY <1>1
<1> QED BY <1>2, TypesHold, PTL DEF Spec, OldTermsStayAway

\* Directories that have nothing left to exchange agree; without old terms around
\* they agree on what the seller serves (crdt.go 48-107).
THEOREM DirectoriesAgree == Spec => []MergedBooksAgree
<1>1. ASSUME Types, Merged, NEW n \in Node, NEW m \in Node, Up(n), Up(m)
      PROVE  book[n] = book[m]
  <2>1. /\ book[n] \in [rank : Nat, terms : Nat] /\ book[m] \in [rank : Nat, terms : Nat]
        /\ book[n].rank = 0 <=> book[n].terms = 0
        /\ book[m].rank = 0 <=> book[m].terms = 0
        /\ book[n].terms \in 0..MaxTerms /\ book[m].terms \in 0..MaxTerms
    BY <1>1 DEF Types, Sound, Books
  <2>2. ~Beats(book[m], book[n]) /\ ~Beats(book[n], book[m])
    BY <1>1 DEF Merged
  <2>3. book[n].rank = book[m].rank
    BY <2>1, <2>2 DEF Beats
  <2>4. book[n].terms = book[m].terms
    <3>1. CASE book[n].rank = 0
      BY <2>1, <2>3, <3>1
    <3>2. CASE book[n].rank # 0
      <4>1. book[n].terms \in Terms /\ book[m].terms \in Terms
        BY <2>1, <2>3, <3>2 DEF Terms
      <4>2. /\ Bytes(book[n].terms) \in Nat /\ Bytes(book[m].terms) \in Nat
            /\ Bytes(book[n].terms) = Bytes(book[m].terms) => book[n].terms = book[m].terms
        BY <4>1
      <4> QED BY <2>2, <2>3, <4>2 DEF Beats
    <3> QED BY <3>1, <3>2
  <2> QED BY <2>1, <2>3, <2>4
<1>2. ASSUME Types, Merged, running, OnlyPresentTerms, NEW n \in Node,
             NEW m \in Node, book[m].terms # 0
      PROVE  book[n].terms = terms
  <2>1. book[n] = book[m]
    BY <1>1, <1>2 DEF Up
  <2> QED BY <1>2, <2>1 DEF Types, OnlyPresentTerms
<1>3. Types => MergedBooksAgree
  BY <1>1, <1>2 DEF MergedBooksAgree
<1> QED BY <1>3, TypesHold, PTL
=============================================================================

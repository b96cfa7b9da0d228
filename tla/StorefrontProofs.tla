--------------------------- MODULE StorefrontProofs ---------------------------
(***************************************************************************)
(* Proofs about the parts of Storefront, for every number of products,     *)
(* reviews, viewers and requests.  What a row keeps of other tables is     *)
(* right because of what its writers hold or have read before, so that     *)
(* each part has an inductive invariant about its requests under way.      *)
(***************************************************************************)
EXTENDS Storefront, FiniteSetTheorems, SequenceTheorems, WellFoundedInduction, TLAPS

-----------------------------------------------------------------------------
\* The images of a product.

\* A step of the storefront is a step of its images, or leaves them alone.
LEMMA ImageStep == [Next]_vars => [TheImages!Next]_imageVars
<1>1. ASSUME UNCHANGED vars PROVE UNCHANGED imageVars
  BY <1>1 DEF vars, imageVars
<1>2. ASSUME Next PROVE TheImages!Next \/ UNCHANGED imageVars
  BY <1>2 DEF Next
<1> QED BY <1>1, <1>2 DEF imageVars, TheImages!imageVars

\* Only images there are are marked.
ImageInv ==
  /\ images \subseteq Images
  /\ flagged \subseteq images
  /\ MainImageShown

LEMMA ImageKept == ImageInv /\ [TheImages!Next]_imageVars => ImageInv'
<1> SUFFICES ASSUME ImageInv, [TheImages!Next]_imageVars
             PROVE  ImageInv'
  OBVIOUS
<1> USE ImagesAssumption DEF ImageInv, MainImageShown, TheImages!MainImageShown
<1>1. ASSUME NEW image \in Images, NEW isMain \in BOOLEAN, TheImages!SaveImage(image, isMain)
      PROVE  ImageInv'
  <2>1. CASE isMain
    BY <1>1, <2>1 DEF TheImages!SaveImage, TheImages!Sync, TheImages!MayFlag
  <2>2. CASE ~isMain
    BY <1>1, <2>2 DEF TheImages!SaveImage, TheImages!Sync
  <2> QED BY <2>1, <2>2
<1>2. ASSUME NEW image \in Images, TheImages!DeleteImage(image)
      PROVE  ImageInv'
  BY <1>2 DEF TheImages!DeleteImage
<1>3. ASSUME NEW e \in Requests, TheImages!SaveProduct(e)
      PROVE  ImageInv'
  BY <1>3 DEF TheImages!SaveProduct
<1>4. CASE UNCHANGED <<images, flagged, mainImage, reverted>>
  BY <1>4
<1>5. ASSUME NEW e \in Requests, TheImages!ReadProduct(e) \/ TheImages!Fail(e)
      PROVE  UNCHANGED <<images, flagged, mainImage, reverted>>
  BY <1>5 DEF TheImages!ReadProduct, TheImages!Fail
<1>6. UNCHANGED imageVars => UNCHANGED <<images, flagged, mainImage, reverted>>
  BY DEF imageVars
<1> QED BY <1>1, <1>2, <1>3, <1>4, <1>5, <1>6 DEF TheImages!Next

\* The image shown is the marked one, for every number of images and edits.
THEOREM ShownIsMarked == Spec => []MainImageShown
<1>1. Init => ImageInv
  BY DEF Init, TheImages!Init, ImageInv, MainImageShown, TheImages!MainImageShown
<1>2. ImageInv => MainImageShown
  BY DEF ImageInv
<1> QED BY <1>1, <1>2, ImageStep, ImageKept, PTL DEF Spec

-----------------------------------------------------------------------------
\* The wishlist.

\* A step of the storefront is a step of its wishlist, or leaves it alone.
LEMMA WishStep == [Next]_vars => [TheWishes!Next]_wishVars
<1>1. ASSUME UNCHANGED vars PROVE UNCHANGED wishVars
  BY <1>1 DEF vars, wishVars
<1>2. ASSUME Next PROVE TheWishes!Next \/ UNCHANGED wishVars
  BY <1>2 DEF Next
<1> QED BY <1>1, <1>2 DEF wishVars, TheWishes!wishVars

\* Items have the keys that were given out, and a request that adds has seen
\* the one variant it adds.
WishInv ==
  /\ lastPk \in Nat
  /\ IsFiniteSet(items)
  /\ \A item \in items : item.pk \in Nat /\ item.pk <= lastPk
  /\ DOMAIN tab = Requests /\ tab = [t \in Requests |-> tab[t]]
  /\ \A t \in Requests : TheWishes!At(t, "adding") => \E v : tab[t].seen = {v}
  /\ ItemsCounted

\* Counted in the part or here, a set has one cardinality.
LEMMA WishCardinality == \A S : TheWishes!Cardinality(S) = Cardinality(S)
BY DEF TheWishes!Cardinality, Cardinality

\* Items that are still there are deleted and counted down by their number.
LEMMA DeletedCounted ==
  ASSUME WishInv, NEW t \in Requests, NEW gone, TheWishes!Delete(t, gone), UNCHANGED lastPk
  PROVE  WishInv'
<1>1. items' = items \ gone /\ IsFiniteSet(items')
  BY FS_Subset, FS_Difference DEF TheWishes!Delete, WishInv
<1>2. ASSUME ~drifted'
      PROVE  itemsCount' = Cardinality(items')
  <2>1. gone \subseteq items /\ ~drifted
    BY <1>2 DEF TheWishes!Delete
  <2>2. itemsCount = Cardinality(items)
    BY <2>1, WishCardinality DEF WishInv, ItemsCounted, TheWishes!ItemsCounted
  <2>3. IsFiniteSet(gone) /\ Cardinality(gone) <= Cardinality(items)
    BY <2>1, FS_Subset DEF WishInv
  <2>4. Cardinality(items) \in Nat /\ Cardinality(gone) \in Nat
    BY <2>3, FS_CardinalityType DEF WishInv
  <2>5. Cardinality(items \ gone) = Cardinality(items) - Cardinality(items \cap gone)
    BY FS_Difference DEF WishInv
  <2>6. items \cap gone = gone
    BY <2>1
  <2>7. itemsCount' = TheWishes!Less(Cardinality(gone))
    BY WishCardinality DEF TheWishes!Delete
  <2> QED BY <1>1, <2>2, <2>3, <2>4, <2>5, <2>6, <2>7 DEF TheWishes!Less
<1>3. \A u \in Requests : TheWishes!At(u, "adding")' => TheWishes!At(u, "adding") /\ tab'[u] = tab[u]
  BY DEF TheWishes!Delete, TheWishes!At, TheWishes!Idle, WishInv
<1>4. ItemsCounted'
  BY <1>2, WishCardinality DEF ItemsCounted, TheWishes!ItemsCounted
<1>5. /\ \A item \in items' : item.pk \in Nat /\ item.pk <= lastPk'
      /\ DOMAIN tab' = Requests /\ tab' = [u \in Requests |-> tab'[u]]
  BY <1>1 DEF WishInv, TheWishes!Delete
<1>6. \A u \in Requests : TheWishes!At(u, "adding")' => \E v : tab'[u].seen = {v}
  <2> SUFFICES ASSUME NEW u \in Requests, TheWishes!At(u, "adding")'
               PROVE  \E v : tab'[u].seen = {v}
    OBVIOUS
  <2>1. TheWishes!At(u, "adding") /\ tab'[u] = tab[u]
    BY <1>3
  <2>2. PICK v : tab[u].seen = {v}
    BY <2>1 DEF WishInv
  <2> QED BY <2>1, <2>2
<1> QED BY <1>1, <1>4, <1>5, <1>6 DEF WishInv

\* A step that neither touches the rows nor lets a request add.
LEMMA RowsLeft ==
  ASSUME WishInv, UNCHANGED <<items, lastPk, itemsCount, drifted>>,
         DOMAIN tab' = Requests, tab' = [u \in Requests |-> tab'[u]],
         \A u \in Requests : TheWishes!At(u, "adding")' => \E v : tab'[u].seen = {v}
  PROVE  WishInv'
BY DEF WishInv, ItemsCounted, TheWishes!ItemsCounted

LEMMA TabKept ==
  ASSUME WishInv, NEW t \in Requests, TheWishes!TabNext(t)
  PROVE  WishInv'
<1>0. /\ DOMAIN tab = Requests /\ tab = [u \in Requests |-> tab[u]]
      /\ \A u \in Requests : TheWishes!At(u, "adding") => \E v : tab[u].seen = {v}
  BY DEF WishInv
<1>1. ASSUME NEW v \in Wished, TheWishes!LookToAdd(t, v)
      PROVE  WishInv'
  <2>1. \A u \in Requests : TheWishes!At(u, "adding")' => \E x : tab'[u].seen = {x}
    BY <1>0, <1>1 DEF TheWishes!LookToAdd, TheWishes!Looked, TheWishes!At
  <2> QED BY <1>0, <1>1, <2>1, RowsLeft DEF TheWishes!LookToAdd, TheWishes!Looked
<1>2. ASSUME NEW step, step # "adding", NEW seen, TheWishes!Looked(t, step, seen)
      PROVE  WishInv'
  <2>1. \A u \in Requests : TheWishes!At(u, "adding")' => \E x : tab'[u].seen = {x}
    BY <1>0, <1>2 DEF TheWishes!Looked, TheWishes!At
  <2> QED BY <1>0, <1>2, <2>1, RowsLeft DEF TheWishes!Looked
<1>3. CASE TheWishes!Refuse(t)
  <2>1. \A u \in Requests : TheWishes!At(u, "adding")' => \E x : tab'[u].seen = {x}
    BY <1>0, <1>3 DEF TheWishes!Refuse, TheWishes!At, TheWishes!Idle
  <2> QED BY <1>0, <1>3, <2>1, RowsLeft DEF TheWishes!Refuse
<1>4. CASE TheWishes!AddItem(t)
  <2>1. PICK v : tab[t].seen = {v}
    BY <1>0, <1>4 DEF TheWishes!AddItem
  <2>2. PICK pk \in Nat : pk = lastPk + 1
    BY DEF WishInv
  <2>3. lastPk' = pk /\ items' = items \cup {[variant |-> v, pk |-> pk]}
    BY <1>4, <2>1, <2>2 DEF TheWishes!AddItem
  <2>4. [variant |-> v, pk |-> pk] \notin items
    BY <2>2 DEF WishInv
  <2>5. IsFiniteSet(items') /\ Cardinality(items') = Cardinality(items) + 1
    BY <2>3, <2>4, FS_AddElement DEF WishInv
  <2>6. ItemsCounted'
    BY <1>4, <2>5, WishCardinality
       DEF WishInv, ItemsCounted, TheWishes!ItemsCounted, TheWishes!AddItem
  <2>7. \A item \in items' : item.pk \in Nat /\ item.pk <= lastPk'
    BY <2>2, <2>3 DEF WishInv
  <2>8. \A u \in Requests : TheWishes!At(u, "adding")' => \E x : tab'[u].seen = {x}
    BY <1>0, <1>4 DEF TheWishes!AddItem, TheWishes!At, TheWishes!Idle
  <2>9. DOMAIN tab' = Requests /\ tab' = [u \in Requests |-> tab'[u]]
    BY <1>0, <1>4 DEF TheWishes!AddItem
  <2> QED BY <2>2, <2>3, <2>5, <2>6, <2>7, <2>8, <2>9 DEF WishInv
<1>5. CASE TheWishes!RemoveItem(t)
  BY <1>5, DeletedCounted DEF TheWishes!RemoveItem
<1>6. CASE TheWishes!MoveToCart(t)
  BY <1>6, DeletedCounted DEF TheWishes!MoveToCart
<1>7. CASE TheWishes!Clear(t)
  <2>1. IsFiniteSet(items')
    BY <1>7, FS_Difference DEF TheWishes!Clear, WishInv
  <2>2. ItemsCounted'
    BY <1>7, FS_EmptySet, WishCardinality
       DEF WishInv, ItemsCounted, TheWishes!ItemsCounted, TheWishes!Clear
  <2>3. \A u \in Requests : TheWishes!At(u, "adding")' => \E x : tab'[u].seen = {x}
    BY <1>0, <1>7 DEF TheWishes!Clear, TheWishes!At, TheWishes!Idle
  <2>4. DOMAIN tab' = Requests /\ tab' = [u \in Requests |-> tab'[u]]
    BY <1>0, <1>7 DEF TheWishes!Clear
  <2> QED BY <1>7, <2>1, <2>2, <2>3, <2>4 DEF WishInv, TheWishes!Clear
<1> QED BY <1>1, <1>2, <1>3, <1>4, <1>5, <1>6, <1>7
        DEF TheWishes!TabNext, TheWishes!LookToRemove, TheWishes!LookToMove, TheWishes!LookToClear

LEMMA WishKept == WishInv /\ [TheWishes!Next]_wishVars => WishInv'
<1> SUFFICES ASSUME WishInv, [TheWishes!Next]_wishVars
             PROVE  WishInv'
  OBVIOUS
<1>1. ASSUME NEW v \in Wished, TheWishes!DeleteVariant(v)
      PROVE  WishInv'
  <2>1. IsFiniteSet(items') /\ items' \subseteq items
    BY <1>1, FS_Difference DEF TheWishes!DeleteVariant, WishInv
  <2>2. items' = items \/ drifted'
    BY <1>1 DEF TheWishes!DeleteVariant
  <2>3. ItemsCounted'
    BY <1>1, <2>2 DEF WishInv, ItemsCounted, TheWishes!ItemsCounted, TheWishes!DeleteVariant
  <2> QED BY <1>1, <2>1, <2>3 DEF WishInv, TheWishes!DeleteVariant, TheWishes!At
<1>2. CASE UNCHANGED <<items, lastPk, itemsCount, tab, drifted>>
  BY <1>2 DEF WishInv, ItemsCounted, TheWishes!ItemsCounted, TheWishes!At
<1>3. \A v \in Wished : TheWishes!OfferChanges(v) => UNCHANGED <<items, lastPk, itemsCount, tab, drifted>>
  BY DEF TheWishes!OfferChanges
<1>4. TheWishes!CheckOut \/ UNCHANGED wishVars => UNCHANGED <<items, lastPk, itemsCount, tab, drifted>>
  BY DEF TheWishes!CheckOut, wishVars
<1> QED BY <1>1, <1>2, <1>3, <1>4, TabKept DEF TheWishes!Next

\* The counter is the number of items, for every number of tabs and variants.
THEOREM WishesCounted == Spec => []ItemsCounted
<1>1. Init => WishInv
  BY FS_EmptySet, WishCardinality
     DEF Init, TheWishes!Init, WishInv, ItemsCounted, TheWishes!ItemsCounted, TheWishes!At,
         TheWishes!Idle
<1>2. WishInv => ItemsCounted
  BY DEF WishInv
<1> QED BY <1>1, <1>2, WishStep, WishKept, PTL DEF Spec

-----------------------------------------------------------------------------
\* The reviews of a product.

\* A step of the storefront is a step of its reviews, or leaves them alone.
LEMMA ReviewStep == [Next]_vars => [TheReviews!Next]_reviewVars
<1>1. ASSUME UNCHANGED vars PROVE UNCHANGED reviewVars
  BY <1>1 DEF vars, reviewVars
<1>2. ASSUME Next PROVE TheReviews!Next \/ UNCHANGED reviewVars
  BY <1>2 DEF Next
<1> QED BY <1>1, <1>2 DEF reviewVars, TheReviews!reviewVars

ReviewRows == [id : Nat \ {0}, rating : Ratings, approved : BOOLEAN, yes : Nat, no : Nat]

\* A request under way holds the row it has changed, whose form depends on
\* what it has read, and the product once it has computed the rating.
UnderWay(c) ==
  \/ client[c] = TheReviews!Idle \/ client[c].step = "editing"
  \/ /\ client[c].step = "read"
     /\ client[c].author \in Authors /\ client[c].change \in TheReviews!Changes
     /\ client[c].change.kind \in {"edit", "admin"} => client[c].copy \in ReviewRows
     /\ client[c].change.kind = "moderate" => client[c].copy.id \in Nat \ {0}
  \/ /\ client[c].step \in {"changed", "aggregated"}
     /\ client[c].author \in Authors /\ rowLock[client[c].author] = c
     /\ client[c].row \in ReviewRows \cup {TheReviews!NoReview}
     /\ client[c].kind = "create" =>
          /\ reviews[client[c].author] = TheReviews!NoReview
          /\ client[c].row \in ReviewRows /\ client[c].row.yes = 0 /\ client[c].row.no = 0

RowsTyped ==
  /\ reviews \in [Authors -> ReviewRows \cup {TheReviews!NoReview}]
  /\ votes \in [Authors -> [Voters -> {"none", "yes", "no"}]]
  /\ DOMAIN rowLock = Authors /\ rowLock = [a \in Authors |-> rowLock[a]]
  /\ DOMAIN client = Requests /\ client = [c \in Requests |-> client[c]]
  /\ ids \in Nat
  /\ \A c \in Requests : UnderWay(c)

\* A review that does not exist has no votes.
NoneWithoutReview ==
  \A a \in Authors : ~TheReviews!Exists(a) => \A v \in Voters : votes[a][v] = "none"

\* Who has computed the rating holds the product, and nothing that counts has
\* changed since.
RatingsHold ==
  \A c \in Requests : TheReviews!At(c, "aggregated") =>
    /\ statsLock = c
    /\ client[c].stats = TheReviews!StatsOf([reviews EXCEPT ![client[c].author] = client[c].row])

ReviewInv == RowsTyped /\ NoneWithoutReview /\ HelpfulMatchesVotes /\ RatingsHold /\ StatsCurrent

SumOfRatings(of, S) == TheReviews!MapThenSumSet(LAMBDA a : of[a].rating, S)

\* Equal summands have equal sums, in whichever order they are taken.
LEMMA SameSum ==
  ASSUME NEW one, NEW other, NEW S, \A a \in S : one[a].rating = other[a].rating
  PROVE  SumOfRatings(one, S) = SumOfRatings(other, S)
<1> DEFINE Sums(of, iter) ==
             [s \in SUBSET S |-> IF s = {} THEN 0
                                 ELSE LET x == CHOOSE e \in s : TRUE
                                      IN  of[x].rating + iter[s \ {x}]]
<1>1. ASSUME NEW iter PROVE Sums(one, iter) = Sums(other, iter)
  OBVIOUS
<1>2. \A iter : (iter = Sums(one, iter)) <=> (iter = Sums(other, iter))
  BY <1>1
<1>3. (CHOOSE iter : iter = Sums(one, iter)) = (CHOOSE iter : iter = Sums(other, iter))
  <2> HIDE DEF Sums
  <2> QED BY <1>2, Zenon
<1>4. SumOfRatings(one, S) = (CHOOSE iter : iter = Sums(one, iter))[S]
  BY Zenon DEF SumOfRatings, TheReviews!MapThenSumSet, TheReviews!MapThenFoldSet
<1>5. SumOfRatings(other, S) = (CHOOSE iter : iter = Sums(other, iter))[S]
  BY Zenon DEF SumOfRatings, TheReviews!MapThenSumSet, TheReviews!MapThenFoldSet
<1> QED BY <1>3, <1>4, <1>5

\* The rating is of the reviews' own columns, not of the votes on them.
LEMMA VotesDoNotCount ==
  ASSUME NEW one, NEW other,
         \A a \in Authors :
           /\ one[a] = TheReviews!NoReview <=> other[a] = TheReviews!NoReview
           /\ one[a] # TheReviews!NoReview =>
                /\ one[a].approved <=> other[a].approved
                /\ one[a].rating = other[a].rating
  PROVE  TheReviews!StatsOf(one) = TheReviews!StatsOf(other)
<1> DEFINE Approved(of) == {a \in Authors : of[a] # TheReviews!NoReview /\ of[a].approved}
<1>1. PICK S : S = Approved(one) /\ S = Approved(other)
  OBVIOUS
<1>2. \A a \in S : one[a].rating = other[a].rating
  BY <1>1
<1>3. SumOfRatings(one, S) = SumOfRatings(other, S)
  BY <1>2, SameSum
<1> QED BY <1>1, <1>3, Zenon DEF SumOfRatings, TheReviews!StatsOf

\* The counters stay right while reviews and votes stay as they are.
LEMMA HelpfulUnchanged ==
  ASSUME HelpfulMatchesVotes, reviews' = reviews, votes' = votes, clobbered' = clobbered
  PROVE  HelpfulMatchesVotes'
<1> SUFFICES ASSUME NEW b \in Authors, b \notin clobbered', reviews'[b] # TheReviews!NoReview,
                    NEW vote \in {"yes", "no"}
             PROVE  (IF vote = "yes" THEN reviews'[b].yes ELSE reviews'[b].no)
                      = TheReviews!Cardinality({v \in Voters : votes'[b][v] = vote})
  BY DEF HelpfulMatchesVotes, TheReviews!HelpfulMatchesVotes, TheReviews!Exists
<1>1. /\ reviews'[b] = reviews[b] /\ votes'[b] = votes[b]
      /\ b \notin clobbered /\ reviews[b] # TheReviews!NoReview
  OBVIOUS
<1>2. (IF vote = "yes" THEN reviews[b].yes ELSE reviews[b].no)
        = TheReviews!Cardinality({v \in Voters : votes[b][v] = vote})
  BY <1>1 DEF HelpfulMatchesVotes, TheReviews!HelpfulMatchesVotes, TheReviews!Exists
<1> QED BY <1>1, <1>2

\* A request goes on, and may take or free locks that no other one holds.
LEMMA ClientMoves ==
  ASSUME ReviewInv, NEW c \in Requests, NEW now, client' = [client EXCEPT ![c] = now],
         UNCHANGED <<reviews, votes, stats, restored, clobbered>>, ids' \in Nat,
         DOMAIN rowLock' = Authors, rowLock' = [a \in Authors |-> rowLock'[a]],
         \A a \in Authors : rowLock[a] \notin {"free", c} => rowLock'[a] = rowLock[a],
         statsLock \notin {"free", c} => statsLock' = statsLock,
         UnderWay(c)',
         TheReviews!At(c, "aggregated")' =>
           /\ statsLock' = c
           /\ now.stats = TheReviews!StatsOf([reviews EXCEPT ![now.author] = now.row])
  PROVE  ReviewInv'
<1> USE RequestsAssumption
<1>1. /\ DOMAIN client' = Requests /\ client' = [d \in Requests |-> client'[d]]
      /\ client'[c] = now
      /\ \A d \in Requests : d # c => client'[d] = client[d]
  BY DEF ReviewInv, RowsTyped
<1>2. \A d \in Requests : UnderWay(d)'
  <2> SUFFICES ASSUME NEW d \in Requests, d # c
               PROVE  UnderWay(d)'
    OBVIOUS
  <2>1. UnderWay(d) /\ client'[d] = client[d]
    BY <1>1 DEF ReviewInv, RowsTyped
  <2>2. ASSUME client[d].author \in Authors, rowLock[client[d].author] = d
        PROVE  rowLock'[client[d].author] = d
    BY <2>2
  <2> QED BY <2>1, <2>2 DEF UnderWay
<1>3. RatingsHold'
  <2> SUFFICES ASSUME NEW d \in Requests, TheReviews!At(d, "aggregated")'
               PROVE  /\ statsLock' = d
                      /\ client'[d].stats
                           = TheReviews!StatsOf([reviews EXCEPT ![client'[d].author] = client'[d].row])
    BY DEF RatingsHold
  <2>1. CASE d = c
    BY <1>1, <2>1
  <2>2. CASE d # c
    <3>1. TheReviews!At(d, "aggregated") /\ client'[d] = client[d]
      BY <1>1, <2>2 DEF TheReviews!At
    <3>2. /\ statsLock = d
          /\ client[d].stats = TheReviews!StatsOf([reviews EXCEPT ![client[d].author] = client[d].row])
      BY <3>1 DEF ReviewInv, RatingsHold
    <3> QED BY <2>2, <3>1, <3>2
  <2> QED BY <2>1, <2>2
<1>4. RowsTyped'
  BY <1>1, <1>2 DEF ReviewInv, RowsTyped
<1>5. NoneWithoutReview'
  BY DEF ReviewInv, NoneWithoutReview, TheReviews!Exists
<1>6. HelpfulMatchesVotes'
  BY HelpfulUnchanged DEF ReviewInv
<1>7. StatsCurrent'
  BY DEF ReviewInv, StatsCurrent, TheReviews!StatsCurrent
<1> QED BY <1>3, <1>4, <1>5, <1>6, <1>7 DEF ReviewInv

LEMMA ReadKept ==
  ASSUME ReviewInv, NEW c \in Requests, NEW asked \in RequestedReviews,
         TheReviews!Read(c, asked.author, asked.change)
  PROVE  ReviewInv'
<1>1. PICK a \in Authors, change \in TheReviews!Changes : a = asked.author /\ change = asked.change
  BY ReviewsAssumption
<1>2. PICK now : now = [step |-> "read", author |-> a, change |-> change,
                        copy |-> IF change.kind \in {"edit", "admin"} THEN reviews[a]
                                 ELSE [id |-> reviews[a].id]]
  OBVIOUS
<1>3. /\ client' = [client EXCEPT ![c] = now]
      /\ UNCHANGED <<reviews, votes, stats, rowLock, statsLock, ids, restored, clobbered>>
      /\ TheReviews!Exists(a) <=> change.kind # "create"
  BY <1>1, <1>2 DEF TheReviews!Read
<1>4. client'[c] = now
  BY <1>3 DEF ReviewInv, RowsTyped
<1>5. change.kind # "create" => reviews[a] \in ReviewRows
  BY <1>3 DEF TheReviews!Exists, ReviewInv, RowsTyped
<1>6. change.kind # "create" => reviews[a].id \in Nat \ {0}
  BY <1>5 DEF ReviewRows
<1>7. /\ change.kind \in {"edit", "admin"} => now.copy \in ReviewRows
      /\ change.kind = "moderate" => now.copy.id \in Nat \ {0}
  BY <1>2, <1>5, <1>6
<1>8. now.step = "read" /\ now.author = a /\ now.change = change
  BY <1>2
<1>9. UnderWay(c)'
  BY <1>4, <1>7, <1>8 DEF UnderWay
<1>10. ~TheReviews!At(c, "aggregated")'
  BY <1>4, <1>8 DEF TheReviews!At
<1>11. /\ ids' \in Nat /\ DOMAIN rowLock' = Authors /\ rowLock' = [b \in Authors |-> rowLock'[b]]
       /\ \A b \in Authors : rowLock[b] \notin {"free", c} => rowLock'[b] = rowLock[b]
  BY <1>3 DEF ReviewInv, RowsTyped
<1> QED BY <1>3, <1>9, <1>10, <1>11, ClientMoves

\* A row that is changed keeps the columns of the table.
LEMMA ChangedRow ==
  ASSUME NEW now \in ReviewRows \cup {TheReviews!NoReview}, NEW change \in TheReviews!Changes, NEW copy,
         change.kind \in {"edit", "admin"} => copy \in ReviewRows,
         change.kind = "moderate" => copy.id \in Nat \ {0},
         TheReviews!Works(now, copy, change), ids \in Nat
  PROVE  /\ TheReviews!Changed(now, copy, change) \in ReviewRows \cup {TheReviews!NoReview}
         /\ change.kind = "create" =>
              /\ TheReviews!Changed(now, copy, change) \in ReviewRows
              /\ TheReviews!Changed(now, copy, change).yes = 0
              /\ TheReviews!Changed(now, copy, change).no = 0
              /\ now = TheReviews!NoReview
<1> change.kind \in {"create", "edit", "moderate", "admin", "delete"}
  BY DEF TheReviews!Changes
<1>1. CASE change.kind = "create"
  <2>1. change.rating \in Ratings
    BY <1>1 DEF TheReviews!Changes
  <2>2. TheReviews!Changed(now, copy, change)
          = [id |-> ids + 1, rating |-> change.rating, approved |-> TRUE, yes |-> 0, no |-> 0]
    BY <1>1 DEF TheReviews!Changed
  <2> QED BY <1>1, <2>1, <2>2 DEF ReviewRows, TheReviews!Works
<1>2. CASE change.kind = "edit"
  <2>1. change.rating \in Ratings
    BY <1>2 DEF TheReviews!Changes
  <2>2. TheReviews!Changed(now, copy, change) = [copy EXCEPT !.rating = change.rating]
    BY <1>2 DEF TheReviews!Changed, TheReviews!Saved
  <2> QED BY <1>2, <2>1, <2>2 DEF ReviewRows
<1>3. CASE change.kind = "moderate"
  <2>1. change.approve \in BOOLEAN
    BY <1>3 DEF TheReviews!Changes
  <2>2. TheReviews!Changed(now, copy, change) = [now EXCEPT !.approved = change.approve]
    BY <1>3 DEF TheReviews!Changed
  <2>3. now.id \in Nat \ {0}
    BY <1>3 DEF TheReviews!Works
  <2>4. now \in ReviewRows
    BY <2>3 DEF TheReviews!NoReview
  <2> QED BY <1>3, <2>1, <2>2, <2>4 DEF ReviewRows
<1>4. CASE change.kind = "admin"
  <2>1. change.rating \in Ratings /\ change.approve \in BOOLEAN
    BY <1>4 DEF TheReviews!Changes
  <2>2. PICK rated : rated = [copy EXCEPT !.rating = change.rating]
    OBVIOUS
  <2>3. rated \in ReviewRows
    BY <1>4, <2>1, <2>2 DEF ReviewRows
  <2>4. TheReviews!Changed(now, copy, change) = [rated EXCEPT !.approved = change.approve]
    BY <1>4, <2>2 DEF TheReviews!Changed
  <2>5. [rated EXCEPT !.approved = change.approve] \in ReviewRows
    BY <2>1, <2>3 DEF ReviewRows
  <2> QED BY <1>4, <2>4, <2>5
<1>5. CASE change.kind = "delete"
  BY <1>5 DEF TheReviews!Changed
<1> QED BY <1>1, <1>2, <1>3, <1>4, <1>5

LEMMA ChangeKept ==
  ASSUME ReviewInv, NEW c \in Requests, TheReviews!ChangeReview(c)
  PROVE  ReviewInv'
<1> USE RequestsAssumption
<1>1. PICK a, change, copy :
        /\ a \in Authors /\ change \in TheReviews!Changes
        /\ a = client[c].author /\ change = client[c].change /\ copy = client[c].copy
        /\ change.kind \in {"edit", "admin"} => copy \in ReviewRows
        /\ change.kind = "moderate" => copy.id \in Nat \ {0}
  BY DEF ReviewInv, RowsTyped, UnderWay, TheReviews!ChangeReview, TheReviews!At, TheReviews!Idle
<1>2. PICK now : now = [step |-> "changed", author |-> a, kind |-> change.kind,
                        row |-> TheReviews!Changed(reviews[a], copy, change)]
  OBVIOUS
<1>3. /\ rowLock[a] = "free"
      /\ TheReviews!Works(reviews[a], copy, change)
      /\ rowLock' = [rowLock EXCEPT ![a] = c]
      /\ client' = [client EXCEPT ![c] = now]
      /\ ids' = IF change.kind = "create" THEN ids + 1 ELSE ids
      /\ UNCHANGED <<reviews, votes, stats, statsLock, restored, clobbered>>
  BY <1>1, <1>2 DEF TheReviews!ChangeReview, TheReviews!Free, TheReviews!Kind
<1>4. ids \in Nat /\ reviews[a] \in ReviewRows \cup {TheReviews!NoReview}
  BY <1>1 DEF ReviewInv, RowsTyped
<1>5. /\ now.row \in ReviewRows \cup {TheReviews!NoReview}
      /\ now.kind = "create" => /\ reviews[a] = TheReviews!NoReview
                                /\ now.row \in ReviewRows /\ now.row.yes = 0 /\ now.row.no = 0
  <2>1. now.kind = change.kind /\ now.row = TheReviews!Changed(reviews[a], copy, change)
    BY <1>2
  <2> QED BY <1>1, <1>3, <1>4, <2>1, ChangedRow
<1>6. client'[c] = now /\ now.step = "changed" /\ now.author = a
  BY <1>2, <1>3 DEF ReviewInv, RowsTyped
<1>7. /\ DOMAIN rowLock' = Authors /\ rowLock' = [b \in Authors |-> rowLock'[b]]
      /\ rowLock'[a] = c
      /\ \A b \in Authors : rowLock[b] \notin {"free", c} => rowLock'[b] = rowLock[b]
  BY <1>1, <1>3 DEF ReviewInv, RowsTyped
<1>8. UnderWay(c)'
  BY <1>3, <1>5, <1>6, <1>7 DEF UnderWay
<1>9. ~TheReviews!At(c, "aggregated")'
  BY <1>6 DEF TheReviews!At
<1>10. ids' \in Nat
  BY <1>3, <1>4
<1> QED BY <1>3, <1>7, <1>8, <1>9, <1>10, ClientMoves

LEMMA AggregateKept ==
  ASSUME ReviewInv, NEW c \in Requests, TheReviews!Aggregate(c)
  PROVE  ReviewInv'
<1>1. /\ client[c].step = "changed"
      /\ client[c].author \in Authors /\ rowLock[client[c].author] = c
      /\ client[c].row \in ReviewRows \cup {TheReviews!NoReview}
      /\ client[c].kind = "create" =>
           /\ reviews[client[c].author] = TheReviews!NoReview
           /\ client[c].row \in ReviewRows /\ client[c].row.yes = 0 /\ client[c].row.no = 0
  BY DEF ReviewInv, RowsTyped, UnderWay, TheReviews!Aggregate, TheReviews!At, TheReviews!Idle
<1>2. PICK now : now = [step |-> "aggregated", author |-> client[c].author, row |-> client[c].row,
                        kind |-> client[c].kind,
                        stats |-> TheReviews!StatsOf([reviews EXCEPT ![client[c].author] = client[c].row])]
  OBVIOUS
<1>3. /\ client' = [client EXCEPT ![c] = now]
      /\ statsLock = "free" /\ statsLock' = c
      /\ UNCHANGED <<reviews, votes, stats, rowLock, ids, restored, clobbered>>
  BY <1>2 DEF TheReviews!Aggregate, TheReviews!Free, ReviewInv, RowsTyped
<1>4. client'[c] = now
  BY <1>3 DEF ReviewInv, RowsTyped
<1>5. /\ now.step = "aggregated" /\ now.author = client[c].author /\ now.row = client[c].row
      /\ now.kind = client[c].kind
      /\ now.stats = TheReviews!StatsOf([reviews EXCEPT ![now.author] = now.row])
  BY <1>2
<1>6. UnderWay(c)'
  <2>1. now.kind = "create" => /\ reviews[now.author] = TheReviews!NoReview
                               /\ now.row \in ReviewRows /\ now.row.yes = 0 /\ now.row.no = 0
    BY <1>1, <1>5
  <2>2. now.author \in Authors /\ rowLock[now.author] = c /\ now.row \in ReviewRows \cup {TheReviews!NoReview}
    BY <1>1, <1>5
  <2>3. reviews' = reviews /\ rowLock' = rowLock
    BY <1>3
  <2> QED BY <1>4, <1>5, <2>1, <2>2, <2>3 DEF UnderWay
<1>7. /\ ids' \in Nat /\ DOMAIN rowLock' = Authors /\ rowLock' = [b \in Authors |-> rowLock'[b]]
      /\ \A b \in Authors : rowLock[b] \notin {"free", c} => rowLock'[b] = rowLock[b]
  BY <1>3 DEF ReviewInv, RowsTyped
<1> QED BY <1>3, <1>5, <1>6, <1>7, ClientMoves

\* A request that ends without a change, and one that edits the product.
LEMMA EndKept ==
  ASSUME ReviewInv, NEW c \in Requests, TheReviews!Abort(c) \/ TheReviews!ReadProduct(c)
  PROVE  ReviewInv'
<1>1. PICK now : client' = [client EXCEPT ![c] = now] /\ now.step \notin {"changed", "aggregated", "read"}
                 /\ (now = TheReviews!Idle \/ now.step = "editing")
  BY DEF TheReviews!Abort, TheReviews!Released, TheReviews!ReadProduct, TheReviews!Idle
<1>2. client'[c] = now
  BY <1>1 DEF ReviewInv, RowsTyped
<1>3. UnderWay(c)' /\ ~TheReviews!At(c, "aggregated")'
  BY <1>1, <1>2 DEF UnderWay, TheReviews!At
<1>4. /\ DOMAIN rowLock' = Authors /\ rowLock' = [b \in Authors |-> rowLock'[b]]
      /\ \A b \in Authors : rowLock[b] \notin {"free", c} => rowLock'[b] = rowLock[b]
      /\ statsLock \notin {"free", c} => statsLock' = statsLock
  BY DEF ReviewInv, RowsTyped, TheReviews!Abort, TheReviews!Released, TheReviews!ReadProduct
<1>5. ids' \in Nat /\ UNCHANGED <<reviews, votes, stats, restored, clobbered>>
  BY DEF ReviewInv, RowsTyped, TheReviews!Abort, TheReviews!ReadProduct
<1> QED BY <1>1, <1>3, <1>4, <1>5, ClientMoves

LEMMA SaveKept ==
  ASSUME ReviewInv, NEW c \in Requests, TheReviews!SaveProduct(c)
  PROVE  ReviewInv'
<1>1. /\ client' = [client EXCEPT ![c] = TheReviews!Idle]
      /\ UNCHANGED <<reviews, votes, rowLock, statsLock, ids, clobbered>>
      /\ stats' = client[c].copy /\ restored' = (restored \/ client[c].copy # stats)
      /\ statsLock = "free"
  BY DEF TheReviews!SaveProduct, TheReviews!Free
<1>2. client'[c] = TheReviews!Idle /\ \A d \in Requests : d # c => client'[d] = client[d]
  BY <1>1 DEF ReviewInv, RowsTyped
<1>3. \A d \in Requests : UnderWay(d)'
  BY <1>1, <1>2 DEF ReviewInv, RowsTyped, UnderWay
<1>4. RatingsHold'
  BY <1>1, <1>2, RequestsAssumption DEF ReviewInv, RatingsHold, TheReviews!At, TheReviews!Idle
<1>5. RowsTyped'
  BY <1>1, <1>3 DEF ReviewInv, RowsTyped
<1>6. NoneWithoutReview' /\ HelpfulMatchesVotes'
  BY <1>1 DEF ReviewInv, NoneWithoutReview, TheReviews!Exists, HelpfulMatchesVotes,
         TheReviews!HelpfulMatchesVotes
<1>7. StatsCurrent'
  BY <1>1 DEF ReviewInv, StatsCurrent, TheReviews!StatsCurrent
<1> QED BY <1>4, <1>5, <1>6, <1>7 DEF ReviewInv

LEMMA CommitKept ==
  ASSUME ReviewInv, NEW c \in Requests, TheReviews!Commit(c)
  PROVE  ReviewInv'
<1> USE RequestsAssumption
<1>1. PICK a \in Authors, row_ \in ReviewRows \cup {TheReviews!NoReview} :
        /\ a = client[c].author /\ row_ = client[c].row /\ rowLock[a] = c
        /\ client[c].kind = "create" =>
             reviews[a] = TheReviews!NoReview /\ row_ \in ReviewRows /\ row_.yes = 0 /\ row_.no = 0
  BY DEF ReviewInv, RowsTyped, UnderWay, TheReviews!Commit, TheReviews!At, TheReviews!Idle
<1>2. /\ reviews' = [reviews EXCEPT ![a] = row_]
      /\ votes' = IF row_ = TheReviews!NoReview
                    THEN [votes EXCEPT ![a] = [v \in Voters |-> "none"]] ELSE votes
      /\ clobbered' = IF row_ = TheReviews!NoReview \/ client[c].kind = "create" THEN clobbered \ {a}
                      ELSE IF TheReviews!Helpful(row_) # TheReviews!Helpful(reviews[a])
                           THEN clobbered \cup {a} ELSE clobbered
      /\ stats' = client[c].stats
      /\ ids' = ids
  BY <1>1 DEF TheReviews!Commit, TheReviews!NoVote
<1>3. /\ rowLock' = [b \in Authors |-> IF rowLock[b] = c THEN "free" ELSE rowLock[b]]
      /\ statsLock' = IF statsLock = c THEN "free" ELSE statsLock
      /\ client' = [client EXCEPT ![c] = TheReviews!Idle]
  BY DEF TheReviews!Commit, TheReviews!Released, TheReviews!Free
<1>4. /\ statsLock = c
      /\ client[c].stats = TheReviews!StatsOf([reviews EXCEPT ![a] = row_])
  BY <1>1 DEF ReviewInv, RatingsHold, TheReviews!Commit
<1>5. /\ client'[c] = TheReviews!Idle /\ \A d \in Requests : d # c => client'[d] = client[d]
      /\ DOMAIN client' = Requests /\ client' = [d \in Requests |-> client'[d]]
  BY <1>3 DEF ReviewInv, RowsTyped
<1>6. ASSUME NEW d \in Requests PROVE UnderWay(d)'
  <2>1. CASE d = c
    BY <1>5, <2>1 DEF UnderWay
  <2>2. CASE d # c
    <3>1. UnderWay(d) /\ client'[d] = client[d]
      BY <1>5, <2>2 DEF ReviewInv, RowsTyped
    <3>2. ASSUME client[d].author \in Authors, rowLock[client[d].author] = d
          PROVE  rowLock'[client[d].author] = d /\ reviews'[client[d].author] = reviews[client[d].author]
      BY <1>1, <1>2, <1>3, <2>2, <3>2 DEF ReviewInv, RowsTyped
    <3> QED BY <3>1, <3>2 DEF UnderWay
  <2> QED BY <2>1, <2>2
<1>7. RowsTyped'
  <2>1. reviews' \in [Authors -> ReviewRows \cup {TheReviews!NoReview}]
    BY <1>2 DEF ReviewInv, RowsTyped
  <2>2. votes' \in [Authors -> [Voters -> {"none", "yes", "no"}]]
    BY <1>2 DEF ReviewInv, RowsTyped
  <2>3. DOMAIN rowLock' = Authors /\ rowLock' = [b \in Authors |-> rowLock'[b]]
    BY <1>3
  <2>4. ids' \in Nat
    BY <1>2 DEF ReviewInv, RowsTyped
  <2> QED BY <1>5, <1>6, <2>1, <2>2, <2>3, <2>4 DEF RowsTyped
<1>8. \A d \in Requests : ~TheReviews!At(d, "aggregated")'
  <2> SUFFICES ASSUME NEW d \in Requests, client'[d].step = "aggregated"
               PROVE  FALSE
    BY DEF TheReviews!At
  <2>1. CASE d = c
    BY <1>5, <2>1 DEF TheReviews!Idle
  <2>2. CASE d # c
    <3>1. TheReviews!At(d, "aggregated")
      BY <1>5, <2>2 DEF TheReviews!At
    <3> QED BY <1>4, <2>2, <3>1 DEF ReviewInv, RatingsHold
  <2> QED BY <2>1, <2>2
<1>9. StatsCurrent'
  BY <1>2, <1>4 DEF StatsCurrent, TheReviews!StatsCurrent
<1>10. NoneWithoutReview'
  BY <1>2 DEF ReviewInv, RowsTyped, NoneWithoutReview, TheReviews!Exists
<1>11. HelpfulMatchesVotes'
  <2> SUFFICES ASSUME NEW b \in Authors, b \notin clobbered', reviews'[b] # TheReviews!NoReview,
                      NEW vote \in {"yes", "no"}
               PROVE  (IF vote = "yes" THEN reviews'[b].yes ELSE reviews'[b].no)
                        = TheReviews!Cardinality({v \in Voters : votes'[b][v] = vote})
    BY DEF HelpfulMatchesVotes, TheReviews!HelpfulMatchesVotes, TheReviews!Exists
  <2>1. CASE b # a
    <3>1. reviews'[b] = reviews[b] /\ votes'[b] = votes[b] /\ b \notin clobbered
      BY <1>2, <2>1 DEF ReviewInv, RowsTyped
    <3>2. (IF vote = "yes" THEN reviews[b].yes ELSE reviews[b].no)
            = TheReviews!Cardinality({v \in Voters : votes[b][v] = vote})
      BY <3>1 DEF ReviewInv, HelpfulMatchesVotes, TheReviews!HelpfulMatchesVotes, TheReviews!Exists
    <3> QED BY <3>1, <3>2
  <2>2. CASE b = a
    <3>1. reviews'[a] = row_ /\ row_ # TheReviews!NoReview /\ votes' = votes
      BY <1>2, <2>2 DEF ReviewInv, RowsTyped
    <3>2. CASE reviews[a] = TheReviews!NoReview
      <4>1. row_.yes = 0 /\ row_.no = 0
        BY <1>1, <1>2, <2>2, <3>1, <3>2 DEF TheReviews!Helpful
      <4>2. {v \in Voters : votes[a][v] = vote} = {}
        BY <3>2 DEF ReviewInv, NoneWithoutReview, TheReviews!Exists
      <4>3. TheReviews!Cardinality({v \in Voters : votes[a][v] = vote}) = 0
        BY <4>2, FS_EmptySet DEF TheReviews!Cardinality, Cardinality
      <4> QED BY <2>2, <3>1, <4>1, <4>3
    <3>3. CASE reviews[a] # TheReviews!NoReview
      <4>1. TheReviews!Helpful(row_) = TheReviews!Helpful(reviews[a]) /\ a \notin clobbered
        BY <1>1, <1>2, <2>2, <3>1, <3>3
      <4>2. row_.yes = reviews[a].yes /\ row_.no = reviews[a].no
        BY <3>1, <3>3, <4>1 DEF TheReviews!Helpful
      <4>3. (IF vote = "yes" THEN reviews[a].yes ELSE reviews[a].no)
              = TheReviews!Cardinality({v \in Voters : votes[a][v] = vote})
        BY <3>3, <4>1 DEF ReviewInv, HelpfulMatchesVotes, TheReviews!HelpfulMatchesVotes,
                          TheReviews!Exists
      <4> QED BY <2>2, <3>1, <4>2, <4>3
    <3> QED BY <3>2, <3>3
  <2> QED BY <2>1, <2>2
<1>12. RatingsHold'
  BY <1>8 DEF RatingsHold
<1> QED BY <1>7, <1>9, <1>10, <1>11, <1>12 DEF ReviewInv

\* One vote more or less among those that are the same.
LEMMA VotesCounted ==
  ASSUME NEW old \in [Voters -> {"none", "yes", "no"}], NEW v \in Voters,
         NEW vote \in {"yes", "no"}, NEW which \in {"yes", "no"},
         NEW new, new = [old EXCEPT ![v] = IF old[v] = vote THEN "none" ELSE vote]
  PROVE  TheReviews!Cardinality({u \in Voters : new[u] = which})
           = TheReviews!Cardinality({u \in Voters : old[u] = which})
               + TheReviews!Step(old[v], vote, which)
<1> DEFINE Before == {u \in Voters : old[u] = which}
           After == {u \in Voters : new[u] = which}
<1>0. \A S : TheReviews!Cardinality(S) = Cardinality(S)
  BY DEF TheReviews!Cardinality, Cardinality
<1>1. IsFiniteSet(Before) /\ Cardinality(Before) \in Nat
  BY VotersAssumption, FS_Subset, FS_CardinalityType
<1>2. CASE old[v] = which
  <2>1. After = Before \ {v} /\ v \in Before
    BY <1>2
  <2>2. Cardinality(After) = Cardinality(Before) - 1
    BY <1>1, <2>1, FS_RemoveElement
  <2>3. TheReviews!Step(old[v], vote, which) = -1
    BY <1>2 DEF TheReviews!Step
  <2> QED BY <1>0, <1>1, <2>2, <2>3
<1>3. CASE old[v] # which /\ vote = which
  <2>1. After = Before \cup {v} /\ v \notin Before
    BY <1>3
  <2>2. Cardinality(After) = Cardinality(Before) + 1
    BY <1>1, <2>1, FS_AddElement
  <2>3. TheReviews!Step(old[v], vote, which) = 1
    BY <1>3 DEF TheReviews!Step
  <2> QED BY <1>0, <1>1, <2>2, <2>3
<1>4. CASE old[v] # which /\ vote # which
  <2>1. After = Before
    BY <1>4
  <2>2. TheReviews!Step(old[v], vote, which) = 0
    BY <1>4 DEF TheReviews!Step
  <2> QED BY <1>0, <1>1, <2>1, <2>2
<1> QED BY <1>2, <1>3, <1>4

LEMMA VoteKept ==
  ASSUME ReviewInv, NEW a \in Votable, NEW v \in Voters, NEW vote \in {"yes", "no"},
         TheReviews!Vote(a, v, vote)
  PROVE  ReviewInv'
<1> USE RequestsAssumption
<1>1. a \in Authors /\ rowLock[a] = "free" /\ reviews[a] \in ReviewRows /\ reviews[a] # TheReviews!NoReview
  BY ReviewsAssumption DEF TheReviews!Vote, TheReviews!Exists, TheReviews!Free, ReviewInv, RowsTyped
<1>2. votes[a] \in [Voters -> {"none", "yes", "no"}]
  BY <1>1 DEF ReviewInv, RowsTyped
<1>3. PICK yes, no :
        /\ yes = reviews[a].yes + TheReviews!Step(votes[a][v], vote, "yes")
        /\ no = reviews[a].no + TheReviews!Step(votes[a][v], vote, "no")
        /\ yes >= 0 /\ no >= 0
        /\ reviews' = [reviews EXCEPT ![a] = [reviews[a] EXCEPT !.yes = yes, !.no = no]]
  BY <1>1 DEF TheReviews!Vote, ReviewInv, RowsTyped
<1>4. PICK new : new = [votes[a] EXCEPT ![v] = IF votes[a][v] = vote THEN "none" ELSE vote]
  OBVIOUS
<1>5. /\ votes' = [votes EXCEPT ![a] = new]
      /\ UNCHANGED <<stats, rowLock, statsLock, client, ids, restored, clobbered>>
  BY <1>1, <1>2, <1>4 DEF TheReviews!Vote, TheReviews!NoVote, ReviewInv, RowsTyped
<1>6. yes \in Nat /\ no \in Nat
  BY <1>1, <1>3 DEF ReviewRows, TheReviews!Step
<1>7. PICK row_ : row_ = [reviews[a] EXCEPT !.yes = yes, !.no = no]
  OBVIOUS
<1>8. /\ row_ \in ReviewRows /\ row_.yes = yes /\ row_.no = no
      /\ row_.approved = reviews[a].approved /\ row_.rating = reviews[a].rating
  BY <1>1, <1>6, <1>7 DEF ReviewRows
<1>9. reviews' = [reviews EXCEPT ![a] = row_]
  BY <1>3, <1>7
<1>10. row_ # TheReviews!NoReview
  BY <1>8 DEF ReviewRows, TheReviews!NoReview
<1>11. ASSUME NEW c \in Requests PROVE UnderWay(c)'
  <2>1. UnderWay(c)
    BY DEF ReviewInv, RowsTyped
  <2>2. client[c].author \in Authors /\ rowLock[client[c].author] = c
          => reviews'[client[c].author] = reviews[client[c].author]
    BY <1>1, <1>9 DEF ReviewInv, RowsTyped
  <2> QED BY <1>5, <2>1, <2>2 DEF UnderWay
<1>12. RowsTyped'
  <2>1. reviews' \in [Authors -> ReviewRows \cup {TheReviews!NoReview}]
    BY <1>8, <1>9 DEF ReviewInv, RowsTyped
  <2>2. new \in [Voters -> {"none", "yes", "no"}]
    BY <1>2, <1>4
  <2>3. votes' \in [Authors -> [Voters -> {"none", "yes", "no"}]]
    BY <1>5, <2>2 DEF ReviewInv, RowsTyped
  <2> QED BY <1>5, <1>11, <2>1, <2>3 DEF ReviewInv, RowsTyped
<1>13. NoneWithoutReview'
  BY <1>1, <1>5, <1>9, <1>10 DEF ReviewInv, RowsTyped, NoneWithoutReview, TheReviews!Exists
<1>14. StatsCurrent'
  <2>1. \A b \in Authors :
           /\ reviews[b] = TheReviews!NoReview <=> reviews'[b] = TheReviews!NoReview
           /\ reviews[b] # TheReviews!NoReview =>
                /\ reviews[b].approved <=> reviews'[b].approved
                /\ reviews[b].rating = reviews'[b].rating
    BY <1>1, <1>8, <1>9, <1>10 DEF ReviewInv, RowsTyped
  <2>2. PICK other : other = reviews'
    OBVIOUS
  <2>3. TheReviews!StatsOf(reviews) = TheReviews!StatsOf(other)
    BY <2>1, <2>2, VotesDoNotCount
  <2> QED BY <1>5, <2>2, <2>3 DEF ReviewInv, StatsCurrent, TheReviews!StatsCurrent
<1>15. RatingsHold'
  <2> SUFFICES ASSUME NEW c \in Requests, TheReviews!At(c, "aggregated")
               PROVE  /\ statsLock = c
                      /\ client[c].stats
                           = TheReviews!StatsOf([reviews' EXCEPT ![client[c].author] = client[c].row])
    BY <1>5 DEF RatingsHold, TheReviews!At
  <2>1. /\ statsLock = c
        /\ client[c].stats = TheReviews!StatsOf([reviews EXCEPT ![client[c].author] = client[c].row])
    BY DEF ReviewInv, RatingsHold
  <2>2. client[c].author \in Authors /\ rowLock[client[c].author] = c
    BY DEF ReviewInv, RowsTyped, UnderWay, TheReviews!At, TheReviews!Idle
  <2>3. client[c].author # a
    BY <1>1, <2>2
  <2>4. PICK one, other : /\ one = [reviews EXCEPT ![client[c].author] = client[c].row]
                          /\ other = [reviews' EXCEPT ![client[c].author] = client[c].row]
    OBVIOUS
  <2>5. \A b \in Authors :
           /\ one[b] = TheReviews!NoReview <=> other[b] = TheReviews!NoReview
           /\ one[b] # TheReviews!NoReview =>
                /\ one[b].approved <=> other[b].approved
                /\ one[b].rating = other[b].rating
    BY <1>1, <1>8, <1>9, <1>10, <2>2, <2>3, <2>4 DEF ReviewInv, RowsTyped
  <2>6. TheReviews!StatsOf(one) = TheReviews!StatsOf(other)
    BY <2>5, VotesDoNotCount
  <2> QED BY <2>1, <2>4, <2>6
<1>16. HelpfulMatchesVotes'
  <2> SUFFICES ASSUME NEW b \in Authors, b \notin clobbered, reviews'[b] # TheReviews!NoReview,
                      NEW which \in {"yes", "no"}
               PROVE  (IF which = "yes" THEN reviews'[b].yes ELSE reviews'[b].no)
                        = TheReviews!Cardinality({u \in Voters : votes'[b][u] = which})
    BY <1>5 DEF HelpfulMatchesVotes, TheReviews!HelpfulMatchesVotes, TheReviews!Exists
  <2>1. reviews[b] # TheReviews!NoReview =>
          (IF which = "yes" THEN reviews[b].yes ELSE reviews[b].no)
            = TheReviews!Cardinality({u \in Voters : votes[b][u] = which})
    BY DEF ReviewInv, HelpfulMatchesVotes, TheReviews!HelpfulMatchesVotes, TheReviews!Exists
  <2>2. CASE b # a
    <3>1. reviews'[b] = reviews[b] /\ votes'[b] = votes[b]
      BY <1>5, <1>9, <2>2 DEF ReviewInv, RowsTyped
    <3> QED BY <2>1, <3>1
  <2>3. CASE b = a
    <3>1. reviews'[a] = row_ /\ votes'[a] = new
      BY <1>1, <1>5, <1>9 DEF ReviewInv, RowsTyped
    <3>2. TheReviews!Cardinality({u \in Voters : new[u] = which})
            = TheReviews!Cardinality({u \in Voters : votes[a][u] = which})
                + TheReviews!Step(votes[a][v], vote, which)
      BY <1>2, <1>4, VotesCounted
    <3>3. (IF which = "yes" THEN row_.yes ELSE row_.no)
            = (IF which = "yes" THEN reviews[a].yes ELSE reviews[a].no)
                + TheReviews!Step(votes[a][v], vote, which)
      BY <1>3, <1>8
    <3> QED BY <1>1, <2>1, <2>3, <3>1, <3>2, <3>3
  <2> QED BY <2>2, <2>3
<1> QED BY <1>12, <1>13, <1>14, <1>15, <1>16 DEF ReviewInv

LEMMA ReviewsKept == ReviewInv /\ [TheReviews!Next]_reviewVars => ReviewInv'
<1> SUFFICES ASSUME ReviewInv, [TheReviews!Next]_reviewVars
             PROVE  ReviewInv'
  OBVIOUS
<1>1. CASE UNCHANGED reviewVars
  <2> USE <1>1 DEF reviewVars, ReviewInv
  <2>1. RowsTyped'
    BY DEF RowsTyped, UnderWay
  <2>2. NoneWithoutReview' /\ HelpfulMatchesVotes'
    BY DEF NoneWithoutReview, TheReviews!Exists, HelpfulMatchesVotes,
           TheReviews!HelpfulMatchesVotes
  <2>3. RatingsHold' /\ StatsCurrent'
    BY Zenon DEF RatingsHold, TheReviews!At, StatsCurrent, TheReviews!StatsCurrent
  <2> QED BY <2>1, <2>2, <2>3
<1> QED BY <1>1, ReadKept, ChangeKept, AggregateKept, CommitKept, EndKept, SaveKept, VoteKept
        DEF TheReviews!Next, TheReviews!ClientNext

\* No rows, no requests under way, nothing to count.
LEMMA ReviewsInit == Init => ReviewInv
<1> SUFFICES ASSUME Init PROVE ReviewInv
  OBVIOUS
<1> USE DEF Init, TheReviews!Init
<1>1. RowsTyped
  BY DEF RowsTyped, UnderWay, TheReviews!NoVote
<1>2. NoneWithoutReview /\ HelpfulMatchesVotes
  BY DEF NoneWithoutReview, HelpfulMatchesVotes, TheReviews!HelpfulMatchesVotes, TheReviews!Exists,
         TheReviews!NoVote
<1>3. RatingsHold
  BY DEF RatingsHold, TheReviews!At, TheReviews!Idle
<1>4. StatsCurrent
  <2>1. {a \in Authors : reviews[a] # TheReviews!NoReview /\ reviews[a].approved} = {}
    OBVIOUS
  <2>2. TheReviews!Cardinality({}) = 0
    BY FS_EmptySet DEF TheReviews!Cardinality, Cardinality
  <2>3. TheReviews!StatsOf(reviews) = [count |-> 0, rating |-> 0]
    BY <2>1, <2>2, Zenon DEF TheReviews!StatsOf
  <2> QED BY <2>3 DEF StatsCurrent, TheReviews!StatsCurrent, TheReviews!NoStats
<1> QED BY <1>1, <1>2, <1>3, <1>4 DEF ReviewInv

LEMMA ReviewsCorrect == Spec => []ReviewInv
BY ReviewsInit, ReviewStep, ReviewsKept, PTL DEF Spec

\* The rating is that of the approved reviews, for every number of authors and
\* of requests that write, moderate and delete at the same time.
THEOREM RatingIsCurrent == Spec => []StatsCurrent
BY ReviewsCorrect, PTL DEF ReviewInv

\* The counters of a review are the votes on it, for every number of voters.
THEOREM VotesAreCounted == Spec => []HelpfulMatchesVotes
BY ReviewsCorrect, PTL DEF ReviewInv

-----------------------------------------------------------------------------
\* The merchants and the report before the migration.

\* A step of the storefront is a step of its merchants, or leaves them alone.
LEMMA MerchantStep == [Next]_vars => [TheMerchants!Next]_merchantVars
<1>1. ASSUME UNCHANGED vars PROVE UNCHANGED merchantVars
  BY <1>1 DEF vars, merchantVars
<1>2. ASSUME Next PROVE TheMerchants!Next \/ UNCHANGED merchantVars
  BY <1>2 DEF Next
<1> QED BY <1>1, <1>2 DEF merchantVars, TheMerchants!merchantVars

Monies == Currencies \cup {Rubles} \cup LegacyPrices

StoreNotes == [id : Stores, entity : Entities]
MarketNotes == [id : Markets, store : Stores, active : BOOLEAN]
Reports ==
  [step : {"none", "active", "known", "stores", "markets", "payments", "prices", "history",
           "accounting", "done"},
   active : SUBSET Entities, known : SUBSET Entities, stores : SUBSET StoreNotes,
   markets : SUBSET MarketNotes, paid : SUBSET Markets, prices : SUBSET Monies,
   history : BOOLEAN, accounting : SUBSET Monies, quiet : BOOLEAN]

MerchantsTyped ==
  /\ entities \in [Entities -> [currency : Monies, active : BOOLEAN] \cup {TheMerchants!Absent}]
  /\ stores \in [Stores -> [entity : Entities] \cup {TheMerchants!Absent}]
  /\ markets \in [Markets -> [store : Stores, payment : PaymentChoices \cup {Currencies},
                              active : BOOLEAN] \cup {TheMerchants!Absent}]
  /\ prices \subseteq Monies /\ history \in BOOLEAN
  /\ held \subseteq [entity : Entities, active : BOOLEAN]
  /\ report \in Reports

\* A market belongs to a store that exists.
MarketsPlaced ==
  \A k \in TheMerchants!Existing(markets) : markets[k].store \in TheMerchants!Existing(stores)

\* What the report has read of a row that nobody changes is true of it for ever.
NotedForEver ==
  /\ report.active \subseteq TheMerchants!Existing(entities)
  /\ \A store \in report.stores :
       stores[store.id] # TheMerchants!Absent /\ stores[store.id].entity = store.entity
  /\ \A m \in report.markets :
       markets[m.id] # TheMerchants!Absent /\ markets[m.id].store = m.store
  /\ report.step = "done" =>
       report.accounting = IF TheMerchants!Bootstrap(report)
                             THEN {entities[e].currency : e \in report.active} ELSE {}

\* What it has read of the others is true while nobody has committed.
TrueWhileQuiet ==
  report.quiet =>
    /\ report.step # "none"
    /\ report.step # "active" =>
         /\ report.active = TheMerchants!ActiveEntities
         /\ report.step # "known" =>
              /\ report.known = TheMerchants!Existing(entities)
              /\ report.step # "stores" =>
                   /\ report.stores = {[id |-> s, entity |-> stores[s].entity] :
                                         s \in TheMerchants!Existing(stores)}
                   /\ report.step # "markets" =>
                        /\ report.markets =
                             {[id |-> k, store |-> markets[k].store, active |-> markets[k].active] :
                                k \in TheMerchants!Existing(markets)}
                        /\ report.step # "payments" =>
                             /\ report.paid = {k \in TheMerchants!Existing(markets) :
                                                 markets[k].payment # {}}
                             /\ report.step # "prices" =>
                                  /\ report.prices = prices
                                  /\ report.step # "history" => report.history = history

MerchantInv == MerchantsTyped /\ MarketsPlaced /\ NotedForEver /\ TrueWhileQuiet

-----------------------------------------------------------------------------
\* Rows stay, and so do the columns that say whose they are.
RowsStay ==
  /\ \A e \in Entities : entities[e] # TheMerchants!Absent =>
       entities'[e] # TheMerchants!Absent /\ entities'[e].currency = entities[e].currency
  /\ \A s \in Stores : stores[s] # TheMerchants!Absent => stores'[s] = stores[s]
  /\ \A k \in Markets : markets[k] # TheMerchants!Absent =>
       markets'[k] # TheMerchants!Absent /\ markets'[k].store = markets[k].store
  /\ \A k \in Markets :
       markets[k] = TheMerchants!Absent /\ markets'[k] # TheMerchants!Absent =>
         markets'[k].store \in TheMerchants!Existing(stores)

\* A commit that leaves rows where they are.
LEMMA CommitLeaves ==
  ASSUME MerchantInv, MerchantsTyped', RowsStay, TheMerchants!Commit
  PROVE  MerchantInv'
<1>1. /\ ~report'.quiet /\ report'.step = report.step /\ report'.active = report.active
      /\ report'.known = report.known /\ report'.stores = report.stores
      /\ report'.markets = report.markets /\ report'.paid = report.paid
      /\ report'.accounting = report.accounting
  BY DEF TheMerchants!Commit, MerchantInv, MerchantsTyped, Reports
<1>2. TheMerchants!Bootstrap(report') <=> TheMerchants!Bootstrap(report)
  BY <1>1, Zenon DEF TheMerchants!Bootstrap, TheMerchants!Candidates, TheMerchants!Alternatives
<1>3. /\ report.active \subseteq Entities
      /\ \A store \in report.stores : store.id \in Stores
      /\ \A m \in report.markets : m.id \in Markets
  BY DEF MerchantInv, MerchantsTyped, Reports, StoreNotes, MarketNotes
<1>4. {entities'[e].currency : e \in report.active} = {entities[e].currency : e \in report.active}
  BY <1>3 DEF MerchantInv, NotedForEver, RowsStay, TheMerchants!Existing
<1>5. report'.active \subseteq TheMerchants!Existing(entities)'
  BY <1>1, <1>3 DEF MerchantInv, MerchantsTyped, NotedForEver, RowsStay, TheMerchants!Existing
<1>6. /\ \A store \in report'.stores :
           stores'[store.id] # TheMerchants!Absent /\ stores'[store.id].entity = store.entity
      /\ \A m \in report'.markets :
           markets'[m.id] # TheMerchants!Absent /\ markets'[m.id].store = m.store
  BY <1>1, <1>3 DEF MerchantInv, NotedForEver, RowsStay
<1>7. report'.step = "done" =>
        report'.accounting = IF TheMerchants!Bootstrap(report')
                               THEN {entities'[e].currency : e \in report'.active} ELSE {}
  BY <1>1, <1>2, <1>4 DEF MerchantInv, NotedForEver
<1>8. MarketsPlaced'
  <2> SUFFICES ASSUME NEW k \in Markets, markets'[k] # TheMerchants!Absent
               PROVE  markets'[k].store \in TheMerchants!Existing(stores')
    BY DEF MarketsPlaced, TheMerchants!Existing, MerchantsTyped
  <2>1. markets'[k].store \in TheMerchants!Existing(stores)
    BY DEF MerchantInv, MerchantsTyped, MarketsPlaced, RowsStay, TheMerchants!Existing
  <2> QED BY <2>1 DEF TheMerchants!Existing, MerchantInv, MerchantsTyped, RowsStay
<1>9. NotedForEver' /\ TrueWhileQuiet'
  BY <1>1, <1>5, <1>6, <1>7 DEF NotedForEver, TrueWhileQuiet
<1> QED BY <1>8, <1>9 DEF MerchantInv

LEMMA EntityCommits ==
  ASSUME MerchantInv, NEW e \in Entities, NEW active_ \in BOOLEAN, NEW currency,
         \/ TheMerchants!UpdateLegalEntity(e, active_)
         \/ currency \in Currencies /\ TheMerchants!CreateLegalEntity(e, currency, active_)
  PROVE  MerchantsTyped' /\ RowsStay /\ TheMerchants!Commit
<1>1. report \in Reports => [report EXCEPT !.quiet = FALSE] \in Reports
  BY DEF Reports
<1>2. CASE TheMerchants!UpdateLegalEntity(e, active_)
  <2>1. /\ entities[e] \in [currency : Monies, active : BOOLEAN] /\ entities[e] # TheMerchants!Absent
        /\ entities' = [entities EXCEPT ![e].active = active_]
        /\ held' \in {held, {IF h.entity = e THEN [h EXCEPT !.active = active_] ELSE h : h \in held}}
        /\ UNCHANGED <<stores, markets, prices, history>> /\ TheMerchants!Commit
    BY <1>2 DEF TheMerchants!UpdateLegalEntity, MerchantInv, MerchantsTyped
  <2>2. PICK row_ : row_ = [entities[e] EXCEPT !.active = active_]
    OBVIOUS
  <2>3. /\ row_ \in [currency : Monies, active : BOOLEAN] /\ row_.currency = entities[e].currency
        /\ entities' = [entities EXCEPT ![e] = row_]
    BY <2>1, <2>2 DEF MerchantInv, MerchantsTyped
  <2>4. row_ # TheMerchants!Absent
    BY <2>3 DEF TheMerchants!Absent
  <2>5. held' \subseteq [entity : Entities, active : BOOLEAN]
    BY <2>1 DEF MerchantInv, MerchantsTyped
  <2> QED BY <1>1, <2>1, <2>3, <2>4, <2>5
          DEF MerchantInv, MerchantsTyped, RowsStay, TheMerchants!Commit
<1>3. CASE currency \in Currencies /\ TheMerchants!CreateLegalEntity(e, currency, active_)
  <2>1. PICK row_ : row_ = [currency |-> currency, active |-> active_]
    OBVIOUS
  <2>2. /\ entities[e] = TheMerchants!Absent /\ entities' = [entities EXCEPT ![e] = row_]
        /\ UNCHANGED <<stores, markets, prices, history, held>> /\ TheMerchants!Commit
    BY <1>3, <2>1 DEF TheMerchants!CreateLegalEntity
  <2>3. row_ \in [currency : Monies, active : BOOLEAN]
    BY <1>3, <2>1 DEF Monies
  <2> QED BY <1>1, <2>2, <2>3 DEF MerchantInv, MerchantsTyped, RowsStay, TheMerchants!Commit
<1> QED BY <1>2, <1>3

LEMMA StoreCommits ==
  ASSUME MerchantInv, NEW s \in Stores, TheMerchants!CreateStore(s)
  PROVE  MerchantsTyped' /\ RowsStay /\ TheMerchants!Commit
<1>1. report \in Reports => [report EXCEPT !.quiet = FALSE] \in Reports
  BY DEF Reports
<1>2. PICK h \in held : stores' = [stores EXCEPT ![s] = [entity |-> h.entity]]
  BY DEF TheMerchants!CreateStore
<1>3. h.entity \in Entities
  BY DEF MerchantInv, MerchantsTyped
<1> QED BY <1>1, <1>2, <1>3
        DEF TheMerchants!CreateStore, MerchantInv, MerchantsTyped, RowsStay, TheMerchants!Commit

LEMMA MarketCommits ==
  ASSUME MerchantInv, NEW k \in Markets, NEW active_ \in BOOLEAN, NEW payment_ \in PaymentChoices,
         NEW s, \/ s \in Stores /\ TheMerchants!CreateStoreMarket(k, s, payment_, active_)
                \/ TheMerchants!UpdateStoreMarket(k, payment_, active_)
  PROVE  MerchantsTyped' /\ RowsStay /\ TheMerchants!Commit
<1> DEFINE Rows == [store : Stores, payment : PaymentChoices \cup {Currencies}, active : BOOLEAN]
<1>1. report \in Reports => [report EXCEPT !.quiet = FALSE] \in Reports
  BY DEF Reports
<1>2. CASE s \in Stores /\ TheMerchants!CreateStoreMarket(k, s, payment_, active_)
  <2>1. PICK row_ : row_ = [store |-> s, payment |-> payment_, active |-> active_]
    OBVIOUS
  <2>2. /\ markets[k] = TheMerchants!Absent /\ markets' = [markets EXCEPT ![k] = row_]
        /\ stores[s] # TheMerchants!Absent
        /\ UNCHANGED <<entities, stores, prices, history, held>> /\ TheMerchants!Commit
    BY <1>2, <2>1 DEF TheMerchants!CreateStoreMarket
  <2>3. row_ \in Rows /\ row_.store = s
    BY <1>2, <2>1
  <2>4. s \in TheMerchants!Existing(stores)
    BY <1>2, <2>2 DEF TheMerchants!Existing, MerchantInv, MerchantsTyped
  <2> QED BY <1>1, <2>2, <2>3, <2>4 DEF MerchantInv, MerchantsTyped, RowsStay, TheMerchants!Commit
<1>3. CASE TheMerchants!UpdateStoreMarket(k, payment_, active_)
  <2>1. /\ markets[k] \in Rows /\ markets[k] # TheMerchants!Absent
        /\ markets' = [markets EXCEPT ![k].payment = payment_, ![k].active = active_]
        /\ UNCHANGED <<entities, stores, prices, history, held>> /\ TheMerchants!Commit
    BY <1>3 DEF TheMerchants!UpdateStoreMarket, MerchantInv, MerchantsTyped
  <2>2. PICK paid : paid = [markets[k] EXCEPT !.payment = payment_]
    OBVIOUS
  <2>3. paid \in Rows /\ paid.store = markets[k].store
    BY <2>1, <2>2
  <2>4. PICK row_ : row_ = [paid EXCEPT !.active = active_]
    OBVIOUS
  <2>5. row_ \in Rows /\ row_.store = markets[k].store
    BY <2>3, <2>4
  <2>6. markets' = [markets EXCEPT ![k] = row_]
    BY <2>1, <2>2, <2>4 DEF MerchantInv, MerchantsTyped
  <2>7. row_ # TheMerchants!Absent
    BY <2>5 DEF TheMerchants!Absent
  <2> QED BY <1>1, <2>1, <2>5, <2>6, <2>7 DEF MerchantInv, MerchantsTyped, RowsStay, TheMerchants!Commit
<1> QED BY <1>2, <1>3

LEMMA PriceCommits ==
  ASSUME MerchantInv, NEW isNew, NEW currency,
         TheMerchants!SetPrice(isNew) \/ TheMerchants!RemovePrice(currency)
  PROVE  MerchantsTyped' /\ RowsStay /\ TheMerchants!Commit
<1>1. report \in Reports => [report EXCEPT !.quiet = FALSE] \in Reports
  BY DEF Reports
<1>2. Rubles \in Monies
  BY DEF Monies
<1>3. /\ UNCHANGED <<entities, stores, markets, held>> /\ TheMerchants!Commit
      /\ prices' \subseteq prices \cup {Rubles} /\ history' \in {history, TRUE}
  BY DEF TheMerchants!SetPrice, TheMerchants!RemovePrice
<1> QED BY <1>1, <1>2, <1>3 DEF MerchantInv, MerchantsTyped, RowsStay, TheMerchants!Commit

LEMMA LoadKept ==
  ASSUME MerchantInv, NEW e \in Entities, TheMerchants!LoadEntity(e)
  PROVE  MerchantInv'
<1>1. entities[e] \in [currency : Monies, active : BOOLEAN]
  BY DEF TheMerchants!LoadEntity, MerchantInv, MerchantsTyped
<1>2. [entity |-> e, active |-> entities[e].active] \in [entity : Entities, active : BOOLEAN]
  BY <1>1
<1>3. MerchantsTyped'
  BY <1>2 DEF TheMerchants!LoadEntity, MerchantInv, MerchantsTyped
<1> QED BY <1>3, Zenon DEF TheMerchants!LoadEntity, MerchantInv, MarketsPlaced, NotedForEver, TrueWhileQuiet,
              TheMerchants!ActiveEntities

\* The next query sees what there is.
LEMMA QueryKept ==
  ASSUME MerchantInv, TheMerchants!Start \/ TheMerchants!Query
  PROVE  MerchantInv'
<1>1. UNCHANGED <<entities, stores, markets, prices, history, held>>
  BY DEF TheMerchants!Start, TheMerchants!Query, TheMerchants!Read
<1>2. ASSUME report' \in Reports, NotedForEver', TrueWhileQuiet'
      PROVE  MerchantInv'
  BY <1>1, <1>2 DEF MerchantInv, MerchantsTyped, MarketsPlaced
<1>3. report \in Reports /\ NotedForEver /\ TrueWhileQuiet
  BY DEF MerchantInv, MerchantsTyped
<1>4. TheMerchants!ActiveEntities \subseteq Entities /\ TheMerchants!Existing(entities) \subseteq Entities
  BY DEF TheMerchants!ActiveEntities, TheMerchants!Existing, MerchantInv, MerchantsTyped
<1>5. CASE TheMerchants!Start
  <2>1. report' = [TheMerchants!NoReport EXCEPT !.step = "active", !.quiet = TRUE]
    BY <1>5 DEF TheMerchants!Start
  <2>2. report' \in Reports
    BY <2>1 DEF Reports, TheMerchants!NoReport
  <2>3. /\ report'.step = "active" /\ report'.active = {} /\ report'.stores = {} /\ report'.markets = {}
    BY <2>1 DEF TheMerchants!NoReport
  <2> QED BY <1>2, <2>2, <2>3 DEF NotedForEver, TrueWhileQuiet
<1>6. CASE TheMerchants!Read("active", [report EXCEPT !.active = TheMerchants!ActiveEntities, !.step = "known"])
  <2>1. report.step = "active" /\ report' = [report EXCEPT !.active = TheMerchants!ActiveEntities, !.step = "known"]
    BY <1>6 DEF TheMerchants!Read
  <2>2. report' \in Reports
    BY <1>3, <1>4, <2>1 DEF Reports
  <2>3. /\ report'.step = "known" /\ report'.active = TheMerchants!ActiveEntities
        /\ report'.stores = report.stores /\ report'.markets = report.markets
    BY <1>3, <2>1 DEF Reports
  <2>4. NotedForEver'
    BY <1>1, <1>3, <2>3 DEF NotedForEver, TheMerchants!ActiveEntities
  <2>5. TrueWhileQuiet'
    BY <1>1, <2>3 DEF TrueWhileQuiet, TheMerchants!ActiveEntities, TheMerchants!Existing
  <2> QED BY <1>2, <2>2, <2>4, <2>5
<1>7. CASE TheMerchants!Read("known", [report EXCEPT !.known = TheMerchants!Existing(entities), !.step = "stores"])
  <2>1. report.step = "known" /\ report' = [report EXCEPT !.known = TheMerchants!Existing(entities), !.step = "stores"]
    BY <1>7 DEF TheMerchants!Read
  <2>2. TheMerchants!Existing(entities) \in SUBSET Entities
    BY <1>4
  <2>3. report' \in Reports
    BY <1>3, <2>1, <2>2 DEF Reports
  <2>4. /\ report'.step = "stores" /\ report'.known = TheMerchants!Existing(entities) /\ report'.quiet = report.quiet
        /\ report'.active = report.active /\ report'.stores = report.stores
        /\ report'.markets = report.markets /\ report'.paid = report.paid
        /\ report'.prices = report.prices /\ report'.history = report.history
        /\ report'.accounting = report.accounting
    BY <1>3, <2>1 DEF Reports
  <2>5. NotedForEver'
    BY <1>1, <1>3, <2>1, <2>4 DEF NotedForEver
  <2>6. TrueWhileQuiet'
    BY <1>1, <1>3, <2>1, <2>4 DEF TrueWhileQuiet, TheMerchants!ActiveEntities, TheMerchants!Existing
  <2> QED BY <1>2, <2>3, <2>5, <2>6
<1>8. CASE TheMerchants!Read("stores", [report EXCEPT !.step = "markets",
             !.stores = {[id |-> s, entity |-> stores[s].entity] : s \in TheMerchants!Existing(stores)}])
  <2> DEFINE now == {[id |-> s, entity |-> stores[s].entity] : s \in TheMerchants!Existing(stores)}
  <2>1. report.step = "stores" /\ report' = [report EXCEPT !.stores = now, !.step = "markets"]
    BY <1>8 DEF TheMerchants!Read
  <2>2. now \in SUBSET StoreNotes
    BY DEF MerchantInv, MerchantsTyped, TheMerchants!Existing, StoreNotes
  <2>3. report' \in Reports
    BY <1>3, <2>1, <2>2 DEF Reports
  <2>4. /\ report'.step = "markets" /\ report'.stores = now /\ report'.quiet = report.quiet
        /\ report'.active = report.active /\ report'.known = report.known
        /\ report'.markets = report.markets /\ report'.paid = report.paid
        /\ report'.prices = report.prices /\ report'.history = report.history
        /\ report'.accounting = report.accounting
    BY <1>3, <2>1 DEF Reports
  <2>5. NotedForEver'
    BY <1>1, <1>3, <2>1, <2>4 DEF NotedForEver, TheMerchants!Existing
  <2>6. TrueWhileQuiet'
    BY <1>1, <1>3, <2>1, <2>4 DEF TrueWhileQuiet, TheMerchants!ActiveEntities, TheMerchants!Existing
  <2> QED BY <1>2, <2>3, <2>5, <2>6
<1>9. CASE TheMerchants!Read("markets", [report EXCEPT !.step = "payments",
             !.markets = {[id |-> k, store |-> markets[k].store,
                           active |-> markets[k].active] : k \in TheMerchants!Existing(markets)}])
  <2> DEFINE now == {[id |-> k, store |-> markets[k].store, active |-> markets[k].active] :
                      k \in TheMerchants!Existing(markets)}
  <2>1. report.step = "markets" /\ report' = [report EXCEPT !.markets = now, !.step = "payments"]
    BY <1>9 DEF TheMerchants!Read
  <2>2. now \in SUBSET MarketNotes
    BY DEF MerchantInv, MerchantsTyped, TheMerchants!Existing, MarketNotes
  <2>3. report' \in Reports
    BY <1>3, <2>1, <2>2 DEF Reports
  <2>4. /\ report'.step = "payments" /\ report'.markets = now /\ report'.quiet = report.quiet
        /\ report'.active = report.active /\ report'.known = report.known
        /\ report'.stores = report.stores /\ report'.paid = report.paid
        /\ report'.prices = report.prices /\ report'.history = report.history
        /\ report'.accounting = report.accounting
    BY <1>3, <2>1 DEF Reports
  <2>5. NotedForEver'
    BY <1>1, <1>3, <2>1, <2>4 DEF NotedForEver, TheMerchants!Existing
  <2>6. TrueWhileQuiet'
    BY <1>1, <1>3, <2>1, <2>4 DEF TrueWhileQuiet, TheMerchants!ActiveEntities, TheMerchants!Existing
  <2> QED BY <1>2, <2>3, <2>5, <2>6
<1>10. CASE TheMerchants!Read("payments", [report EXCEPT !.step = "prices",
             !.paid = {k \in {m.id : m \in report.markets} : markets[k].payment # {}}])
  <2> DEFINE now == {k \in {m.id : m \in report.markets} : markets[k].payment # {}}
  <2>1. report.step = "payments" /\ report' = [report EXCEPT !.paid = now, !.step = "prices"]
    BY <1>10 DEF TheMerchants!Read
  <2>2. now \in SUBSET Markets
    BY <1>3 DEF Reports, MarketNotes
  <2>3. report' \in Reports
    BY <1>3, <2>1, <2>2 DEF Reports
  <2>4. /\ report'.step = "prices" /\ report'.paid = now /\ report'.quiet = report.quiet
        /\ report'.active = report.active /\ report'.known = report.known
        /\ report'.stores = report.stores /\ report'.markets = report.markets
        /\ report'.prices = report.prices /\ report'.history = report.history
        /\ report'.accounting = report.accounting
    BY <1>3, <2>1 DEF Reports
  <2>5. NotedForEver'
    BY <1>1, <1>3, <2>1, <2>4 DEF NotedForEver
  <2>6. report.quiet => {m.id : m \in report.markets} = TheMerchants!Existing(markets)
    <3> SUFFICES ASSUME report.quiet
                 PROVE  {m.id : m \in report.markets} = TheMerchants!Existing(markets)
      OBVIOUS
    <3> DEFINE Note(k) == [id |-> k, store |-> markets[k].store, active |-> markets[k].active]
    <3>1. report.markets = {Note(k) : k \in TheMerchants!Existing(markets)}
      BY <1>3, <2>1 DEF TrueWhileQuiet
    <3>2. \A k : Note(k).id = k
      OBVIOUS
    <3> HIDE DEF Note
    <3> QED BY <3>1, <3>2
  <2>7. TrueWhileQuiet'
    BY <1>1, <1>3, <2>1, <2>4, <2>6
       DEF TrueWhileQuiet, TheMerchants!ActiveEntities, TheMerchants!Existing
  <2> QED BY <1>2, <2>3, <2>5, <2>7
<1>11. CASE TheMerchants!Read("prices", [report EXCEPT !.prices = prices, !.step = "history"])
  <2>1. report.step = "prices" /\ report' = [report EXCEPT !.prices = prices, !.step = "history"]
    BY <1>11 DEF TheMerchants!Read
  <2>2. prices \in SUBSET Monies
    BY DEF MerchantInv, MerchantsTyped
  <2>3. report' \in Reports
    BY <1>3, <2>1, <2>2 DEF Reports
  <2>4. /\ report'.step = "history" /\ report'.prices = prices /\ report'.quiet = report.quiet
        /\ report'.active = report.active /\ report'.known = report.known
        /\ report'.stores = report.stores /\ report'.markets = report.markets
        /\ report'.paid = report.paid /\ report'.history = report.history
        /\ report'.accounting = report.accounting
    BY <1>3, <2>1 DEF Reports
  <2>5. NotedForEver'
    BY <1>1, <1>3, <2>1, <2>4 DEF NotedForEver
  <2>6. TrueWhileQuiet'
    BY <1>1, <1>3, <2>1, <2>4 DEF TrueWhileQuiet, TheMerchants!ActiveEntities, TheMerchants!Existing
  <2> QED BY <1>2, <2>3, <2>5, <2>6
<1>12. CASE TheMerchants!Read("history", [report EXCEPT !.history = history, !.step = "accounting"])
  <2>1. report.step = "history" /\ report' = [report EXCEPT !.history = history, !.step = "accounting"]
    BY <1>12 DEF TheMerchants!Read
  <2>2. history \in BOOLEAN
    BY DEF MerchantInv, MerchantsTyped
  <2>3. report' \in Reports
    BY <1>3, <2>1, <2>2 DEF Reports
  <2>4. /\ report'.step = "accounting" /\ report'.history = history /\ report'.quiet = report.quiet
        /\ report'.active = report.active /\ report'.known = report.known
        /\ report'.stores = report.stores /\ report'.markets = report.markets
        /\ report'.paid = report.paid /\ report'.prices = report.prices
        /\ report'.accounting = report.accounting
    BY <1>3, <2>1 DEF Reports
  <2>5. NotedForEver'
    BY <1>1, <1>3, <2>1, <2>4 DEF NotedForEver
  <2>6. TrueWhileQuiet'
    BY <1>1, <1>3, <2>1, <2>4 DEF TrueWhileQuiet, TheMerchants!ActiveEntities, TheMerchants!Existing
  <2> QED BY <1>2, <2>3, <2>5, <2>6
<1>13. CASE TheMerchants!Read("accounting", [report EXCEPT !.step = "done",
             !.accounting = IF TheMerchants!Bootstrap(report)
                              THEN {entities[e].currency : e \in report.active} ELSE {}])
  <2> DEFINE now == IF TheMerchants!Bootstrap(report)
                     THEN {entities[e].currency : e \in report.active} ELSE {}
  <2>1. report.step = "accounting" /\ report' = [report EXCEPT !.accounting = now, !.step = "done"]
    BY <1>13 DEF TheMerchants!Read
  <2>2. now \in SUBSET Monies
    BY <1>3 DEF NotedForEver, MerchantInv, MerchantsTyped, TheMerchants!Existing, Reports
  <2>3. report' \in Reports
    BY <1>3, <2>1, <2>2 DEF Reports
  <2>4. /\ report'.step = "done" /\ report'.accounting = now /\ report'.quiet = report.quiet
        /\ report'.active = report.active /\ report'.known = report.known
        /\ report'.stores = report.stores /\ report'.markets = report.markets
        /\ report'.paid = report.paid /\ report'.prices = report.prices
        /\ report'.history = report.history
    BY <1>3, <2>1 DEF Reports
  <2>5. TheMerchants!Bootstrap(report') <=> TheMerchants!Bootstrap(report)
    BY <2>4, Zenon DEF TheMerchants!Bootstrap, TheMerchants!Candidates, TheMerchants!Alternatives
  <2>6. NotedForEver'
    BY <2>5, <1>1, <1>3, <2>1, <2>4 DEF NotedForEver
  <2>7. TrueWhileQuiet'
    BY <1>1, <1>3, <2>1, <2>4 DEF TrueWhileQuiet, TheMerchants!ActiveEntities, TheMerchants!Existing
  <2> QED BY <1>2, <2>3, <2>6, <2>7
<1> QED BY <1>5, <1>6, <1>7, <1>8, <1>9, <1>10, <1>11, <1>12, <1>13 DEF TheMerchants!Query

\* A report passes if and only if it has nothing to say of anything it has read.
LEMMA NothingFound ==
  ASSUME NEW r
  PROVE  TheMerchants!Passed(r) <=>
           /\ TheMerchants!Sole(r.active) /\ TheMerchants!Bootstrap(r) /\ ~r.history
           /\ \A store \in r.stores : store.entity \in r.known /\ store.entity \in r.active
           /\ \A m \in r.markets :
                /\ \E store \in r.stores : store.id = m.store
                /\ m.active => m.id \in r.paid
           /\ r.prices \subseteq r.accounting
<1> USE DEF TheMerchants!Proven
<1>1. TheMerchants!EntityFindings(r) \cap TheMerchants!FailClassifications = {}
        <=> TheMerchants!Sole(r.active)
  BY DEF TheMerchants!EntityFindings, TheMerchants!FailClassifications
<1>2. TheMerchants!BootstrapFindings(r) \cap TheMerchants!FailClassifications = {}
        <=> TheMerchants!Bootstrap(r)
  BY DEF TheMerchants!BootstrapFindings, TheMerchants!FailClassifications
<1>3. TheMerchants!HistoryFindings(r) \cap TheMerchants!FailClassifications = {} <=> ~r.history
  BY DEF TheMerchants!HistoryFindings, TheMerchants!FailClassifications
<1>4. ASSUME NEW store
      PROVE  TheMerchants!StoreFindings(r, store) \cap TheMerchants!FailClassifications = {}
               <=> /\ store.entity \in r.known /\ TheMerchants!Sole(r.active)
                   /\ store.entity \in r.active
  BY DEF TheMerchants!StoreFindings, TheMerchants!FailClassifications
<1>5. ASSUME NEW m
      PROVE  TheMerchants!MarketFindings(r, m) \cap TheMerchants!FailClassifications = {}
               <=> /\ \E store \in r.stores : store.id = m.store
                   /\ m.active => m.id \in r.paid
  BY DEF TheMerchants!MarketFindings, TheMerchants!FailClassifications
<1>6. ASSUME NEW currency
      PROVE  TheMerchants!PriceFindings(r, currency) \cap TheMerchants!FailClassifications = {}
               <=> TheMerchants!Bootstrap(r) /\ currency \in r.accounting
  BY DEF TheMerchants!PriceFindings, TheMerchants!FailClassifications
<1>7. TheMerchants!Passed(r) <=>
        /\ TheMerchants!EntityFindings(r) \cap TheMerchants!FailClassifications = {}
        /\ TheMerchants!BootstrapFindings(r) \cap TheMerchants!FailClassifications = {}
        /\ TheMerchants!HistoryFindings(r) \cap TheMerchants!FailClassifications = {}
        /\ \A store \in r.stores :
             TheMerchants!StoreFindings(r, store) \cap TheMerchants!FailClassifications = {}
        /\ \A m \in r.markets :
             TheMerchants!MarketFindings(r, m) \cap TheMerchants!FailClassifications = {}
        /\ \A currency \in r.prices :
             TheMerchants!PriceFindings(r, currency) \cap TheMerchants!FailClassifications = {}
  <2> DEFINE Fails == TheMerchants!FailClassifications
  <2>1. ASSUME NEW x
        PROVE  x \in TheMerchants!Findings(r) <=>
                 \/ x \in TheMerchants!EntityFindings(r) \/ x \in TheMerchants!BootstrapFindings(r)
                 \/ x \in TheMerchants!HistoryFindings(r)
                 \/ \E store \in r.stores : x \in TheMerchants!StoreFindings(r, store)
                 \/ \E m \in r.markets : x \in TheMerchants!MarketFindings(r, m)
                 \/ \E currency \in r.prices : x \in TheMerchants!PriceFindings(r, currency)
    BY DEF TheMerchants!Findings
  <2>2. TheMerchants!Passed(r) <=> \A x \in Fails : x \notin TheMerchants!Findings(r)
    BY DEF TheMerchants!Passed
  <2> QED BY <2>1, <2>2
<1> HIDE DEF TheMerchants!Proven
<1> QED BY <1>1, <1>2, <1>3, <1>4, <1>5, <1>6, <1>7

\* One is counted if there is one.
LEMMA SoleIsSingleton ==
  ASSUME NEW S, IsFiniteSet(S)
  PROVE  TheMerchants!Sole(S) <=> \E x : S = {x}
<1>1. TheMerchants!Cardinality(S) = Cardinality(S)
  BY DEF TheMerchants!Cardinality, Cardinality
<1> QED BY <1>1, FS_Singleton DEF TheMerchants!Sole

LEMMA ReportFinite ==
  ASSUME MerchantInv
  PROVE  /\ IsFiniteSet(report.active) /\ IsFiniteSet(report.stores)
         /\ IsFiniteSet(TheMerchants!Candidates(report))
         /\ \A one, other \in report.stores : one.id = other.id => one = other
<1>1. /\ report.active \subseteq Entities /\ report.stores \subseteq StoreNotes
      /\ report.markets \subseteq MarketNotes
  BY DEF MerchantInv, MerchantsTyped, Reports
<1>2. IsFiniteSet(report.active)
  BY <1>1, MerchantsAssumption, FS_Subset
<1>3. IsFiniteSet(StoreNotes)
  <2> DEFINE f == [pair \in Stores \X Entities |-> [id |-> pair[1], entity |-> pair[2]]]
  <2>1. IsFiniteSet(Stores \X Entities)
    BY MerchantsAssumption, FS_Product
  <2>2. f \in [Stores \X Entities -> StoreNotes]
    BY DEF StoreNotes
  <2>3. ASSUME NEW note \in StoreNotes
        PROVE  \E pair \in Stores \X Entities : f[pair] = note
    <3>1. <<note.id, note.entity>> \in Stores \X Entities
      BY DEF StoreNotes
    <3>2. f[<<note.id, note.entity>>] = note
      BY <3>1 DEF StoreNotes
    <3> QED BY <3>1, <3>2
  <2>4. f \in Surjection(Stores \X Entities, StoreNotes)
    BY <2>2, <2>3 DEF Surjection
  <2> QED BY <2>1, <2>4, FS_Surjection
<1>4. IsFiniteSet(MarketNotes)
  <2> DEFINE Triples == (Markets \X Stores) \X BOOLEAN
             f == [t \in Triples |-> [id |-> t[1][1], store |-> t[1][2], active |-> t[2]]]
  <2>1. IsFiniteSet(BOOLEAN)
    <3>1. BOOLEAN = ({} \cup {TRUE}) \cup {FALSE}
      OBVIOUS
    <3>2. IsFiniteSet({} \cup {TRUE})
      BY FS_AddElement, FS_EmptySet
    <3> QED BY <3>1, <3>2, FS_AddElement
  <2>2. IsFiniteSet(Triples)
    BY <2>1, MerchantsAssumption, FS_Product
  <2>3. f \in [Triples -> MarketNotes]
    BY DEF MarketNotes
  <2>4. ASSUME NEW note \in MarketNotes
        PROVE  \E t \in Triples : f[t] = note
    <3>1. <<<<note.id, note.store>>, note.active>> \in Triples
      BY DEF MarketNotes
    <3>2. f[<<<<note.id, note.store>>, note.active>>] = note
      BY <3>1 DEF MarketNotes
    <3> QED BY <3>1, <3>2
  <2>5. f \in Surjection(Triples, MarketNotes)
    BY <2>3, <2>4 DEF Surjection
  <2> QED BY <2>2, <2>5, FS_Surjection
<1>5. IsFiniteSet(report.stores) /\ IsFiniteSet(TheMerchants!Candidates(report))
  <2>1. TheMerchants!Candidates(report) \subseteq MarketNotes
    BY <1>1 DEF TheMerchants!Candidates
  <2> QED BY <1>1, <1>3, <1>4, <2>1, FS_Subset
<1>6. \A one, other \in report.stores : one.id = other.id => one = other
  <2> SUFFICES ASSUME NEW one \in report.stores, NEW other \in report.stores, one.id = other.id
               PROVE  one = other
    OBVIOUS
  <2>1. one.entity = other.entity
    BY DEF MerchantInv, NotedForEver
  <2> QED BY <1>1, <2>1 DEF StoreNotes
<1> QED BY <1>2, <1>5, <1>6

LEMMA MerchantKept == MerchantInv /\ [TheMerchants!Next]_merchantVars => MerchantInv'
<1> SUFFICES ASSUME MerchantInv, [TheMerchants!Next]_merchantVars
             PROVE  MerchantInv'
  OBVIOUS
<1>1. CASE UNCHANGED merchantVars
  BY <1>1 DEF merchantVars, MerchantInv, MerchantsTyped, MarketsPlaced, NotedForEver, TrueWhileQuiet,
              TheMerchants!ActiveEntities, TheMerchants!Existing
<1>2. ASSUME NEW e \in Entities, NEW active_ \in BOOLEAN,
             TheMerchants!UpdateLegalEntity(e, active_)
               \/ \E currency \in Currencies : TheMerchants!CreateLegalEntity(e, currency, active_)
      PROVE  MerchantInv'
  BY <1>2, EntityCommits, CommitLeaves
<1>3. ASSUME NEW s \in Stores, TheMerchants!CreateStore(s)
      PROVE  MerchantInv'
  BY <1>3, StoreCommits, CommitLeaves
<1>4. ASSUME NEW k \in Markets, NEW active_ \in BOOLEAN, NEW payment_ \in PaymentChoices,
             \/ TheMerchants!UpdateStoreMarket(k, payment_, active_)
             \/ \E s \in Stores : TheMerchants!CreateStoreMarket(k, s, payment_, active_)
      PROVE  MerchantInv'
  BY <1>4, MarketCommits, CommitLeaves
<1>5. ASSUME NEW isNew, TheMerchants!SetPrice(isNew)
      PROVE  MerchantInv'
  BY <1>5, PriceCommits, CommitLeaves
<1>6. ASSUME NEW currency \in Currencies, TheMerchants!RemovePrice(currency)
      PROVE  MerchantInv'
  BY <1>6, PriceCommits, CommitLeaves
<1> QED BY <1>1, <1>2, <1>3, <1>4, <1>5, <1>6, LoadKept, QueryKept DEF TheMerchants!Next

LEMMA MerchantInit == Init => MerchantInv
<1> SUFFICES ASSUME Init PROVE MerchantInv
  OBVIOUS
<1> USE DEF Init, TheMerchants!Init
<1>1. report = TheMerchants!NoReport
  OBVIOUS
<1>2. report \in Reports
  BY <1>1 DEF TheMerchants!NoReport, Reports
<1>3. MerchantsTyped
  BY <1>2, MerchantsAssumption DEF MerchantsTyped, Monies
<1>4. MarketsPlaced
  BY MerchantsAssumption DEF MarketsPlaced, TheMerchants!Existing, TheMerchants!Absent
<1>5. NotedForEver /\ TrueWhileQuiet
  BY <1>1 DEF NotedForEver, TrueWhileQuiet, TheMerchants!NoReport
<1> QED BY <1>3, <1>4, <1>5 DEF MerchantInv

\* What a report that passes has seen.
LEMMA PassedNames ==
  ASSUME MerchantInv, report.step = "done", TheMerchants!Passed(report)
  PROVE  \E store \in report.stores, e \in report.active :
           /\ report.stores = {store} /\ report.active = {e}
           /\ store.entity = e /\ stores[store.id].entity = e
           /\ report.prices \subseteq {entities[e].currency}
           /\ \A m \in report.markets : m.active => m.store = store.id /\ m.id \in report.paid
<1>1. /\ TheMerchants!Sole(report.active) /\ TheMerchants!Bootstrap(report)
      /\ \A m \in report.markets : m.active => m.id \in report.paid
      /\ report.prices \subseteq report.accounting
  BY NothingFound
<1>2. PICK e : report.active = {e}
  BY <1>1, ReportFinite, SoleIsSingleton
<1>3. PICK store : report.stores = {store}
  BY <1>1, ReportFinite, SoleIsSingleton DEF TheMerchants!Bootstrap
<1>4. store.entity = e
  BY <1>1, <1>2, <1>3 DEF TheMerchants!Bootstrap
<1>5. report.accounting = {entities[e].currency}
  BY <1>1, <1>2 DEF MerchantInv, NotedForEver
<1>6. \A m \in report.markets : m.active => m.store = store.id
  BY <1>1, <1>3 DEF TheMerchants!Bootstrap, TheMerchants!Alternatives, TheMerchants!Candidates
<1>7. stores[store.id].entity = e
  BY <1>3, <1>4 DEF MerchantInv, NotedForEver
<1> QED BY <1>1, <1>2, <1>3, <1>4, <1>5, <1>6, <1>7

LEMMA PreflightHolds == MerchantInv => PreflightTrue
<1> SUFFICES ASSUME MerchantInv, report.step = "done"
             PROVE  /\ report.quiet => (TheMerchants!Passed(report) <=> TheMerchants!OneOwner)
                    /\ TheMerchants!Passed(report) =>
                         \E store \in report.stores :
                           /\ report.stores = {store} /\ stores[store.id].entity \in report.active
                           /\ report.prices \subseteq {entities[stores[store.id].entity].currency}
                           /\ \A m \in report.markets : m.active => markets[m.id].store = store.id
  BY DEF PreflightTrue, TheMerchants!PreflightTrue
<1> USE DEF MerchantInv
<1>1. ASSUME TheMerchants!Passed(report)
      PROVE  \E store \in report.stores :
               /\ report.stores = {store} /\ stores[store.id].entity \in report.active
               /\ report.prices \subseteq {entities[stores[store.id].entity].currency}
               /\ \A m \in report.markets : m.active => markets[m.id].store = store.id
  BY <1>1, PassedNames DEF NotedForEver
<1>2. ASSUME report.quiet
      PROVE  /\ report.active = TheMerchants!ActiveEntities
             /\ report.known = TheMerchants!Existing(entities)
             /\ report.stores = {[id |-> s, entity |-> stores[s].entity] :
                                   s \in TheMerchants!Existing(stores)}
             /\ report.markets = {[id |-> k, store |-> markets[k].store, active |-> markets[k].active] :
                                    k \in TheMerchants!Existing(markets)}
             /\ report.paid = {k \in TheMerchants!Existing(markets) : markets[k].payment # {}}
             /\ report.prices = prices /\ report.history = history
  BY <1>2 DEF TrueWhileQuiet
<1>3. ASSUME report.quiet, TheMerchants!Passed(report)
      PROVE  TheMerchants!OneOwner
  <2>1. PICK store \in report.stores, e \in report.active :
          /\ report.stores = {store} /\ report.active = {e}
          /\ store.entity = e /\ stores[store.id].entity = e
          /\ report.prices \subseteq {entities[e].currency}
          /\ \A m \in report.markets : m.active => m.store = store.id /\ m.id \in report.paid
    BY <1>3, PassedNames
  <2>2. TheMerchants!ActiveEntities = {e}
    BY <1>2, <1>3, <2>1
  <2>3. TheMerchants!Existing(stores) = {store.id}
    <3>1. \A s \in TheMerchants!Existing(stores) : s = store.id
      <4> SUFFICES ASSUME NEW s \in TheMerchants!Existing(stores) PROVE s = store.id
        OBVIOUS
      <4>1. [id |-> s, entity |-> stores[s].entity] \in report.stores
        BY <1>2, <1>3
      <4> QED BY <2>1, <4>1
    <3>2. store.id \in TheMerchants!Existing(stores)
      BY <1>2, <1>3, <2>1
    <3> QED BY <3>1, <3>2
  <2>4. PICK m : TheMerchants!Candidates(report) = {m}
    BY <1>3, NothingFound, ReportFinite, SoleIsSingleton DEF TheMerchants!Bootstrap
  <2>5. m \in report.markets /\ m.active /\ m.store = store.id /\ m.id \in report.paid
    BY <2>1, <2>4 DEF TheMerchants!Candidates
  <2>6. TheMerchants!ActiveMarkets = {m.id}
    <3>1. \A k \in TheMerchants!ActiveMarkets : k = m.id
      <4> SUFFICES ASSUME NEW k \in TheMerchants!ActiveMarkets PROVE k = m.id
        OBVIOUS
      <4> DEFINE note == [id |-> k, store |-> markets[k].store, active |-> markets[k].active]
      <4>1. k \in TheMerchants!Existing(markets) /\ markets[k].active
        BY DEF TheMerchants!ActiveMarkets
      <4>2. note \in report.markets /\ note.active
        BY <1>2, <1>3, <4>1
      <4>3. note \in TheMerchants!Candidates(report)
        BY <1>3, <4>2, NothingFound DEF TheMerchants!Bootstrap, TheMerchants!Alternatives
      <4> QED BY <2>4, <4>3
    <3>2. m.id \in TheMerchants!ActiveMarkets
      BY <1>2, <1>3, <2>5 DEF TheMerchants!ActiveMarkets
    <3> QED BY <3>1, <3>2
  <2>7. markets[m.id].store = store.id /\ markets[m.id].payment # {}
    BY <1>2, <1>3, <2>5 DEF NotedForEver
  <2>8. prices \subseteq {entities[e].currency} /\ ~history
    BY <1>2, <1>3, <2>1, NothingFound
  <2> QED BY <2>1, <2>2, <2>3, <2>6, <2>7, <2>8 DEF TheMerchants!OneOwner
<1>4. ASSUME report.quiet, TheMerchants!OneOwner
      PROVE  TheMerchants!Passed(report)
  <2>1. PICK e, s, k :
          /\ e \in TheMerchants!ActiveEntities /\ s \in TheMerchants!Existing(stores)
          /\ k \in TheMerchants!ActiveMarkets
          /\ TheMerchants!ActiveEntities = {e} /\ TheMerchants!Existing(stores) = {s}
          /\ TheMerchants!ActiveMarkets = {k}
          /\ stores[s].entity = e /\ markets[k].store = s /\ markets[k].payment # {}
          /\ prices \subseteq {entities[e].currency} /\ ~history
    BY <1>4 DEF TheMerchants!OneOwner
  <2> DEFINE store == [id |-> s, entity |-> e]
             m == [id |-> k, store |-> s, active |-> markets[k].active]
  <2>2. report.active = {e} /\ e \in report.known /\ report.stores = {store}
    BY <1>2, <1>4, <2>1 DEF TheMerchants!ActiveEntities
  <2>3. m \in report.markets /\ m.active /\ m.id \in report.paid /\ m.store = store.id
    BY <1>2, <1>4, <2>1 DEF TheMerchants!ActiveMarkets
  <2>4. \A n \in report.markets : n.store = store.id
    <3> SUFFICES ASSUME NEW n \in report.markets PROVE n.store = s
      OBVIOUS
    <3>1. PICK l \in TheMerchants!Existing(markets) : n.store = markets[l].store
      BY <1>2, <1>4
    <3> QED BY <2>1, <3>1 DEF MarketsPlaced
  <2>5. \A n \in report.markets : n.active => n = m
    <3> SUFFICES ASSUME NEW n \in report.markets, n.active PROVE n = m
      OBVIOUS
    <3>1. PICK l \in TheMerchants!Existing(markets) :
            n = [id |-> l, store |-> markets[l].store, active |-> markets[l].active]
      BY <1>2, <1>4
    <3>2. l \in TheMerchants!ActiveMarkets
      BY <3>1 DEF TheMerchants!ActiveMarkets
    <3> QED BY <2>1, <3>1, <3>2
  <2>6. TheMerchants!Sole(report.active) /\ TheMerchants!Sole(report.stores)
    BY <2>2, ReportFinite, SoleIsSingleton
  <2> HIDE DEF store, m
  <2>7. TheMerchants!Candidates(report) = {m}
    BY <2>2, <2>3, <2>5, <2>6 DEF TheMerchants!Candidates
  <2>8. TheMerchants!Sole(TheMerchants!Candidates(report)) /\ TheMerchants!Alternatives(report) = {}
    BY <2>5, <2>7, ReportFinite, SoleIsSingleton DEF TheMerchants!Alternatives
  <2>9. store.entity = e
    BY DEF store
  <2>10. TheMerchants!Bootstrap(report)
    BY <2>2, <2>3, <2>6, <2>7, <2>8, <2>9 DEF TheMerchants!Bootstrap
  <2>11. report.accounting = {entities[e].currency}
    BY <2>2, <2>10 DEF NotedForEver
  <2>12. report.prices \subseteq report.accounting /\ ~report.history
    BY <1>2, <1>4, <2>1, <2>11
  <2> QED BY <2>2, <2>3, <2>4, <2>5, <2>6, <2>9, <2>10, <2>12, NothingFound
<1> QED BY <1>1, <1>3, <1>4

\* The report passes exactly if everything belongs to one store, and says so
\* of what it has seen even if others commit, for every number of legal
\* entities, stores, markets and prices.
THEOREM PreflightIsTrue == Spec => []PreflightTrue
BY MerchantInit, MerchantStep, MerchantKept, PreflightHolds, PTL DEF Spec

-----------------------------------------------------------------------------
\* The views of a product.

\* A step of the storefront is a step of its views, or leaves them alone.
LEMMA ViewStep == [Next]_vars => [TheViews!Next]_viewVars
<1>1. ASSUME UNCHANGED vars PROVE UNCHANGED viewVars
  BY <1>1 DEF vars, viewVars
<1>2. ASSUME Next PROVE TheViews!Next \/ UNCHANGED viewVars
  BY <1>2 DEF Next
<1> QED BY <1>1, <1>2 DEF viewVars, TheViews!viewVars

Recordings ==
  {TheViews!Idle} \cup [step : {"waiting", "locked", "inserting"}, viewer : TheViews!Viewers,
                        source : Sources, now : Nat]

ViewsTyped ==
  /\ clock \in Nat
  /\ IsFiniteSet(views)
  /\ views \subseteq [viewer : TheViews!Viewers, source : Sources, at : Nat]
  /\ \A view \in views : view.at <= clock
  /\ DOMAIN viewLock = TheViews!Viewers /\ viewLock = [who \in TheViews!Viewers |-> viewLock[who]]
  /\ recording \in [Requests -> Recordings]

\* Who has looked holds the lock, and what it has not found is still not there.
LookedUnderLock ==
  \A r \in Requests :
    /\ recording[r] # TheViews!Idle => recording[r].now <= clock
    /\ TheViews!At(r, "locked") \/ TheViews!At(r, "inserting") => viewLock[recording[r].viewer] = r
    /\ TheViews!At(r, "inserting") => ~TheViews!Repeated(r)

ViewsSpaced ==
  \A one, other \in views :
    one.viewer = other.viewer /\ one # other
      => one.at - other.at > Hour \/ other.at - one.at > Hour

ViewInv ==
  /\ ViewsTyped /\ LookedUnderLock /\ ViewsSpaced
  /\ viewsCount = Cardinality(views)

\* A recorder goes on, and at most takes or frees its own lock.
LEMMA RecorderMoves ==
  ASSUME ViewInv, NEW r \in Requests, NEW now \in Recordings, recording' = [recording EXCEPT ![r] = now],
         UNCHANGED <<clock, views, viewsCount>>,
         DOMAIN viewLock' = TheViews!Viewers, viewLock' = [who \in TheViews!Viewers |-> viewLock'[who]],
         \A who \in TheViews!Viewers : viewLock[who] \notin {"free", r} => viewLock'[who] = viewLock[who],
         now # TheViews!Idle =>
           /\ now.now <= clock
           /\ now.step \in {"locked", "inserting"} => viewLock'[now.viewer] = r
           /\ now.step = "inserting" =>
                ~\E view \in TheViews!ViewsOf(now.viewer) : view.at >= now.now - Hour
  PROVE  ViewInv'
<1> USE RequestsAssumption
<1>1. recording' \in [Requests -> Recordings] /\ recording'[r] = now
      /\ \A u \in Requests : u # r => recording'[u] = recording[u]
  BY DEF ViewInv, ViewsTyped
<1>2. ASSUME NEW u \in Requests
      PROVE  /\ recording'[u] # TheViews!Idle => recording'[u].now <= clock
             /\ recording'[u].step \in {"locked", "inserting"} => viewLock'[recording'[u].viewer] = u
             /\ recording'[u].step = "inserting" =>
                  ~\E view \in TheViews!ViewsOf(recording'[u].viewer) :
                     view.at >= recording'[u].now - Hour
  <2>1. CASE u = r
    BY <1>1, <2>1 DEF TheViews!Idle
  <2>2. CASE u # r
    <3>1. recording'[u] = recording[u] /\ recording[u] \in Recordings
      BY <1>1, <2>2 DEF ViewInv, ViewsTyped
    <3>2. /\ recording[u] # TheViews!Idle => recording[u].now <= clock
          /\ recording[u].step \in {"locked", "inserting"} => viewLock[recording[u].viewer] = u
          /\ recording[u].step = "inserting" =>
               ~\E view \in TheViews!ViewsOf(recording[u].viewer) : view.at >= recording[u].now - Hour
      BY DEF ViewInv, LookedUnderLock, TheViews!At, TheViews!Repeated
    <3>3. recording[u].step \in {"locked", "inserting"} => recording[u].viewer \in TheViews!Viewers
      BY <3>1 DEF Recordings, TheViews!Idle
    <3> QED BY <2>2, <3>1, <3>2, <3>3
  <2> QED BY <2>1, <2>2
<1>3. LookedUnderLock'
  BY <1>2 DEF LookedUnderLock, TheViews!At, TheViews!Repeated, TheViews!ViewsOf
<1> QED BY <1>1, <1>3 DEF ViewInv, ViewsTyped, ViewsSpaced

\* Every view of the viewer is older than an hour, so the new one is new and
\* apart from them.
LEMMA InsertKept ==
  ASSUME ViewInv, NEW r \in Requests, TheViews!Insert(r)
  PROVE  ViewInv'
<1> USE RequestsAssumption, ViewsAssumption
<1>1. PICK who \in TheViews!Viewers, source \in Sources, now \in Nat :
        /\ who = recording[r].viewer /\ source = recording[r].source /\ now = recording[r].now
        /\ now <= clock /\ viewLock[who] = r
        /\ \A view \in views : view.viewer = who => view.at < now - Hour
  <2>1. recording[r] \in Recordings /\ recording[r].step = "inserting"
    BY DEF ViewInv, ViewsTyped, TheViews!Insert, TheViews!At
  <2>2. recording[r] # TheViews!Idle
    BY <2>1 DEF TheViews!Idle
  <2>3. /\ recording[r].viewer \in TheViews!Viewers /\ recording[r].source \in Sources
        /\ recording[r].now \in Nat
    BY <2>1, <2>2 DEF Recordings
  <2>4. /\ recording[r].now <= clock /\ viewLock[recording[r].viewer] = r
        /\ \A view \in views : view.viewer = recording[r].viewer =>
             ~(view.at >= recording[r].now - Hour)
    BY <2>1, <2>2 DEF ViewInv, LookedUnderLock, TheViews!At, TheViews!Repeated, TheViews!ViewsOf
  <2>5. \A view \in views : view.at \in Nat
    BY DEF ViewInv, ViewsTyped
  <2> QED BY <2>3, <2>4, <2>5
<1>2. PICK new : new = [viewer |-> who, source |-> source, at |-> clock]
  OBVIOUS
<1>3. /\ views' = views \cup {new} /\ viewsCount' = viewsCount + 1 /\ clock' = clock
      /\ viewLock' = [u \in TheViews!Viewers |-> IF viewLock[u] = r THEN "free" ELSE viewLock[u]]
      /\ recording' = [recording EXCEPT ![r] = TheViews!Idle]
  BY <1>1, <1>2 DEF TheViews!Insert, TheViews!Unlocked, TheViews!Free
<1>4. /\ clock \in Nat /\ IsFiniteSet(views)
      /\ views \subseteq [viewer : TheViews!Viewers, source : Sources, at : Nat]
  BY DEF ViewInv, ViewsTyped
<1>5. new \notin views
  BY <1>1, <1>2, <1>4
<1>6. IsFiniteSet(views') /\ viewsCount' = Cardinality(views')
  BY <1>3, <1>4, <1>5, FS_AddElement DEF ViewInv
<1>7. new \in [viewer : TheViews!Viewers, source : Sources, at : Nat]
  BY <1>2, <1>4
<1>8. ViewsTyped'
  BY <1>2, <1>3, <1>6, <1>7 DEF ViewInv, ViewsTyped, Recordings
<1>9. ViewsSpaced'
  <2> SUFFICES ASSUME NEW one \in views', NEW other \in views', one.viewer = other.viewer, one # other
               PROVE  one.at - other.at > Hour \/ other.at - one.at > Hour
    BY <1>3 DEF ViewsSpaced
  <2>1. ASSUME NEW view \in views, view.viewer = who
        PROVE  clock - view.at > Hour
    BY <1>1, <1>4, <2>1
  <2>2. CASE one \in views /\ other \in views
    BY <2>2 DEF ViewInv, ViewsSpaced
  <2>3. CASE one = new /\ other \in views
    BY <1>2, <2>1, <2>3
  <2>4. CASE other = new /\ one \in views
    BY <1>2, <2>1, <2>4
  <2> QED BY <1>3, <2>2, <2>3, <2>4
<1>10. LookedUnderLock'
  <2> SUFFICES ASSUME NEW u \in Requests
               PROVE  /\ recording'[u] # TheViews!Idle => recording'[u].now <= clock
                      /\ recording'[u].step \in {"locked", "inserting"} => viewLock'[recording'[u].viewer] = u
                      /\ recording'[u].step = "inserting" =>
                           ~\E view \in views' : view.viewer = recording'[u].viewer
                                                   /\ view.at >= recording'[u].now - Hour
    BY <1>3 DEF LookedUnderLock, TheViews!At, TheViews!Repeated, TheViews!ViewsOf
  <2>1. CASE u = r
    BY <1>3, <2>1 DEF ViewInv, ViewsTyped, TheViews!Idle
  <2>2. CASE u # r
    <3>1. recording'[u] = recording[u] /\ recording[u] \in Recordings
      BY <1>3, <2>2 DEF ViewInv, ViewsTyped
    <3>2. /\ recording[u] # TheViews!Idle => recording[u].now <= clock
          /\ recording[u].step \in {"locked", "inserting"} => viewLock[recording[u].viewer] = u
          /\ recording[u].step = "inserting" =>
               ~\E view \in views : view.viewer = recording[u].viewer
                                      /\ view.at >= recording[u].now - Hour
      BY DEF ViewInv, LookedUnderLock, TheViews!At, TheViews!Repeated, TheViews!ViewsOf
    <3>3. recording[u].step \in {"locked", "inserting"} => recording[u].viewer \in TheViews!Viewers
      BY <3>1 DEF Recordings, TheViews!Idle
    <3>4. recording[u].step = "inserting" => recording[u].viewer # who
      BY <1>1, <2>2, <3>2
    <3>5. new.viewer = who
      BY <1>2
    <3> QED BY <1>3, <2>2, <3>1, <3>2, <3>3, <3>4, <3>5
  <2> QED BY <2>1, <2>2
<1> QED BY <1>6, <1>8, <1>9, <1>10 DEF ViewInv

LEMMA ViewsKept == ViewInv /\ [TheViews!Next]_viewVars => ViewInv'
<1> SUFFICES ASSUME ViewInv, [TheViews!Next]_viewVars
             PROVE  ViewInv'
  OBVIOUS
<1>0. /\ DOMAIN viewLock = TheViews!Viewers /\ viewLock = [who \in TheViews!Viewers |-> viewLock[who]]
      /\ recording \in [Requests -> Recordings] /\ clock \in Nat
  BY DEF ViewInv, ViewsTyped
<1>1. ASSUME NEW r \in Requests, NEW who \in TheViews!Viewers, NEW source \in Sources,
             TheViews!Begin(r, who, source)
      PROVE  ViewInv'
  <2>1. PICK now : now = [step |-> "waiting", viewer |-> who, source |-> source, now |-> clock]
    OBVIOUS
  <2>2. /\ recording' = [recording EXCEPT ![r] = now]
        /\ UNCHANGED <<clock, views, viewsCount, viewLock>>
    BY <1>1, <2>1 DEF TheViews!Begin
  <2>3. now \in Recordings /\ now.now <= clock /\ now.step = "waiting"
    BY <1>0, <2>1 DEF Recordings
  <2> QED BY <1>0, <2>2, <2>3, RecorderMoves
<1>2. ASSUME NEW r \in Requests, TheViews!AcquireLock(r)
      PROVE  ViewInv'
  <2>1. recording[r] \in Recordings /\ recording[r].step = "waiting" /\ recording[r] # TheViews!Idle
    BY <1>0, <1>2 DEF TheViews!AcquireLock, TheViews!At, TheViews!Idle
  <2>2. PICK now : now = [recording[r] EXCEPT !.step = "locked"]
    OBVIOUS
  <2>3. /\ now \in Recordings /\ now.now = recording[r].now /\ now.viewer = recording[r].viewer
        /\ now.step = "locked" /\ recording[r].viewer \in TheViews!Viewers
    BY <2>1, <2>2 DEF Recordings
  <2>4. /\ recording' = [recording EXCEPT ![r] = now]
        /\ viewLock' = [viewLock EXCEPT ![recording[r].viewer] = r]
        /\ viewLock[recording[r].viewer] = "free"
        /\ UNCHANGED <<clock, views, viewsCount>>
    BY <1>0, <1>2, <2>2 DEF TheViews!AcquireLock, TheViews!Free
  <2>5. now.now <= clock
    BY <2>1, <2>3 DEF ViewInv, LookedUnderLock
  <2>6. /\ DOMAIN viewLock' = TheViews!Viewers /\ viewLock' = [who \in TheViews!Viewers |-> viewLock'[who]]
        /\ viewLock'[now.viewer] = r
        /\ \A who \in TheViews!Viewers : viewLock[who] \notin {"free", r} => viewLock'[who] = viewLock[who]
    BY <1>0, <2>3, <2>4
  <2> QED BY <2>3, <2>4, <2>5, <2>6, RecorderMoves
<1>3. ASSUME NEW r \in Requests, TheViews!Look(r)
      PROVE  ViewInv'
  <2>1. recording[r] \in Recordings /\ recording[r].step = "locked" /\ recording[r] # TheViews!Idle
    BY <1>0, <1>3 DEF TheViews!Look, TheViews!At, TheViews!Idle
  <2>2. PICK now : now = [recording[r] EXCEPT !.step = "inserting"]
    OBVIOUS
  <2>3. /\ now \in Recordings /\ now.now = recording[r].now /\ now.viewer = recording[r].viewer
        /\ now.step = "inserting"
    BY <2>1, <2>2 DEF Recordings
  <2>4. /\ recording' = [recording EXCEPT ![r] = now]
        /\ UNCHANGED <<clock, views, viewsCount, viewLock>>
    BY <1>0, <1>3, <2>2 DEF TheViews!Look
  <2>5. now.now <= clock /\ viewLock[now.viewer] = r
    BY <2>1, <2>3 DEF ViewInv, LookedUnderLock, TheViews!At
  <2>6. ~\E view \in TheViews!ViewsOf(now.viewer) : view.at >= now.now - Hour
    BY <1>3, <2>3 DEF TheViews!Look, TheViews!Repeated
  <2> QED BY <1>0, <2>3, <2>4, <2>5, <2>6, RecorderMoves
<1>4. ASSUME NEW r \in Requests, TheViews!Leave(r)
      PROVE  ViewInv'
  <2>1. TheViews!Idle \in Recordings
    BY DEF Recordings
  <2>2. /\ recording' = [recording EXCEPT ![r] = TheViews!Idle]
        /\ viewLock' = [who \in TheViews!Viewers |-> IF viewLock[who] = r THEN "free" ELSE viewLock[who]]
        /\ UNCHANGED <<clock, views, viewsCount>>
    BY <1>4 DEF TheViews!Leave, TheViews!Unlocked, TheViews!Free
  <2> QED BY <2>1, <2>2, RecorderMoves
<1>5. CASE TheViews!TimePasses
  <2>1. clock' = clock + 1 /\ UNCHANGED <<views, viewsCount, viewLock, recording>>
    BY <1>5 DEF TheViews!TimePasses
  <2>2. \A view \in views : view.at \in Nat /\ view.at <= clock'
    BY <1>0, <2>1 DEF ViewInv, ViewsTyped
  <2>3. \A r \in Requests : recording[r] # TheViews!Idle => recording[r].now <= clock'
    <3> SUFFICES ASSUME NEW r \in Requests, recording[r] # TheViews!Idle
                 PROVE  recording[r].now <= clock'
      OBVIOUS
    <3>1. recording[r].now \in Nat /\ recording[r].now <= clock
      BY <1>0 DEF Recordings, ViewInv, LookedUnderLock
    <3> QED BY <1>0, <2>1, <3>1
  <2>4. LookedUnderLock'
    BY <2>1, <2>3 DEF ViewInv, LookedUnderLock, TheViews!At, TheViews!Repeated, TheViews!ViewsOf
  <2> QED BY <1>0, <2>1, <2>2, <2>4 DEF ViewInv, ViewsTyped, ViewsSpaced
<1>6. CASE UNCHANGED viewVars
  BY <1>6 DEF viewVars, ViewInv, ViewsTyped, LookedUnderLock, ViewsSpaced, TheViews!At,
              TheViews!Repeated, TheViews!ViewsOf
<1> QED BY <1>1, <1>2, <1>3, <1>4, <1>5, <1>6, InsertKept DEF TheViews!Next
LEMMA ViewCardinality == \A S : TheViews!Cardinality(S) = Cardinality(S)
BY DEF TheViews!Cardinality, Cardinality

SumOf(f, S) == TheViews!MapThenSumSet(LAMBDA x : f[x], S)

AddsUp(g, f, S) ==
  g = [T \in SUBSET S |-> IF T = {} THEN 0
                          ELSE LET x == CHOOSE e \in T : TRUE
                               IN  f[x] + g[T \ {x}]]

\* What adds up like the sum, one element at a time, is the sum.
LEMMA SumIs ==
  ASSUME NEW S, IsFiniteSet(S), NEW f, NEW g, AddsUp(g, f, S)
  PROVE  SumOf(f, S) = g[S]
<1> DEFINE Sums(h) == [T \in SUBSET S |-> IF T = {} THEN 0
                                          ELSE LET x == CHOOSE e \in T : TRUE
                                               IN  f[x] + h[T \ {x}]]
<1>1. SumOf(f, S) = (CHOOSE h : h = Sums(h))[S]
  BY Zenon DEF SumOf, TheViews!MapThenSumSet, TheViews!MapThenFoldSet
<1>2. g = Sums(g)
  BY DEF AddsUp
<1>3. PICK h : h = Sums(h) /\ SumOf(f, S) = h[S]
  <2> HIDE DEF Sums
  <2> QED BY <1>1, <1>2, Zenon
<1> DEFINE Differ == {T \in SUBSET S : h[T] # g[T]}
<1>4. Differ = {}
  <2> SUFFICES ASSUME Differ # {} PROVE FALSE
    OBVIOUS
  <2>1. PICK R : R = {ss \in Nat \X Nat : ss[1] < ss[2]}
    OBVIOUS
  <2>2. IsWellFoundedOn(R, Nat)
    BY <2>1, NatLessThanWellFounded DEF OpToRel
  <2>3. PICK Sizes : Sizes = {Cardinality(T) : T \in Differ}
    OBVIOUS
  <2>4. \A T \in SUBSET S : IsFiniteSet(T) /\ Cardinality(T) \in Nat
    BY FS_Subset, FS_CardinalityType
  <2>5. Sizes \subseteq Nat /\ Sizes # {}
    <3>1. \A T \in Differ : Cardinality(T) \in Nat
      BY <2>4
    <3> HIDE DEF Differ
    <3> QED BY <2>3, <3>1
  <2>6. PICK least \in Sizes : \A n \in Sizes : ~(<<n, least>> \in R)
    BY <2>2, <2>5, WFMin
  <2>7. PICK T \in Differ : least = Cardinality(T)
    BY <2>3, <2>6
  <2>8. CASE T = {}
    <3>1. h[T] = 0 /\ g[T] = 0
      BY <1>2, <1>3, <2>8
    <3> QED BY <2>7, <3>1
  <2>9. CASE T # {}
    <3>1. PICK x \in T : x = CHOOSE e \in T : TRUE
      BY <2>9
    <3>2. h[T] = f[x] + h[T \ {x}] /\ g[T] = f[x] + g[T \ {x}]
      BY <1>2, <1>3, <2>9, <3>1
    <3>3. T \ {x} \in SUBSET S /\ Cardinality(T \ {x}) = Cardinality(T) - 1
      BY <2>4, FS_RemoveElement
    <3>4. Cardinality(T \ {x}) < Cardinality(T) /\ Cardinality(T) \in Nat /\ Cardinality(T \ {x}) \in Nat
      BY <2>4, <3>3
    <3>5. T \ {x} \notin Differ
      BY <2>1, <2>3, <2>6, <2>7, <3>4
    <3> QED BY <2>7, <3>2, <3>3, <3>5
  <2> QED BY <2>8, <2>9
<1>5. h[S] = g[S]
  BY <1>4
<1> QED BY <1>3, <1>5

\* Each view of a period has one source, so the sources share them out.
LEMMA SourcesShareViews ==
  ASSUME NEW V, IsFiniteSet(V), \A view \in V : view.source \in Sources,
         NEW f, f = [s \in Sources |-> Cardinality({view \in V : view.source = s})]
  PROVE  SumOf(f, Sources) = Cardinality(V)
<1> DEFINE Of(T) == {view \in V : view.source \in T}
<1>1. PICK g : g = [T \in SUBSET Sources |-> Cardinality(Of(T))]
  OBVIOUS
<1>2. \A T : IsFiniteSet(Of(T)) /\ Cardinality(Of(T)) \in Nat
  BY FS_Subset, FS_CardinalityType
<1>3. ASSUME NEW T \in SUBSET Sources, NEW x \in T
      PROVE  Cardinality(Of(T)) = f[x] + Cardinality(Of(T \ {x}))
  <2>1. PICK A, B : A = {view \in V : view.source = x} /\ B = Of(T \ {x})
    OBVIOUS
  <2>2. Of(T) = (A \cup B) /\ A \cap B = {} /\ f[x] = Cardinality(A)
    BY <2>1
  <2>3. IsFiniteSet(A) /\ IsFiniteSet(B) /\ Cardinality(A) \in Nat /\ Cardinality(B) \in Nat
    BY <1>2, <2>1, FS_Subset, FS_CardinalityType
  <2>4. Cardinality(A \cup B) = Cardinality(A) + Cardinality(B) - Cardinality(A \cap B)
    BY <2>3, FS_Union
  <2>5. Cardinality(A \cap B) = 0
    BY <2>2, FS_EmptySet
  <2>6. Cardinality(Of(T)) = Cardinality(A \cup B)
    <3> HIDE DEF Of
    <3> QED BY <2>2
  <2> HIDE DEF Of
  <2>7. Cardinality(Of(T \ {x})) = Cardinality(B)
    BY <2>1
  <2>8. Cardinality(A \cup B) = Cardinality(A) + Cardinality(B)
    BY <2>3, <2>4, <2>5
  <2> QED BY <2>2, <2>6, <2>7, <2>8
<1>4. AddsUp(g, f, Sources)
  <2>1. ASSUME NEW T \in SUBSET Sources
        PROVE  g[T] = IF T = {} THEN 0
                      ELSE LET x == CHOOSE e \in T : TRUE
                           IN  f[x] + g[T \ {x}]
    <3>1. CASE T = {}
      <4>1. Of(T) = {}
        BY <3>1
      <4> HIDE DEF Of
      <4> QED BY <1>1, <3>1, <4>1, FS_EmptySet
    <3>2. CASE T # {}
      <4>1. PICK x \in T : x = CHOOSE e \in T : TRUE
        BY <3>2
      <4>2. g[T] = f[x] + g[T \ {x}]
        <5>1. T \ {x} \in SUBSET Sources
          OBVIOUS
        <5> HIDE DEF Of
        <5> QED BY <1>1, <1>3, <5>1
      <4> QED BY <3>2, <4>1, <4>2
    <3> QED BY <3>1, <3>2
  <2> HIDE DEF Of
  <2> QED BY <1>1, <2>1 DEF AddsUp
<1>5. SumOf(f, Sources) = g[Sources]
  <2>1. IsFiniteSet(Sources)
    BY ViewsAssumption
  <2> QED BY <1>4, <2>1, SumIs
<1>6. Of(Sources) = V
  OBVIOUS
<1> HIDE DEF Of
<1> QED BY <1>1, <1>5, <1>6

\* As many viewers as views at most, even counted apart.
LEMMA ViewersOfViews ==
  ASSUME NEW V, IsFiniteSet(V)
  PROVE  Cardinality({view.viewer : view \in {w \in V : w.viewer \in Users}})
           + Cardinality({view.viewer : view \in {w \in V : w.viewer \in Sessions}})
         <= Cardinality(V)
<1>1. ASSUME NEW W, IsFiniteSet(W)
      PROVE  /\ Cardinality({view.viewer : view \in W}) \in Nat
             /\ Cardinality({view.viewer : view \in W}) <= Cardinality(W)
  <2>1. PICK viewers : viewers = {view.viewer : view \in W}
    OBVIOUS
  <2>2. PICK f : f = [view \in W |-> view.viewer]
    OBVIOUS
  <2>3. f \in Surjection(W, viewers)
    BY <2>1, <2>2 DEF Surjection
  <2> QED BY <1>1, <2>1, <2>3, FS_Surjection, FS_CardinalityType
<1>2. PICK A, B : /\ A = {w \in V : w.viewer \in Users}
                  /\ B = {w \in V : w.viewer \in Sessions}
  OBVIOUS
<1>3. A \in SUBSET V /\ B \in SUBSET V /\ A \cup B \in SUBSET V /\ A \cap B = {}
  BY <1>2, ViewsAssumption
<1>4. /\ IsFiniteSet(A) /\ IsFiniteSet(B) /\ Cardinality(A) \in Nat /\ Cardinality(B) \in Nat
      /\ Cardinality(A \cup B) = Cardinality(A) + Cardinality(B) - Cardinality(A \cap B)
      /\ Cardinality(A \cup B) <= Cardinality(V) /\ Cardinality(A \cup B) \in Nat
      /\ Cardinality(V) \in Nat
  BY <1>3, FS_Subset, FS_Union, FS_CardinalityType
<1>5. Cardinality(A \cap B) = 0
  BY <1>3, FS_EmptySet
<1>6. /\ Cardinality({view.viewer : view \in A}) \in Nat
      /\ Cardinality({view.viewer : view \in B}) \in Nat
      /\ Cardinality({view.viewer : view \in A}) <= Cardinality(A)
      /\ Cardinality({view.viewer : view \in B}) <= Cardinality(B)
  BY <1>1, <1>4
<1>7. /\ Cardinality({view.viewer : view \in A}) + Cardinality({view.viewer : view \in B})
           <= Cardinality(V)
  BY <1>4, <1>5, <1>6
<1> QED BY <1>2, <1>7

LEMMA ViewsInit == Init => ViewInv
<1> SUFFICES ASSUME Init PROVE ViewInv
  OBVIOUS
<1>1. /\ clock = 0 /\ views = {} /\ viewsCount = 0
      /\ viewLock = [who \in TheViews!Viewers |-> "free"]
      /\ recording = [r \in Requests |-> TheViews!Idle]
  BY DEF Init, TheViews!Init, TheViews!Free
<1>2. IsFiniteSet(views) /\ Cardinality(views) = 0
  BY <1>1, FS_EmptySet
<1> QED BY <1>1, <1>2 DEF ViewInv, ViewsTyped, LookedUnderLock, ViewsSpaced, Recordings,
           TheViews!Idle, TheViews!At, TheViews!Repeated, TheViews!ViewsOf

\* However many calls run at once, two views of a viewer are more than an hour
\* apart, all are counted, and a report of any period is about these views.
THEOREM ViewsStayApart == Spec => []ViewsApart
<1>1. ViewInv => ViewsApart
  <2> SUFFICES ASSUME ViewInv PROVE ViewsApart
    OBVIOUS
  <2>1. ASSUME NEW start \in 0..clock
        PROVE  /\ SumOf(TheViews!BySource(start), Sources)
                    = TheViews!Cardinality(TheViews!Since(start))
               /\ TheViews!UniqueViewers(start) <= SumOf(TheViews!BySource(start), Sources)
    <3>1. PICK V : V = TheViews!Since(start)
      OBVIOUS
    <3>2. V \in SUBSET views
      BY <3>1 DEF TheViews!Since
    <3>3. IsFiniteSet(V) /\ \A view \in V : view.source \in Sources
      BY <3>2, FS_Subset DEF ViewInv, ViewsTyped
    <3>4. PICK f : f = TheViews!BySource(start)
      OBVIOUS
    <3>5. f = [s \in Sources |-> Cardinality({view \in V : view.source = s})]
      BY <3>1, <3>4, ViewCardinality DEF TheViews!BySource
    <3>6. SumOf(f, Sources) = Cardinality(V)
      BY <3>3, <3>5, SourcesShareViews
    <3>7. TheViews!UniqueViewers(start) <= Cardinality(V)
      BY <3>1, <3>3, ViewersOfViews, ViewCardinality DEF TheViews!UniqueViewers
    <3> QED BY <3>1, <3>4, <3>6, <3>7, ViewCardinality
  <2>2. ViewsSpaced /\ viewsCount = TheViews!Cardinality(views)
    BY ViewCardinality DEF ViewInv
  <2> QED BY <2>1, <2>2, Zenon DEF ViewsApart, TheViews!ViewsApart, ViewsSpaced, SumOf
<1> QED BY <1>1, ViewsInit, ViewStep, ViewsKept, PTL DEF Spec

-----------------------------------------------------------------------------
\* The prices of a product.

\* A step of the storefront is a step of its prices, or leaves them alone.
LEMMA PriceStep == [Next]_vars => [ThePrices!Next]_priceVars
<1>1. ASSUME UNCHANGED vars PROVE UNCHANGED priceVars
  BY <1>1 DEF vars, priceVars
<1>2. ASSUME Next PROVE ThePrices!Next \/ UNCHANGED priceVars
  BY <1>2 DEF Next
<1> QED BY <1>1, <1>2 DEF priceVars, ThePrices!priceVars

PriceRow == [price : Nat, active : BOOLEAN] \cup {ThePrices!Gone}

IsTransaction(t) ==
  /\ t = [step |-> "changing", todo |-> t.todo, rows |-> t.rows, ranges |-> t.ranges,
          log |-> t.log]
  /\ t.todo \in Seq(ThePrices!Changes)
  /\ t.rows \in [Variants -> PriceRow \cup {ThePrices!Unwritten}]
  /\ t.ranges = [p \in Products |-> t.ranges[p]]

\* What a transaction has written belongs to products it has locked.
WrittenLocked(w, t) ==
  /\ \A v \in Variants : t.rows[v] # ThePrices!Unwritten => locked[ProductOf[v]] = w
  /\ \A p \in Products : t.ranges[p] # ThePrices!Unwritten => locked[p] = w

\* The range it has written is that of the prices it sees, and where it has
\* written none it has changed no row of the product.
RangesHold(t) ==
  \A p \in Products :
    /\ t.ranges[p] # ThePrices!Unwritten =>
         t.ranges[p] = ThePrices!BoundsOf(p, ThePrices!Seen(t.rows))
    /\ t.ranges[p] = ThePrices!Unwritten =>
         \A v \in Variants : ProductOf[v] = p /\ t.rows[v] # ThePrices!Unwritten
                               => t.rows[v] = variants[v]

\* The committed price is in the history if the transaction replaces it.
LogHolds(t) ==
  \A v \in Variants :
    /\ t.rows[v] # ThePrices!Unwritten
    /\ {variants[v].price, t.rows[v].price} \cap {-1, 0} = {}
    /\ t.rows[v].price # variants[v].price
    => [variant |-> v, old |-> variants[v].price] \in t.log

\* A bulk update only sets prices, and any other transaction is one change.
TodoHolds(t) ==
  \/ /\ \A i \in DOMAIN t.todo : t.todo[i].kind = "set"
     /\ \A v \in Variants : t.rows[v] # ThePrices!Unwritten => t.rows[v].price \in Nat \ {0}
  \/ /\ Len(t.todo) <= 1
     /\ t.todo # << >> => \A v \in Variants : t.rows[v] = ThePrices!Unwritten

TransactionInv(w, t) ==
  IsTransaction(t) /\ WrittenLocked(w, t) /\ RangesHold(t) /\ LogHolds(t) /\ TodoHolds(t)

PriceInv ==
  /\ variants \in [Variants -> PriceRow]
  /\ bounds = [p \in Products |-> bounds[p]]
  /\ locked \in [Products -> Requests \cup {"free"}]
  /\ pricing = [w \in Requests |-> pricing[w]]
  /\ \A w \in Requests : \A t \in {pricing[w]} : t.step = "changing" => TransactionInv(w, t)
  /\ PricesTrue

LEMMA RowIsWritten == \A r \in PriceRow : r # ThePrices!Unwritten
BY DEF PriceRow, ThePrices!Gone, ThePrices!Unwritten

LEMMA RangeIsWritten ==
  ASSUME NEW p, NEW rs PROVE ThePrices!BoundsOf(p, rs) # ThePrices!Unwritten
<1> DEFINE priced == {rs[v].price : v \in {w \in Variants : /\ ProductOf[w] = p /\ rs[w].active
                                                            /\ rs[w].price # ThePrices!Unpriced}}
<1>1. ThePrices!BoundsOf(p, rs) =
        IF priced = {} THEN ThePrices!NoPrices
        ELSE [min |-> ThePrices!Min(priced), max |-> ThePrices!Max(priced)]
  BY DEF ThePrices!BoundsOf
<1> HIDE DEF priced
<1> QED BY <1>1 DEF ThePrices!NoPrices, ThePrices!Unwritten

\* The range is of the rows of the product that count.
LEMMA SameRange ==
  ASSUME NEW p, NEW r1, NEW r2,
         \A v \in Variants : ProductOf[v] = p =>
           \/ r1[v] = r2[v]
           \/ /\ ~r1[v].active \/ r1[v].price = 0
              /\ ~r2[v].active \/ r2[v].price = 0
  PROVE  ThePrices!BoundsOf(p, r1) = ThePrices!BoundsOf(p, r2)
<1> DEFINE Priced(rs) == {rs[v].price : v \in {w \in Variants : /\ ProductOf[w] = p /\ rs[w].active
                                                              /\ rs[w].price # ThePrices!Unpriced}}
<1>1. \A rs : ThePrices!BoundsOf(p, rs) =
        IF Priced(rs) = {} THEN ThePrices!NoPrices
        ELSE [min |-> ThePrices!Min(Priced(rs)), max |-> ThePrices!Max(Priced(rs))]
  BY DEF ThePrices!BoundsOf
<1>2. Priced(r1) = Priced(r2)
  BY DEF ThePrices!Unpriced
<1> HIDE DEF Priced
<1> QED BY <1>1, <1>2

\* What a transaction sees of a product that others leave alone.
LEMMA SeesTheSame ==
  ASSUME NEW w \in Requests, NEW t, TransactionInv(w, t),
         \A v \in Variants : locked[ProductOf[v]] = w => variants'[v] = variants[v],
         \A p \in Products : locked[p] = w => locked'[p] = w
  PROVE  TransactionInv(w, t)'
<1>1. WrittenLocked(w, t)'
  BY PricesAssumption DEF TransactionInv, WrittenLocked
<1>2. LogHolds(t)'
  BY DEF TransactionInv, WrittenLocked, LogHolds
<1>3. ASSUME NEW p \in Products, t.ranges[p] # ThePrices!Unwritten
      PROVE  ThePrices!BoundsOf(p, ThePrices!Seen(t.rows))' = ThePrices!BoundsOf(p, ThePrices!Seen(t.rows))
  <2>1. PICK seen : seen = ThePrices!Seen(t.rows)
    OBVIOUS
  <2>2. PICK later : later = ThePrices!Seen(t.rows)'
    OBVIOUS
  <2>3. \A v \in Variants : ProductOf[v] = p => seen[v] = later[v]
    BY <1>3, <2>1, <2>2 DEF ThePrices!Seen, TransactionInv, WrittenLocked
  <2>4. ThePrices!BoundsOf(p, seen) = ThePrices!BoundsOf(p, later)
    BY <2>3, SameRange
  <2>5. ThePrices!BoundsOf(p, ThePrices!Seen(t.rows))' = ThePrices!BoundsOf(p, later)
    BY <2>2 DEF ThePrices!BoundsOf
  <2> QED BY <2>1, <2>4, <2>5
<1>4. RangesHold(t)'
  <2>1. \A p \in Products : t.ranges[p] = ThePrices!Unwritten =>
          \A v \in Variants : ProductOf[v] = p /\ t.rows[v] # ThePrices!Unwritten
                                => t.rows[v] = variants'[v]
    BY DEF TransactionInv, WrittenLocked, RangesHold
  <2>2. \A p \in Products : t.ranges[p] # ThePrices!Unwritten =>
          t.ranges[p] = ThePrices!BoundsOf(p, ThePrices!Seen(t.rows))'
    BY <1>3 DEF TransactionInv, RangesHold
  <2> QED BY <2>1, <2>2 DEF RangesHold
<1>5. IsTransaction(t)' /\ TodoHolds(t)'
  BY DEF TransactionInv, IsTransaction, TodoHolds
<1> QED BY <1>1, <1>2, <1>4, <1>5 DEF TransactionInv

\* One request moves on, and touches nothing that the others have locked.
LEMMA RequestMoves ==
  ASSUME PriceInv, NEW w \in Requests, NEW CONSTANT new, pricing' = [pricing EXCEPT ![w] = new],
         variants' \in [Variants -> PriceRow], bounds' = [p \in Products |-> bounds'[p]],
         locked' \in [Products -> Requests \cup {"free"}], PricesTrue',
         new.step = "changing" => TransactionInv(w, new)',
         \A u \in Requests \ {w} :
           /\ \A v \in Variants : locked[ProductOf[v]] = u => variants'[v] = variants[v]
           /\ \A p \in Products : locked[p] = u => locked'[p] = u
  PROVE  PriceInv'
<1>1. ASSUME NEW u \in Requests, NEW t \in {pricing'[u]}, t.step = "changing"
      PROVE  TransactionInv(u, t)'
  <2>1. CASE u = w
    <3>1. t = new
      BY <2>1, <1>1 DEF PriceInv
    <3> QED BY <1>1, <2>1, <3>1
  <2>2. CASE u # w
    <3>1. t = pricing[u] /\ TransactionInv(u, t)
      BY <1>1, <2>2 DEF PriceInv
    <3> QED BY <2>2, <3>1, SeesTheSame
  <2> QED BY <2>1, <2>2
<1>2. pricing' = [u \in Requests |-> pricing'[u]]
  BY DEF PriceInv
<1> QED BY <1>1, <1>2 DEF PriceInv

LEMMA PriceInit == Init => PriceInv
<1> SUFFICES ASSUME Init PROVE PriceInv
  OBVIOUS
<1>1. variants \in [Variants -> PriceRow]
  BY DEF Init, ThePrices!Init, PriceRow, ThePrices!Unpriced
<1>2. \A w \in Requests : pricing[w].step = "idle"
  BY DEF Init, ThePrices!Init, ThePrices!Idle
<1>3. \A p \in Products : ThePrices!BoundsOf(p, variants) = ThePrices!NoPrices
  BY DEF Init, ThePrices!Init, ThePrices!BoundsOf, ThePrices!Unpriced
<1> QED BY <1>1, <1>2, <1>3 DEF Init, ThePrices!Init, PriceInv, PricesTrue, ThePrices!PricesTrue, ThePrices!Free

LEMMA ChangesTyped ==
  ASSUME NEW s \in Seq(ThePrices!Changes), s # << >>
  PROVE  /\ Len(s) \in Nat /\ Len(s) >= 1 /\ Head(s) = s[1] /\ 1 \in DOMAIN s
         /\ Head(s).variant \in Variants
         /\ Head(s).kind = "set" => Head(s).price \in Nat \ {0}
         /\ Head(s).kind \in {"set", "remove", "activate", "deactivate", "delete", "recalculate"}
         /\ Tail(s) \in Seq(ThePrices!Changes) /\ Len(Tail(s)) = Len(s) - 1
         /\ \A i \in DOMAIN Tail(s) : i + 1 \in DOMAIN s /\ Tail(s)[i] = s[i + 1]
         /\ Len(s) <= 1 => Tail(s) = << >>
<1>1. Head(s) = s[1] /\ 1 \in DOMAIN s /\ Head(s) \in ThePrices!Changes /\ Len(s) \in Nat /\ Len(s) >= 1
  OBVIOUS
<1>2. /\ Tail(s) \in Seq(ThePrices!Changes) /\ Len(Tail(s)) = Len(s) - 1
      /\ \A i \in DOMAIN Tail(s) : i + 1 \in DOMAIN s /\ Tail(s)[i] = s[i + 1]
  OBVIOUS
<1>3. Len(s) <= 1 => Tail(s) = << >>
  OBVIOUS
<1> QED BY <1>1, <1>2, <1>3, PricesAssumption DEF ThePrices!Changes

\* A change leaves a row a row; which prices it may replace.
LEMMA ChangedIs ==
  ASSUME NEW r \in PriceRow, NEW c,
         c.kind \in {"set", "remove", "activate", "deactivate", "delete", "recalculate"},
         c.kind = "set" => c.price \in Nat \ {0}
  PROVE  LET after == ThePrices!Changed(r, c) IN
         /\ after \in PriceRow
         /\ c.kind = "set" /\ r # ThePrices!Gone => after.price \in Nat \ {0}
         /\ c.kind # "set" => after.price \in {r.price, 0, -1}
         /\ c.kind = "remove" /\ r.price \in {-1, 0} => after = r
<1>1. r = ThePrices!Gone \/ (r # ThePrices!Gone /\ r = [price |-> r.price, active |-> r.active]
                            /\ r.price \in Nat /\ r.active \in BOOLEAN)
  BY DEF PriceRow
<1>2. CASE r = ThePrices!Gone
  BY <1>2 DEF ThePrices!Changed, PriceRow, ThePrices!Gone
<1>3. CASE r # ThePrices!Gone
  <2>1. c.kind = "set" => ThePrices!Changed(r, c) = [price |-> c.price, active |-> r.active]
    BY <1>1, <1>3 DEF ThePrices!Changed
  <2>2. c.kind = "remove" => ThePrices!Changed(r, c) = [price |-> 0, active |-> r.active]
    BY <1>1, <1>3 DEF ThePrices!Changed, ThePrices!Unpriced
  <2>3. c.kind = "activate" => ThePrices!Changed(r, c) = [price |-> r.price, active |-> TRUE]
    BY <1>1, <1>3 DEF ThePrices!Changed
  <2>4. c.kind = "deactivate" => ThePrices!Changed(r, c) = [price |-> r.price, active |-> FALSE]
    BY <1>1, <1>3 DEF ThePrices!Changed
  <2>5. c.kind = "delete" => ThePrices!Changed(r, c) = ThePrices!Gone
    BY <1>3 DEF ThePrices!Changed
  <2>6. c.kind = "recalculate" => ThePrices!Changed(r, c) = r
    BY <1>3 DEF ThePrices!Changed
  <2>7. PICK after : after = ThePrices!Changed(r, c)
    OBVIOUS
  <2>8. \/ /\ c.kind # "remove" /\ after.price \in Nat /\ after.active \in BOOLEAN
           /\ after = [price |-> after.price, active |-> after.active]
           /\ after.price = IF c.kind = "set" THEN c.price ELSE r.price
        \/ c.kind = "remove" /\ after = [price |-> 0, active |-> r.active]
        \/ c.kind = "delete" /\ after = ThePrices!Gone
    <3>1. CASE c.kind = "set"
      BY <1>1, <1>3, <2>1, <2>7, <3>1
    <3>2. CASE c.kind = "remove"
      BY <2>2, <2>7, <3>2
    <3>3. CASE c.kind = "activate"
      <4>1. after.price = r.price /\ after.active = TRUE /\ r.price \in Nat
        BY <1>1, <1>3, <2>3, <2>7, <3>3
      <4>2. after = [price |-> after.price, active |-> after.active]
        BY <2>3, <2>7, <3>3
      <4> QED BY <3>3, <4>1, <4>2
    <3>4. CASE c.kind = "deactivate"
      <4>1. after.price = r.price /\ after.active = FALSE /\ r.price \in Nat
        BY <1>1, <1>3, <2>4, <2>7, <3>4
      <4>2. after = [price |-> after.price, active |-> after.active]
        BY <2>4, <2>7, <3>4
      <4> QED BY <3>4, <4>1, <4>2
    <3>5. CASE c.kind = "delete"
      BY <2>5, <2>7, <3>5
    <3>6. CASE c.kind = "recalculate"
      BY <1>1, <1>3, <2>6, <2>7, <3>6
    <3> QED BY <3>1, <3>2, <3>3, <3>4, <3>5, <3>6
  <2>9. after \in PriceRow
    BY <1>1, <1>3, <2>8 DEF PriceRow
  <2>10. c.kind = "set" => after.price \in Nat \ {0}
    BY <2>8
  <2>11. c.kind # "set" => after.price \in {r.price, 0, -1}
    BY <2>8 DEF ThePrices!Gone
  <2>12. c.kind = "remove" /\ r.price \in {-1, 0} => after = r
    BY <1>1, <1>3, <2>8
  <2> QED BY <2>7, <2>9, <2>10, <2>11, <2>12
<1> QED BY <1>2, <1>3

\* A transaction after its next change (ChangeNext).
ChangedNext(t, new) ==
  LET c == Head(t.todo)
      p == ProductOf[c.variant]
      before == ThePrices!Seen(t.rows)
      written == [t.rows EXCEPT ![c.variant] = ThePrices!Changed(before[c.variant], c)]
      range == IF ThePrices!Republishes(c, before)
                 THEN ThePrices!BoundsOf(p, ThePrices!Seen(written)) ELSE t.ranges[p]
  IN /\ ThePrices!Works(c, before)
     /\ new = [step |-> "changing", todo |-> Tail(t.todo), rows |-> written,
               ranges |-> [t.ranges EXCEPT ![p] = range],
               log |-> t.log \cup ThePrices!History(c, before)]

\* A transaction that changes one row more, of a product it has locked.
LEMMA OneChange ==
  ASSUME NEW w \in Requests, NEW t, TransactionInv(w, t), t.todo # << >>,
         variants \in [Variants -> PriceRow], NEW new, ChangedNext(t, new)
  PROVE  /\ IsTransaction(new) /\ RangesHold(new) /\ LogHolds(new) /\ TodoHolds(new)
         /\ \A v \in Variants : new.rows[v] # ThePrices!Unwritten =>
              ProductOf[v] = ProductOf[Head(t.todo).variant] \/ t.rows[v] # ThePrices!Unwritten
         /\ \A q \in Products : new.ranges[q] # ThePrices!Unwritten =>
              q = ProductOf[Head(t.todo).variant] \/ t.ranges[q] # ThePrices!Unwritten
<1>h. PICK c : c = Head(t.todo)
  BY Zenon
<1>p. PICK p : p = ProductOf[c.variant]
  BY Zenon
<1>e. PICK before : before = ThePrices!Seen(t.rows)
  BY Zenon
<1>a. PICK written : written = [t.rows EXCEPT ![c.variant] = ThePrices!Changed(before[c.variant], c)]
  BY Zenon
<1>b. PICK range : range = IF ThePrices!Republishes(c, before)
                             THEN ThePrices!BoundsOf(p, ThePrices!Seen(written)) ELSE t.ranges[p]
  BY Zenon
<1>c. new = [step |-> "changing", todo |-> Tail(t.todo), rows |-> written,
             ranges |-> [t.ranges EXCEPT ![p] = range],
             log |-> t.log \cup ThePrices!History(c, before)]
  BY <1>h, <1>p, <1>e, <1>a, <1>b, Zenon DEF ChangedNext
<1>w. ThePrices!Works(c, before)
  BY <1>h, <1>e, Zenon DEF ChangedNext
<1> DEFINE x == c.variant
<1>1. /\ x \in Variants /\ p \in Products
      /\ c.kind = "set" => c.price \in Nat \ {0}
      /\ c.kind \in {"set", "remove", "activate", "deactivate", "delete", "recalculate"}
  BY <1>h, <1>p, ChangesTyped, PricesAssumption DEF TransactionInv, IsTransaction
<1>2. \A v \in Variants : /\ before[v] = IF t.rows[v] = ThePrices!Unwritten THEN variants[v] ELSE t.rows[v]
                          /\ before[v] \in PriceRow
  BY <1>e DEF ThePrices!Seen, TransactionInv, IsTransaction
<1>3. PICK after : after = ThePrices!Changed(before[x], c)
  OBVIOUS
<1>4. /\ after \in PriceRow /\ after # ThePrices!Unwritten
      /\ c.kind = "set" /\ before[x] # ThePrices!Gone => after.price \in Nat \ {0}
      /\ c.kind # "set" => after.price \in {before[x].price, 0, -1}
      /\ c.kind = "remove" /\ before[x].price \in {-1, 0} => after = before[x]
  <2>1. before[x] \in PriceRow
    BY <1>1, <1>2
  <2> HIDE DEF x
  <2>2. LET row == before[x] IN
        /\ after \in PriceRow
        /\ c.kind = "set" /\ row # ThePrices!Gone => after.price \in Nat \ {0}
        /\ c.kind # "set" => after.price \in {row.price, 0, -1}
        /\ c.kind = "remove" /\ row.price \in {-1, 0} => after = row
    BY <1>1, <1>3, <2>1, ChangedIs
  <2> QED BY <2>2, RowIsWritten
<1>5. /\ written = [t.rows EXCEPT ![x] = after]
      /\ written \in [Variants -> PriceRow \cup {ThePrices!Unwritten}]
      /\ written[x] = after /\ \A v \in Variants \ {x} : written[v] = t.rows[v]
  BY <1>a, <1>1, <1>3, <1>4 DEF TransactionInv, IsTransaction
<1>6. /\ new.step = "changing" /\ new.todo = Tail(t.todo) /\ new.rows = written
      /\ new.ranges = [t.ranges EXCEPT ![p] = range]
      /\ new.log = t.log \cup ThePrices!History(c, before)
      /\ new = [step |-> new.step, todo |-> new.todo, rows |-> new.rows, ranges |-> new.ranges,
                log |-> new.log]
  BY <1>c
<1>7. /\ new.ranges = [q \in Products |-> new.ranges[q]]
      /\ new.ranges[p] = range /\ \A q \in Products \ {p} : new.ranges[q] = t.ranges[q]
  BY <1>1, <1>6 DEF TransactionInv, IsTransaction
<1>8. IsTransaction(new)
  <2>1. Tail(t.todo) \in Seq(ThePrices!Changes)
    BY ChangesTyped DEF TransactionInv, IsTransaction
  <2> QED BY <1>5, <1>6, <1>7, <2>1 DEF IsTransaction
<1>9. PICK seen : seen = ThePrices!Seen(written)
  OBVIOUS
<1>10. /\ \A v \in Variants \ {x} : seen[v] = before[v]
       /\ seen[x] = after
  BY <1>1, <1>2, <1>4, <1>5, <1>9 DEF ThePrices!Seen
<1>11. ~ThePrices!Republishes(c, before) => after = before[x] /\ c.kind = "remove"
  BY <1>4 DEF ThePrices!Republishes, ThePrices!Gone, ThePrices!Unpriced
<1>12. RangesHold(new)
  <2>1. ASSUME NEW q \in Products, q # p \/ ~ThePrices!Republishes(c, before)
        PROVE  ThePrices!BoundsOf(q, seen) = ThePrices!BoundsOf(q, before)
    <3>1. \A v \in Variants : ProductOf[v] = q => seen[v] = before[v]
      BY <1>p, <1>10, <1>11, <2>1
    <3> QED BY <3>1, SameRange
  <2>2. ASSUME NEW q \in Products, new.ranges[q] # ThePrices!Unwritten
        PROVE  new.ranges[q] = ThePrices!BoundsOf(q, seen)
    <3>1. CASE q = p /\ ThePrices!Republishes(c, before)
      BY <1>b, <1>7, <1>9, <3>1
    <3>2. CASE ~(q = p /\ ThePrices!Republishes(c, before))
      <4>1. new.ranges[q] = t.ranges[q]
        <5>1. CASE q = p
          <6>1. range = t.ranges[p]
            BY <1>b, <3>2, <5>1
          <6> QED BY <1>7, <5>1, <6>1
        <5> QED BY <1>7, <5>1
      <4>2. t.ranges[q] = ThePrices!BoundsOf(q, before)
        BY <1>e, <2>2, <4>1 DEF TransactionInv, RangesHold
      <4> QED BY <2>1, <3>2, <4>1, <4>2
    <3> QED BY <3>1, <3>2
  <2>3. ASSUME NEW q \in Products, new.ranges[q] = ThePrices!Unwritten,
               NEW v \in Variants, ProductOf[v] = q, written[v] # ThePrices!Unwritten
        PROVE  written[v] = variants[v]
    <3>1. q = p => ~ThePrices!Republishes(c, before)
      <4>1. CASE q = p /\ ThePrices!Republishes(c, before)
        <5>1. range = ThePrices!BoundsOf(p, ThePrices!Seen(written))
          BY <1>b, <4>1
        <5> QED BY <1>7, <2>3, <4>1, <5>1, RangeIsWritten
      <4> QED BY <4>1
    <3>2. t.ranges[q] = ThePrices!Unwritten
      <4>1. CASE q = p
        <5>1. range = t.ranges[p]
          BY <1>b, <3>1, <4>1
        <5> QED BY <1>7, <2>3, <4>1, <5>1
      <4> QED BY <1>7, <2>3, <4>1
    <3>3. t.rows[v] # ThePrices!Unwritten => t.rows[v] = variants[v]
      BY <2>3, <3>2 DEF TransactionInv, RangesHold
    <3>4. before[v] = variants[v]
      BY <1>2, <3>3
    <3>5. CASE v = x
      BY <1>p, <1>5, <1>11, <2>3, <3>1, <3>4, <3>5
    <3>6. CASE v # x
      BY <1>5, <2>3, <3>3, <3>6
    <3> QED BY <3>5, <3>6
  <2> QED BY <1>6, <1>9, <2>2, <2>3 DEF RangesHold
<1>13. LogHolds(new)
  <2>1. ASSUME NEW v \in Variants, written[v] # ThePrices!Unwritten,
               {variants[v].price, written[v].price} \cap {-1, 0} = {},
               written[v].price # variants[v].price
        PROVE  [variant |-> v, old |-> variants[v].price] \in new.log
    <3>1. CASE t.rows[v] # ThePrices!Unwritten /\ {variants[v].price, t.rows[v].price} \cap {-1, 0} = {}
               /\ t.rows[v].price # variants[v].price
      BY <1>6, <2>1, <3>1 DEF TransactionInv, LogHolds
    <3>2. CASE ~(/\ t.rows[v] # ThePrices!Unwritten
                 /\ {variants[v].price, t.rows[v].price} \cap {-1, 0} = {}
                 /\ t.rows[v].price # variants[v].price)
      <4>1. v = x
        BY <1>5, <2>1, <3>2
      <4>2. before[x].price = variants[v].price /\ c.kind = "set"
        <5>1. CASE t.rows[x] = ThePrices!Unwritten
          BY <1>1, <1>2, <1>4, <1>5, <2>1, <4>1, <5>1
        <5>2. CASE t.rows[x] # ThePrices!Unwritten
          <6>1. c.kind = "set" /\ t.rows[x].price \in Nat \ {0}
            BY <1>h, <1>1, <5>2, ChangesTyped DEF TransactionInv, IsTransaction, TodoHolds
          <6> QED BY <1>1, <1>2, <2>1, <3>2, <4>1, <5>2, <6>1
        <5> QED BY <5>1, <5>2
      <4> QED BY <1>6, <2>1, <4>1, <4>2 DEF ThePrices!History, ThePrices!Unpriced
    <3> QED BY <3>1, <3>2
  <2> QED BY <1>6, <2>1 DEF LogHolds
<1>14. TodoHolds(new)
  <2>1. CASE /\ \A i \in DOMAIN t.todo : t.todo[i].kind = "set"
             /\ \A v \in Variants : t.rows[v] # ThePrices!Unwritten => t.rows[v].price \in Nat \ {0}
    <3>1. c.kind = "set" /\ \A i \in DOMAIN new.todo : new.todo[i].kind = "set"
      BY <1>h, <1>6, <2>1, ChangesTyped DEF TransactionInv, IsTransaction
    <3>2. before[x] # ThePrices!Gone
      BY <1>w, <3>1 DEF ThePrices!Works
    <3> QED BY <1>4, <1>5, <1>6, <2>1, <3>1, <3>2 DEF TodoHolds
  <2>2. CASE Len(t.todo) <= 1
    <3>1. t.todo \in Seq(ThePrices!Changes)
      BY DEF TransactionInv, IsTransaction
    <3>2. new.todo = << >>
      BY <1>6, <2>2, <3>1, ChangesTyped
    <3> QED BY <3>2 DEF TodoHolds
  <2> QED BY <2>1, <2>2 DEF TransactionInv, TodoHolds
<1> QED BY <1>h, <1>p, <1>1, <1>5, <1>6, <1>7, <1>8, <1>12, <1>13, <1>14

\* Who has locked a product keeps it, whoever else ends.
LEMMA LocksReleased ==
  ASSUME NEW w \in Requests, locked \in [Products -> Requests \cup {"free"}],
         locked' = ThePrices!Released(w)
  PROVE  /\ locked' \in [Products -> Requests \cup {"free"}]
         /\ \A u \in Requests \ {w} : \A p \in Products : locked[p] = u => locked'[p] = u
BY DEF ThePrices!Released, ThePrices!Holds, ThePrices!Free

LEMMA PriceChangeKept ==
  ASSUME PriceInv, NEW w \in Requests, ThePrices!ChangeNext(w)
  PROVE  PriceInv'
<1>1. PICK t : t = pricing[w]
  BY Zenon
<1>2. TransactionInv(w, t) /\ t.todo # << >>
  <2>1. pricing[w].step = "changing" /\ pricing[w].todo # << >>
    BY Zenon DEF ThePrices!ChangeNext, ThePrices!At
  <2> QED BY <1>1, <2>1 DEF PriceInv
<1>3. PICK p : p = ProductOf[Head(t.todo).variant]
  BY Zenon
<1>10. p \in Products
  BY <1>2, <1>3, ChangesTyped, PricesAssumption DEF TransactionInv, IsTransaction
<1>11. PICK new : /\ ThePrices!CanLock(w, p) /\ ChangedNext(t, new)
                  /\ locked' = [locked EXCEPT ![p] = w] /\ pricing' = [pricing EXCEPT ![w] = new]
                  /\ UNCHANGED <<variants, bounds, overwritten, unrecorded>>
  BY <1>1, <1>3, Zenon DEF ThePrices!ChangeNext, ChangedNext
<1>14. /\ IsTransaction(new) /\ RangesHold(new) /\ LogHolds(new) /\ TodoHolds(new)
       /\ \A v \in Variants : new.rows[v] # ThePrices!Unwritten =>
            ProductOf[v] = p \/ t.rows[v] # ThePrices!Unwritten
       /\ \A q \in Products : new.ranges[q] # ThePrices!Unwritten =>
            q = p \/ t.ranges[q] # ThePrices!Unwritten
  <2>1. variants \in [Variants -> PriceRow]
    BY DEF PriceInv
  <2> QED BY <1>2, <1>3, <1>11, <2>1, OneChange
<1>15. /\ locked' \in [Products -> Requests \cup {"free"}]
       /\ locked'[p] = w /\ \A q \in Products \ {p} : locked'[q] = locked[q]
       /\ \A u \in Requests \ {w} : \A q \in Products : locked[q] = u => locked'[q] = u
  BY <1>10, <1>11, RequestsAssumption DEF PriceInv, ThePrices!CanLock, ThePrices!Free
<1>16. WrittenLocked(w, new)'
  <2>1. WrittenLocked(w, t)
    BY <1>2 DEF TransactionInv
  <2> QED BY <1>14, <1>15, <2>1, PricesAssumption DEF WrittenLocked
<1>17. RangesHold(new)' /\ LogHolds(new)' /\ IsTransaction(new)' /\ TodoHolds(new)'
  <2>1. \A rs : ThePrices!Seen(rs)' = ThePrices!Seen(rs)
    BY <1>11 DEF ThePrices!Seen
  <2>2. \A q, rs : ThePrices!BoundsOf(q, ThePrices!Seen(rs))' = ThePrices!BoundsOf(q, ThePrices!Seen(rs))
    BY <2>1, ZenonT(60) DEF ThePrices!BoundsOf
  <2>3. RangesHold(new)'
    BY <1>11, <1>14, <2>2 DEF RangesHold
  <2> QED BY <1>11, <1>14, <2>3 DEF LogHolds, IsTransaction, TodoHolds
<1>18. PricesTrue'
  <2>1. \A q : ThePrices!BoundsOf(q, variants)' = ThePrices!BoundsOf(q, variants)
    BY <1>11 DEF ThePrices!BoundsOf
  <2> QED BY <1>11, <2>1 DEF PriceInv, PricesTrue, ThePrices!PricesTrue
<1>19. TransactionInv(w, new)'
  BY <1>16, <1>17 DEF TransactionInv
<1>20. variants' \in [Variants -> PriceRow] /\ bounds' = [q \in Products |-> bounds'[q]]
  BY <1>11 DEF PriceInv
<1> QED BY <1>11, <1>15, <1>18, <1>19, <1>20, RequestMoves

LEMMA PriceCommitKept ==
  ASSUME PriceInv, NEW w \in Requests, ThePrices!Commit(w)
  PROVE  PriceInv'
<1>1. PICK t : t = pricing[w]
  BY Zenon
<1>2. TransactionInv(w, t)
  BY <1>1 DEF PriceInv, ThePrices!Commit, ThePrices!At
<1>3. PICK new : new = ThePrices!Idle
  OBVIOUS
<1>4. /\ variants' = ThePrices!Seen(t.rows)
      /\ bounds' = [p \in Products |-> IF t.ranges[p] # ThePrices!Unwritten THEN t.ranges[p] ELSE bounds[p]]
      /\ overwritten' = overwritten \ {p \in Products : t.ranges[p] # ThePrices!Unwritten}
      /\ unrecorded' = unrecorded \cup ThePrices!Unrecorded(t)
      /\ locked' = ThePrices!Released(w)
      /\ pricing' = [pricing EXCEPT ![w] = new]
  BY <1>1, <1>3 DEF ThePrices!Commit
<1>5. \A v \in Variants : variants'[v] = IF t.rows[v] = ThePrices!Unwritten THEN variants[v] ELSE t.rows[v]
  BY <1>4 DEF ThePrices!Seen
<1>6. variants' \in [Variants -> PriceRow]
  BY <1>2, <1>4 DEF PriceInv, TransactionInv, IsTransaction, ThePrices!Seen
<1>7. ThePrices!Unrecorded(t) = {}
  <2>1. PICK after : after = ThePrices!Seen(t.rows)
    OBVIOUS
  <2>2. \A v \in Variants : after[v] = IF t.rows[v] = ThePrices!Unwritten THEN variants[v] ELSE t.rows[v]
    BY <2>1 DEF ThePrices!Seen
  <2>3. ThePrices!Unrecorded(t) =
          {v \in Variants : /\ {variants[v].price, after[v].price} \cap {-1, 0} = {}
                            /\ variants[v].price # after[v].price
                            /\ [variant |-> v, old |-> variants[v].price] \notin t.log}
    BY <2>1 DEF ThePrices!Unrecorded, ThePrices!Gone, ThePrices!Unpriced
  <2>4. ASSUME NEW v \in Variants, {variants[v].price, after[v].price} \cap {-1, 0} = {},
               variants[v].price # after[v].price
        PROVE  [variant |-> v, old |-> variants[v].price] \in t.log
    BY <1>2, <2>2, <2>4 DEF TransactionInv, LogHolds
  <2> QED BY <2>3, <2>4
<1>8. PricesTrue'
  <2>1. ASSUME NEW p \in Products
        PROVE  bounds'[p] = ThePrices!BoundsOf(p, variants') \/ p \in overwritten'
    <3>1. CASE t.ranges[p] # ThePrices!Unwritten
      BY <1>2, <1>4, <3>1 DEF TransactionInv, RangesHold
    <3>2. CASE t.ranges[p] = ThePrices!Unwritten
      <4>1. \A v \in Variants : ProductOf[v] = p => variants'[v] = variants[v]
        BY <1>2, <1>5, <3>2 DEF TransactionInv, RangesHold
      <4>2. PICK later : later = variants'
        OBVIOUS
      <4>3. PICK now : now = variants
        OBVIOUS
      <4>4. \A v \in Variants : ProductOf[v] = p => later[v] = now[v]
        BY <4>1, <4>2, <4>3
      <4>5. ThePrices!BoundsOf(p, later) = ThePrices!BoundsOf(p, now)
        BY <4>4, SameRange
      <4>6. bounds[p] = ThePrices!BoundsOf(p, variants) \/ p \in overwritten
        BY DEF PriceInv, PricesTrue, ThePrices!PricesTrue
      <4> QED BY <1>4, <3>2, <4>2, <4>3, <4>5, <4>6
    <3> QED BY <3>1, <3>2
  <2>2. \A p \in Products : ThePrices!BoundsOf(p, variants)' = ThePrices!BoundsOf(p, variants')
    BY DEF ThePrices!BoundsOf
  <2>3. unrecorded' = {}
    BY <1>4, <1>7 DEF PriceInv, PricesTrue, ThePrices!PricesTrue
  <2> QED BY <2>1, <2>2, <2>3 DEF PricesTrue, ThePrices!PricesTrue
<1>9. /\ locked' \in [Products -> Requests \cup {"free"}]
      /\ \A u \in Requests \ {w} : \A p \in Products : locked[p] = u => locked'[p] = u
  BY <1>4, LocksReleased DEF PriceInv
<1>10. \A u \in Requests \ {w} : \A v \in Variants : locked[ProductOf[v]] = u => variants'[v] = variants[v]
  BY <1>2, <1>5 DEF TransactionInv, WrittenLocked
<1>11. new.step # "changing" /\ bounds' = [p \in Products |-> bounds'[p]]
  BY <1>3, <1>4 DEF ThePrices!Idle
<1> QED BY <1>4, <1>6, <1>8, <1>9, <1>10, <1>11, RequestMoves

LEMMA PriceKept == PriceInv /\ [ThePrices!Next]_priceVars => PriceInv'
<1> SUFFICES ASSUME PriceInv, [ThePrices!Next]_priceVars
             PROVE  PriceInv'
  OBVIOUS
<1>1. ASSUME NEW w \in Requests, NEW CONSTANT new, pricing' = [pricing EXCEPT ![w] = new],
             UNCHANGED <<variants, bounds, locked, overwritten, unrecorded>>,
             new.step = "changing" => TransactionInv(w, new)'
      PROVE  PriceInv'
  <2>1. PricesTrue'
    <3>1. \A p : ThePrices!BoundsOf(p, variants)' = ThePrices!BoundsOf(p, variants)
      BY <1>1 DEF ThePrices!BoundsOf
    <3> QED BY <1>1, <3>1 DEF PriceInv, PricesTrue, ThePrices!PricesTrue
  <2>2. /\ variants' \in [Variants -> PriceRow] /\ bounds' = [p \in Products |-> bounds'[p]]
        /\ locked' \in [Products -> Requests \cup {"free"}]
    BY <1>1 DEF PriceInv
  <2> QED BY <1>1, <2>1, <2>2, RequestMoves
<1>2. ASSUME NEW w \in Requests, NEW requested \in RequestedChanges, ThePrices!Ask(w, requested)
      PROVE  PriceInv'
  <2>1. PICK new : new = ThePrices!Begun(requested)
    BY Zenon
  <2>2. pricing' = [pricing EXCEPT ![w] = new]
        /\ UNCHANGED <<variants, bounds, locked, overwritten, unrecorded>>
    BY <1>2, <2>1 DEF ThePrices!Ask
  <2>3. /\ new = [step |-> "changing", todo |-> requested, rows |-> new.rows, ranges |-> new.ranges,
                  log |-> {}]
        /\ new.step = "changing" /\ new.todo = requested /\ new.log = {}
        /\ new.rows = [v \in Variants |-> ThePrices!Unwritten]
        /\ new.ranges = [p \in Products |-> ThePrices!Unwritten]
    BY <2>1 DEF ThePrices!Begun
  <2>4. requested \in Seq(ThePrices!Changes) /\ Len(requested) \in Nat
        /\ (Len(requested) > 1 => \A i \in DOMAIN requested : requested[i].kind = "set")
    BY PricesAssumption
  <2>5. TransactionInv(w, new)'
    BY <2>3, <2>4 DEF TransactionInv, IsTransaction, WrittenLocked, RangesHold, LogHolds, TodoHolds
  <2> QED BY <1>1, <2>2, <2>5
<1>3. ASSUME NEW w \in Requests, ThePrices!Abort(w)
      PROVE  PriceInv'
  <2>1. PICK new : new = ThePrices!Idle
    BY Zenon
  <2>2. /\ pricing' = [pricing EXCEPT ![w] = new] /\ locked' = ThePrices!Released(w)
        /\ UNCHANGED <<variants, bounds, overwritten, unrecorded>>
    BY <1>3, <2>1 DEF ThePrices!Abort
  <2>3. new.step # "changing"
    BY <2>1 DEF ThePrices!Idle
  <2>4. PricesTrue'
    <3>1. \A p : ThePrices!BoundsOf(p, variants)' = ThePrices!BoundsOf(p, variants)
      BY <2>2 DEF ThePrices!BoundsOf
    <3> QED BY <2>2, <3>1 DEF PriceInv, PricesTrue, ThePrices!PricesTrue
  <2>5. /\ variants' \in [Variants -> PriceRow] /\ bounds' = [p \in Products |-> bounds'[p]]
        /\ locked' \in [Products -> Requests \cup {"free"}]
        /\ \A u \in Requests \ {w} : \A p \in Products : locked[p] = u => locked'[p] = u
    BY <2>2, LocksReleased DEF PriceInv
  <2> QED BY <2>2, <2>3, <2>4, <2>5, RequestMoves
<1>4. ASSUME NEW w \in Requests, NEW p \in Products, ThePrices!ReadProduct(w, p)
      PROVE  PriceInv'
  <2>1. PICK new : new = [step |-> "editing", product |-> p, copy |-> bounds[p]]
    BY Zenon
  <2>2. pricing' = [pricing EXCEPT ![w] = new]
        /\ UNCHANGED <<variants, bounds, locked, overwritten, unrecorded>>
    BY <1>4, <2>1 DEF ThePrices!ReadProduct
  <2>3. new.step # "changing"
    BY <2>1
  <2> QED BY <1>1, <2>2, <2>3
<1>5. ASSUME NEW w \in Requests, ThePrices!SaveProduct(w)
      PROVE  PriceInv'
  <2>1. PICK new : new = ThePrices!Idle
    BY Zenon
  <2>2. PICK p, copy : p = pricing[w].product /\ copy = pricing[w].copy
    BY Zenon
  <2>3. /\ pricing' = [pricing EXCEPT ![w] = new] /\ bounds' = [bounds EXCEPT ![p] = copy]
        /\ overwritten' = overwritten \cup (IF copy = bounds[p] THEN {} ELSE {p})
        /\ UNCHANGED <<variants, locked, unrecorded>>
    BY <1>5, <2>1, <2>2 DEF ThePrices!SaveProduct
  <2>4. new.step # "changing"
    BY <2>1 DEF ThePrices!Idle
  <2>5. PricesTrue'
    <3>1. \A q : ThePrices!BoundsOf(q, variants)' = ThePrices!BoundsOf(q, variants)
      BY <2>3 DEF ThePrices!BoundsOf
    <3>2. \A q \in Products : bounds'[q] = bounds[q] \/ q \in overwritten'
      BY <2>3 DEF PriceInv
    <3> QED BY <2>3, <3>1, <3>2 DEF PriceInv, PricesTrue, ThePrices!PricesTrue
  <2>6. /\ variants' \in [Variants -> PriceRow] /\ bounds' = [q \in Products |-> bounds'[q]]
        /\ locked' \in [Products -> Requests \cup {"free"}]
    BY <2>3 DEF PriceInv
  <2> QED BY <2>3, <2>4, <2>5, <2>6, RequestMoves
<1>6. ASSUME NEW v \in Variants, ThePrices!CreateVariant(v)
      PROVE  PriceInv'
  <2>1. PICK row : row = [price |-> 0, active |-> TRUE]
    BY Zenon
  <2>2. /\ variants[v] = ThePrices!Gone /\ variants' = [variants EXCEPT ![v] = row]
        /\ \A w \in Requests : pricing[w] = ThePrices!Idle
        /\ UNCHANGED <<bounds, locked, pricing, overwritten, unrecorded>>
    BY <1>6, <2>1 DEF ThePrices!CreateVariant, ThePrices!Exists, ThePrices!Unpriced
  <2>3. variants' \in [Variants -> PriceRow]
    BY <2>1, <2>2 DEF PriceInv, PriceRow
  <2>4. ASSUME NEW p PROVE ThePrices!BoundsOf(p, variants)' = ThePrices!BoundsOf(p, variants)
    <3>1. PICK later, now : later = variants' /\ now = variants
      BY Zenon
    <3>2. \A u \in Variants : \/ now[u] = later[u]
                              \/ ~now[u].active /\ later[u].price = 0
      BY <2>1, <2>2, <3>1 DEF PriceInv, ThePrices!Gone
    <3>3. ThePrices!BoundsOf(p, now) = ThePrices!BoundsOf(p, later)
      BY <3>2, SameRange
    <3>4. ThePrices!BoundsOf(p, variants)' = ThePrices!BoundsOf(p, later)
      BY <3>1 DEF ThePrices!BoundsOf
    <3> QED BY <3>1, <3>3, <3>4
  <2>5. PricesTrue'
    BY <2>2, <2>4 DEF PriceInv, PricesTrue, ThePrices!PricesTrue
  <2>6. \A w \in Requests : pricing'[w].step # "changing"
    BY <2>2 DEF ThePrices!Idle
  <2> QED BY <2>2, <2>3, <2>5, <2>6 DEF PriceInv
<1>7. CASE UNCHANGED priceVars
  <2>1. UNCHANGED <<variants, bounds, locked, pricing, overwritten, unrecorded>>
    BY <1>7 DEF priceVars
  <2>2. CASE Requests = {}
    <3>1. \A p : ThePrices!BoundsOf(p, variants)' = ThePrices!BoundsOf(p, variants)
      BY <2>1 DEF ThePrices!BoundsOf
    <3> QED BY <2>1, <2>2, <3>1 DEF PriceInv, PricesTrue, ThePrices!PricesTrue
  <2>3. ASSUME NEW w \in Requests PROVE PriceInv'
    <3>1. PICK new : new = pricing[w]
      BY Zenon
    <3>2. pricing' = [pricing EXCEPT ![w] = new]
      BY <2>1, <3>1 DEF PriceInv
    <3>3. new.step = "changing" => TransactionInv(w, new)'
      BY <2>1, <3>1, SeesTheSame DEF PriceInv
    <3> QED BY <1>1, <2>1, <3>2, <3>3
  <2> QED BY <2>2, <2>3
<1> QED
  BY <1>2, <1>3, <1>4, <1>5, <1>6, <1>7, PriceChangeKept, PriceCommitKept DEF ThePrices!Next

\* The range of a product is that of its committed prices, unless an edit of
\* the product has put an older one back, and no price is replaced that the
\* history does not have (PricingService).
THEOREM PricesStayTrue == Spec => []PricesTrue
<1>1. PriceInv => PricesTrue
  BY DEF PriceInv
<1> QED BY <1>1, PriceInit, PriceStep, PriceKept, PTL DEF Spec

-----------------------------------------------------------------------------
\* The pages of the listing.

\* A step of the storefront is a step of its listing, or leaves it alone.
LEMMA CatalogueStep == [Next]_vars => [TheCatalogue!Next]_catalogueVars
<1>1. ASSUME UNCHANGED vars PROVE UNCHANGED catalogueVars
  BY <1>1 DEF vars, catalogueVars
<1>2. ASSUME Next PROVE TheCatalogue!Next \/ UNCHANGED catalogueVars
  BY <1>2 DEF Next
<1> QED BY <1>1, <1>2

LEMMA CatalogueCardinality == \A S : TheCatalogue!Cardinality(S) = Cardinality(S)
BY DEF TheCatalogue!Cardinality, Cardinality

\* The smaller of two numbers.
LEMMA MinOfTwo ==
  ASSUME NEW m \in Int, NEW n \in Int
  PROVE  TheCatalogue!Min({m, n}) = IF m <= n THEN m ELSE n
<1>1. PICK least : least = IF m <= n THEN m ELSE n
  OBVIOUS
<1>2. least \in {m, n} /\ \A y \in {m, n} : least =< y
  BY <1>1
<1>3. \A x \in {m, n} : (\A y \in {m, n} : x =< y) => x = least
  BY <1>1
<1>4. TheCatalogue!Min({m, n}) = least
  BY <1>2, <1>3, Zenon DEF TheCatalogue!Min
<1> QED BY <1>1, <1>4

\* Orderings.

\* An ordering of a finite set names each of its members once.
LEMMA OrderingIsBijective ==
  ASSUME NEW S, IsFiniteSet(S), NEW cost,
         NEW seq \in TheCatalogue!Orderings(S, cost)
  PROVE  /\ seq \in Seq(S) /\ Len(seq) = Cardinality(S) /\ Cardinality(S) \in Nat
         /\ \A i, j \in 1..Len(seq) : i # j => seq[i] # seq[j]
         /\ \A x \in S : \E i \in 1..Len(seq) : seq[i] = x
         /\ \A i, j \in 1..Len(seq) :
              i < j => TheCatalogue!Before(cost, seq[i], seq[j])
<1>1. PICK n : n = Cardinality(S)
  OBVIOUS
<1>2. n \in Nat
  BY <1>1, FS_CardinalityType
<1>3. /\ seq \in [1..n -> S]
      /\ \A i, j \in 1..n : i # j => seq[i] # seq[j]
      /\ \A i, j \in 1..Len(seq) : i < j => TheCatalogue!Before(cost, seq[i], seq[j])
  BY <1>1, CatalogueCardinality DEF TheCatalogue!Orderings, TheCatalogue!SetToSeqs
<1>4. seq \in Seq(S) /\ Len(seq) = n
  BY <1>2, <1>3, IsASeq
<1>5. seq \in Injection(1..n, S)
  BY <1>3 DEF Injection, IsInjective
<1>6. IsFiniteSet(1..n) /\ Cardinality(1..n) = n
  BY <1>2, FS_Interval
<1>7. seq \in Surjection(1..n, S)
  BY <1>1, <1>5, <1>6, FS_Injection
<1>8. \A x \in S : \E i \in 1..n : seq[i] = x
  BY <1>7 DEF Surjection
<1> QED BY <1>1, <1>2, <1>3, <1>4, <1>8

LEMMA LeastNumber ==
  ASSUME NEW T, T \subseteq Nat, T # {}
  PROVE  \E n \in T : \A m \in T : n <= m
<1>1. PICK R : R = {ss \in Nat \X Nat : ss[1] < ss[2]}
  OBVIOUS
<1>2. IsWellFoundedOn(R, Nat)
  BY <1>1, NatLessThanWellFounded DEF OpToRel
<1>3. PICK n \in T : \A m \in T : ~(<<m, n>> \in R)
  BY <1>2, WFMin
<1>4. \A m \in T : ~(m < n)
  BY <1>1, <1>3
<1> QED BY <1>3, <1>4

\* The order of the prices, and of the keys where they are the same, leaves
\* one ordering only.
LEMMA OrderingIsUnique ==
  ASSUME NEW S, IsFiniteSet(S), S \subseteq Nat,
         NEW cost, \A x \in S : cost[x] \in Nat,
         NEW f \in TheCatalogue!Orderings(S, cost),
         NEW g \in TheCatalogue!Orderings(S, cost)
  PROVE  f = g
<1>1. PICK n : n = Cardinality(S)
  OBVIOUS
<1>2. /\ n \in Nat
      /\ f \in Seq(S) /\ Len(f) = n /\ g \in Seq(S) /\ Len(g) = n
      /\ \A i, j \in 1..n : i # j => f[i] # f[j] /\ g[i] # g[j]
      /\ \A x \in S : (\E i \in 1..n : f[i] = x) /\ (\E i \in 1..n : g[i] = x)
      /\ \A i, j \in 1..n : i < j => /\ TheCatalogue!Before(cost, f[i], f[j])
                                      /\ TheCatalogue!Before(cost, g[i], g[j])
  <2>1. /\ n \in Nat /\ f \in Seq(S) /\ Len(f) = n
        /\ \A i, j \in 1..n : i # j => f[i] # f[j]
        /\ \A x \in S : \E i \in 1..n : f[i] = x
        /\ \A i, j \in 1..n : i < j => TheCatalogue!Before(cost, f[i], f[j])
    BY <1>1, OrderingIsBijective
  <2>2. /\ g \in Seq(S) /\ Len(g) = n
        /\ \A i, j \in 1..n : i # j => g[i] # g[j]
        /\ \A x \in S : \E i \in 1..n : g[i] = x
        /\ \A i, j \in 1..n : i < j => TheCatalogue!Before(cost, g[i], g[j])
    BY <1>1, OrderingIsBijective
  <2> QED BY <2>1, <2>2
<1>3. \A i \in 1..n : f[i] \in S /\ g[i] \in S
  BY <1>2, ElementOfSeq
<1>4. \A x, y \in S : ~(TheCatalogue!Before(cost, x, y) /\ TheCatalogue!Before(cost, y, x))
  BY DEF TheCatalogue!Before
<1>5. SUFFICES ASSUME \E i \in 1..n : f[i] # g[i]
               PROVE  FALSE
  BY <1>2, SeqEqual
<1>6. PICK T : T = {i \in 1..n : f[i] # g[i]}
  OBVIOUS
<1>7. T \subseteq Nat /\ T # {}
  BY <1>2, <1>5, <1>6
<1>8. PICK i \in T : \A m \in T : i <= m
  BY <1>7, LeastNumber
<1>9. i \in 1..n /\ f[i] # g[i] /\ \A j \in 1..n : j < i => f[j] = g[j]
  BY <1>2, <1>6, <1>8
<1>10. TheCatalogue!Before(cost, g[i], f[i])
  <2>1. PICK m \in 1..n : g[m] = f[i]
    BY <1>2, <1>3, <1>9
  <2>2. ~(m < i) /\ m # i
    BY <1>2, <1>9, <2>1
  <2> QED BY <1>2, <1>9, <2>1, <2>2
<1>11. TheCatalogue!Before(cost, f[i], g[i])
  <2>1. PICK m \in 1..n : f[m] = g[i]
    BY <1>2, <1>3, <1>9
  <2>2. ~(m < i) /\ m # i
    BY <1>2, <1>9, <2>1
  <2> QED BY <1>2, <1>9, <2>1, <2>2
<1> QED BY <1>3, <1>4, <1>9, <1>10, <1>11

\* Pages.

\* The beginning of a sequence, as far as it goes.
Upto(seq, n) == SubSeq(seq, 1, IF n <= Len(seq) THEN n ELSE Len(seq))

\* Two pages make a longer beginning.
LEMMA NextPage ==
  ASSUME NEW S, NEW seq \in Seq(S), NEW k \in Nat, NEW m \in Nat, k <= m
  PROVE  Upto(seq, k) \o SubSeq(seq, k + 1, IF m <= Len(seq) THEN m ELSE Len(seq))
           = Upto(seq, m)
<1>0. Len(seq) \in Nat
  BY LenProperties
<1>1. CASE k <= Len(seq)
  <2>1. PICK n : n = IF m <= Len(seq) THEN m ELSE Len(seq)
    OBVIOUS
  <2>2. n \in k..Len(seq) /\ k \in 0..Len(seq) /\ 1 \in 1..Len(seq)+1
    BY <1>0, <1>1, <2>1
  <2>3. SubSeq(seq, 1, k) \o SubSeq(seq, k + 1, n) = SubSeq(seq, 1, n)
    BY <2>2, ConcatAdjacentSubSeq
  <2> QED BY <1>1, <2>1, <2>3 DEF Upto
<1>2. CASE ~(k <= Len(seq))
  <2>1. ~(m <= Len(seq)) /\ Len(seq) < k + 1
    BY <1>0, <1>2
  <2>2. SubSeq(seq, k + 1, Len(seq)) = << >>
    BY <1>0, <2>1, SubSeqEmpty
  <2>3. Upto(seq, k) = seq /\ Upto(seq, m) = seq
    BY <1>2, <2>1, SubSeqFull DEF Upto
  <2>4. seq \o << >> = seq
    BY ConcatEmptySeq
  <2> QED BY <2>1, <2>2, <2>3, <2>4
<1> QED BY <1>1, <1>2

\* The pages that are linked to take in every product.
LEMMA PagesHoldAll ==
  ASSUME NEW n \in Nat, NEW page \in Nat, PageSize \in Nat \ {0},
         TheCatalogue!TotalPages(n) <= page
  PROVE  n <= page * PageSize
<1>1. PICK q : q = (n + PageSize - 1) \div PageSize
  OBVIOUS
<1>2. q \in Int /\ n + PageSize - 1 = q * PageSize + ((n + PageSize - 1) % PageSize)
  BY <1>1
<1>3. (n + PageSize - 1) % PageSize \in 0..PageSize - 1
  OBVIOUS
<1>4. n <= q * PageSize
  BY <1>2, <1>3
<1>5. q <= page
  BY <1>1 DEF TheCatalogue!TotalPages
<1>6. q * PageSize <= page * PageSize
  BY <1>2, <1>5
<1> QED BY <1>2, <1>4, <1>6

\* The invariant of the listing.

\* What a row or a copy of it has for a price.
Priced(row) == "price" \in DOMAIN row /\ row.price \in Nat

ListingTyped ==
  /\ rows = [p \in Listed |-> rows[p]]
  /\ \A p \in Listed : rows[p] = TheCatalogue!Missing \/ Priced(rows[p])
  /\ published \in [Listed -> Nat]
  /\ opened = [s \in Staff |-> opened[s]]
  /\ \A s \in Staff : \/ opened[s] = TheCatalogue!Idle
                      \/ opened[s].product \in Listed /\ Priced(opened[s].copy)

\* A product has the price published last, unless it got an older one back.
PricesKnown ==
  \A p \in Listed :
    rows[p] = TheCatalogue!Missing \/ p \in repriced \/ rows[p].price = published[p]

Positions == [step : {"count", "slice", "done"}, filter : Filters, page : Nat \ {0},
              pages : Nat, seen : Seq(Listed), quiet : BOOLEAN]

ReadersTyped ==
  /\ reading = [r \in Readers |-> reading[r]]
  /\ \A r \in Readers : reading[r] = TheCatalogue!Idle \/ reading[r] \in Positions

\* What a reader whom nothing has disturbed has seen is the beginning of an
\* ordering of the listing as it is, as many pages of it as were read, and, once
\* no page is left, all of it.
SeenInOrder(row) ==
  LET listing == TheCatalogue!Listing(row.filter)
  IN /\ row.page = 1 => row.seen = << >> /\ row.step # "done"
     /\ row.page > 1 =>
          \E seq \in TheCatalogue!Orderings(listing, TheCatalogue!CurrentPrices) :
            row.seen = Upto(seq, (row.page - 1) * PageSize)
     /\ row.step = "slice" => row.pages = TheCatalogue!TotalPages(Cardinality(listing))
     /\ row.step = "done" => Cardinality(listing) <= (row.page - 1) * PageSize

ReadersInOrder ==
  \A r \in Readers :
    reading[r] # TheCatalogue!Idle /\ reading[r].quiet => SeenInOrder(reading[r])

CatalogueInv == ListingTyped /\ PricesKnown /\ ReadersTyped /\ ReadersInOrder

LEMMA ListingIsPriced ==
  ASSUME ListingTyped, NEW filter
  PROVE  LET listing == TheCatalogue!Listing(filter)
         IN /\ listing \subseteq Listed /\ listing \subseteq Nat /\ IsFiniteSet(listing)
            /\ Cardinality(listing) \in Nat
            /\ \A p \in listing : /\ rows[p] # TheCatalogue!Missing /\ rows[p].price \in Nat
                                  /\ TheCatalogue!CurrentPrices[p] = rows[p].price
<1>1. PICK listing : listing = TheCatalogue!Listing(filter)
  OBVIOUS
<1>2. listing \subseteq TheCatalogue!Active
  BY <1>1 DEF TheCatalogue!Listing, TheCatalogue!Visible
<1>3. \A p \in listing : p \in Listed /\ rows[p].status = "active"
  BY <1>2 DEF TheCatalogue!Active, TheCatalogue!IsActive
<1>4. listing \subseteq Listed /\ listing \subseteq Nat /\ IsFiniteSet(listing)
  BY <1>3, FS_Subset, CatalogueAssumption
<1>5. \A p \in listing : rows[p] # TheCatalogue!Missing
  BY <1>3 DEF TheCatalogue!Missing
<1>6. \A p \in listing : rows[p].price \in Nat
  BY <1>3, <1>5 DEF ListingTyped, Priced
<1>7. \A p \in listing : TheCatalogue!CurrentPrices[p] = rows[p].price
  BY <1>3, <1>5 DEF TheCatalogue!CurrentPrices
<1> QED BY <1>1, <1>4, <1>5, <1>6, <1>7, FS_CardinalityType

LEMMA CatalogueInit == TheCatalogue!Init => CatalogueInv
BY DEF TheCatalogue!Init, CatalogueInv, ListingTyped, PricesKnown, ReadersTyped, ReadersInOrder,
       TheCatalogue!NoPrice

\* Steps of the staff: nobody who was reading goes on undisturbed.

LEMMA Disturbed ==
  ASSUME ReadersTyped, TheCatalogue!Disturb
  PROVE  ReadersTyped' /\ ReadersInOrder'
<1>1. \A r \in Readers : reading'[r] = IF reading[r] = TheCatalogue!Idle
                         THEN TheCatalogue!Idle ELSE [reading[r] EXCEPT !.quiet = FALSE]
  BY DEF TheCatalogue!Disturb
<1>2. \A r \in Readers : \/ reading'[r] = TheCatalogue!Idle
                         \/ reading'[r] \in Positions /\ ~reading'[r].quiet
  <2> TAKE r \in Readers
  <2>1. CASE reading[r] = TheCatalogue!Idle
    BY <1>1, <2>1
  <2>2. CASE reading[r] # TheCatalogue!Idle
    <3>1. reading[r] \in Positions
      BY <2>2 DEF ReadersTyped
    <3>2. [reading[r] EXCEPT !.quiet = FALSE] \in Positions
      BY <3>1 DEF Positions
    <3>3. ~[reading[r] EXCEPT !.quiet = FALSE].quiet
      BY <3>1 DEF Positions
    <3> QED BY <1>1, <2>2, <3>2, <3>3
  <2> QED BY <2>1, <2>2
<1>3. reading' = [r \in Readers |-> reading'[r]]
  BY DEF TheCatalogue!Disturb
<1> QED BY <1>2, <1>3 DEF ReadersTyped, ReadersInOrder

\* A reader sees the same while no row changes.
LEMMA Undisturbed ==
  ASSUME UNCHANGED <<rows, active>>
  PROVE  /\ \A filter : TheCatalogue!Listing(filter)' = TheCatalogue!Listing(filter)
         /\ TheCatalogue!CurrentPrices' = TheCatalogue!CurrentPrices
BY DEF TheCatalogue!Listing, TheCatalogue!CurrentPrices, TheCatalogue!Visible,
       TheCatalogue!PriceRange, TheCatalogue!ForCategory, TheCatalogue!ForBrand,
       TheCatalogue!Active, TheCatalogue!IsActive

LEMMA ChangedIsPriced ==
  ASSUME NEW row, Priced(row), NEW change, "price" \notin DOMAIN change
  PROVE  /\ Priced(TheCatalogue!Changed(row, change))
         /\ TheCatalogue!Changed(row, change).price = row.price
BY DEF Priced, TheCatalogue!Changed

LEMMA PricedIsThere ==
  ASSUME NEW row, Priced(row)
  PROVE  row # TheCatalogue!Missing
BY DEF Priced, TheCatalogue!Missing

\* One row changes, and what goes with it.
LEMMA RowChanged ==
  ASSUME CatalogueInv, TheCatalogue!Disturb, NEW p \in Listed, NEW row,
         rows' = [rows EXCEPT ![p] = row],
         row = TheCatalogue!Missing \/ Priced(row),
         \A q \in Listed : q # p => /\ published'[q] = published[q]
                                    /\ q \in repriced => q \in repriced',
         published' \in [Listed -> Nat],
         \/ row = TheCatalogue!Missing \/ p \in repriced' \/ row.price = published'[p],
         opened' = [s \in Staff |-> opened'[s]],
         \A s \in Staff : opened'[s] = opened[s] \/ opened'[s] = TheCatalogue!Idle
  PROVE  CatalogueInv'
<1>1. ReadersTyped' /\ ReadersInOrder'
  BY Disturbed DEF CatalogueInv
<1>2. \A q \in Listed : rows'[q] = IF q = p THEN row ELSE rows[q]
  BY DEF CatalogueInv, ListingTyped
<1>3. rows' = [q \in Listed |-> rows'[q]]
  <2>1. rows = [q \in Listed |-> rows[q]]
    BY DEF CatalogueInv, ListingTyped
  <2>2. DOMAIN rows = Listed
    BY <2>1
  <2> QED BY <2>2
<1>4. \A q \in Listed : rows'[q] = TheCatalogue!Missing \/ Priced(rows'[q])
  BY <1>2 DEF CatalogueInv, ListingTyped
<1>5. \A s \in Staff : \/ opened'[s] = TheCatalogue!Idle
                       \/ opened'[s].product \in Listed /\ Priced(opened'[s].copy)
  BY DEF CatalogueInv, ListingTyped
<1>6. ListingTyped'
  BY <1>3, <1>4, <1>5 DEF ListingTyped, Priced
<1>7. PricesKnown'
  BY <1>2 DEF CatalogueInv, PricesKnown
<1> QED BY <1>1, <1>6, <1>7 DEF CatalogueInv

LEMMA ReadersRest ==
  ASSUME ReadersTyped, ReadersInOrder, UNCHANGED <<rows, active, reading>>
  PROVE  ReadersTyped' /\ ReadersInOrder'
<1>1. /\ \A filter : TheCatalogue!Listing(filter)' = TheCatalogue!Listing(filter)
      /\ TheCatalogue!CurrentPrices' = TheCatalogue!CurrentPrices
  BY Undisturbed
<1>2. ReadersTyped'
  BY DEF ReadersTyped
<1>3. ReadersInOrder'
  BY <1>1 DEF ReadersInOrder, SeenInOrder
<1> QED BY <1>2, <1>3

LEMMA StaffKeep ==
  ASSUME CatalogueInv, NEW s \in Staff
  PROVE  /\ \A p \in Listed : TheCatalogue!PatchLoad(s, p) \/ TheCatalogue!FormLoad(s, p)
                => CatalogueInv'
         /\ \A change \in Edits : TheCatalogue!PatchSave(s, change)
                                   \/ TheCatalogue!FormSave(s, change) => CatalogueInv'
         /\ TheCatalogue!Abandon(s) => CatalogueInv'
<1> USE DEF CatalogueInv
<1>1. ASSUME NEW p \in Listed, TheCatalogue!PatchLoad(s, p) \/ TheCatalogue!FormLoad(s, p)
      PROVE  CatalogueInv'
  <2>1. UNCHANGED <<rows, active, reading, published, repriced>>
    BY <1>1 DEF TheCatalogue!PatchLoad, TheCatalogue!FormLoad
  <2>2. rows[p] # TheCatalogue!Missing
    BY <1>1 DEF TheCatalogue!PatchLoad, TheCatalogue!FormLoad, TheCatalogue!IsActive,
                TheCatalogue!Missing
  <2>3. PICK step : opened' = [opened EXCEPT ![s] =
                                 [step |-> step, product |-> p, copy |-> rows[p]]]
    BY <1>1 DEF TheCatalogue!PatchLoad, TheCatalogue!FormLoad
  <2>4. Priced(rows[p])
    BY <2>2 DEF ListingTyped
  <2>5. DOMAIN opened = Staff
    BY DEF ListingTyped
  <2>6. opened' = [t \in Staff |-> opened'[t]]
    BY <2>3, <2>5
  <2>7. \A t \in Staff : opened'[t] = IF t = s THEN [step |-> step, product |-> p, copy |-> rows[p]]
                                     ELSE opened[t]
    BY <2>3, <2>5
  <2>8. \A t \in Staff : \/ opened'[t] = TheCatalogue!Idle
                         \/ opened'[t].product \in Listed /\ Priced(opened'[t].copy)
    BY <2>4, <2>7 DEF ListingTyped
  <2>9. ListingTyped'
    BY <2>1, <2>6, <2>8 DEF ListingTyped, Priced
  <2>10. PricesKnown'
    BY <2>1 DEF PricesKnown
  <2> QED BY <2>1, <2>9, <2>10, ReadersRest
<1>2. ASSUME NEW change \in Edits, TheCatalogue!PatchSave(s, change)
      PROVE  CatalogueInv'
  <2> DEFINE p == opened[s].product
             row == TheCatalogue!Changed(opened[s].copy, change)
  <2>1. opened[s] # TheCatalogue!Idle
    BY <1>2 DEF TheCatalogue!PatchSave, TheCatalogue!Idle
  <2>2. p \in Listed /\ Priced(opened[s].copy)
    BY <2>1 DEF ListingTyped
  <2>3. Priced(row) /\ row.price = opened[s].copy.price
    BY <2>2, ChangedIsPriced, CatalogueAssumption
  <2>4. /\ rows' = [rows EXCEPT ![p] = row]
        /\ repriced' = IF opened[s].copy.price # published[p] THEN repriced \cup {p} ELSE repriced
        /\ opened' = [opened EXCEPT ![s] = TheCatalogue!Idle]
        /\ published' = published
        /\ TheCatalogue!Disturb
    BY <1>2 DEF TheCatalogue!PatchSave
  <2>5. DOMAIN opened = Staff
    BY DEF ListingTyped
  <2>6. published' \in [Listed -> Nat]
    BY <2>4 DEF ListingTyped
  <2>7. /\ opened' = [t \in Staff |-> opened'[t]]
        /\ \A t \in Staff : opened'[t] = opened[t] \/ opened'[t] = TheCatalogue!Idle
    BY <2>4, <2>5
  <2>8. p \in repriced' \/ row.price = published'[p]
    BY <2>3, <2>4
  <2>9. \A q \in Listed : q # p => /\ published'[q] = published[q]
                                   /\ q \in repriced => q \in repriced'
    BY <2>4
  <2> HIDE DEF p, row
  <2> QED BY <2>2, <2>3, <2>4, <2>6, <2>7, <2>8, <2>9, RowChanged
<1>3. ASSUME NEW change \in Edits, TheCatalogue!FormSave(s, change)
      PROVE  CatalogueInv'
  <2> DEFINE p == opened[s].product
             form == TheCatalogue!Changed(opened[s].copy, change)
             row == TheCatalogue!Changed(rows[p],
                      [f \in TheCatalogue!FormFields(rows[p]) |-> form[f]])
  <2>1. opened[s] # TheCatalogue!Idle
    BY <1>3 DEF TheCatalogue!FormSave, TheCatalogue!Idle
  <2>2. p \in Listed /\ rows[p] # TheCatalogue!Missing
    BY <1>3, <2>1 DEF ListingTyped, TheCatalogue!FormSave
  <2>3. Priced(rows[p])
    BY <2>2 DEF ListingTyped
  <2>4. "price" \notin DOMAIN [f \in TheCatalogue!FormFields(rows[p]) |-> form[f]]
    BY DEF TheCatalogue!FormFields
  <2>5. Priced(row) /\ row.price = rows[p].price
    <3> HIDE DEF p, form
    <3> QED BY <2>3, <2>4, ChangedIsPriced
  <2>6. /\ rows' = [rows EXCEPT ![p] = row]
        /\ opened' = [opened EXCEPT ![s] = TheCatalogue!Idle]
        /\ published' = published /\ repriced' = repriced
        /\ TheCatalogue!Disturb
    BY <1>3, <2>2 DEF TheCatalogue!FormSave, ListingTyped
  <2>7. DOMAIN opened = Staff
    BY DEF ListingTyped
  <2>8. published' \in [Listed -> Nat]
    BY <2>6 DEF ListingTyped
  <2>9. /\ opened' = [t \in Staff |-> opened'[t]]
        /\ \A t \in Staff : opened'[t] = opened[t] \/ opened'[t] = TheCatalogue!Idle
    BY <2>6, <2>7
  <2>10. p \in repriced' \/ row.price = published'[p]
    BY <2>2, <2>5, <2>6 DEF PricesKnown
  <2>11. \A q \in Listed : q # p => /\ published'[q] = published[q]
                                    /\ q \in repriced => q \in repriced'
    BY <2>6
  <2> HIDE DEF p, row
  <2> QED BY <2>2, <2>5, <2>6, <2>8, <2>9, <2>10, <2>11, RowChanged
<1>4. ASSUME TheCatalogue!Abandon(s)
      PROVE  CatalogueInv'
  <2>1. /\ UNCHANGED <<rows, active, reading, published, repriced>>
        /\ opened' = [opened EXCEPT ![s] = TheCatalogue!Idle]
    BY <1>4 DEF TheCatalogue!Abandon
  <2>2. DOMAIN opened = Staff
    BY DEF ListingTyped
  <2>3. /\ opened' = [t \in Staff |-> opened'[t]]
        /\ \A t \in Staff : opened'[t] = opened[t] \/ opened'[t] = TheCatalogue!Idle
    BY <2>1, <2>2
  <2>4. ListingTyped'
    BY <2>1, <2>3 DEF ListingTyped, Priced
  <2>5. PricesKnown'
    BY <2>1 DEF PricesKnown
  <2> QED BY <2>1, <2>4, <2>5, ReadersRest
<1> QED BY <1>1, <1>2, <1>3, <1>4

LEMMA ShopKeeps ==
  ASSUME CatalogueInv, NEW p \in Listed
  PROVE  /\ \A row \in New : TheCatalogue!Create(p, row) => CatalogueInv'
         /\ TheCatalogue!Delete(p) => CatalogueInv'
         /\ \A price \in ListPrices : TheCatalogue!Publish(p, price) => CatalogueInv'
<1>0. /\ DOMAIN rows = Listed /\ published \in [Listed -> Nat]
      /\ opened = [s \in Staff |-> opened[s]]
  BY DEF CatalogueInv, ListingTyped
<1>1. ASSUME NEW new \in New, TheCatalogue!Create(p, new)
      PROVE  CatalogueInv'
  <2> DEFINE row == [f \in (DOMAIN new) \cup {"price"} |->
                       IF f = "price" THEN TheCatalogue!NoPrice ELSE new[f]]
  <2>1. /\ rows' = [rows EXCEPT ![p] = row]
        /\ published' = [published EXCEPT ![p] = TheCatalogue!NoPrice]
        /\ TheCatalogue!Disturb /\ opened' = opened /\ repriced' = repriced
    BY <1>1 DEF TheCatalogue!Create
  <2>2. Priced(row) /\ row.price = TheCatalogue!NoPrice /\ TheCatalogue!NoPrice \in Nat
    BY DEF Priced, TheCatalogue!NoPrice
  <2>3. /\ published' \in [Listed -> Nat] /\ row.price = published'[p]
        /\ \A q \in Listed : q # p => published'[q] = published[q]
    <3> HIDE DEF row
    <3> QED BY <1>0, <2>1, <2>2
  <2> HIDE DEF row
  <2> QED BY <1>0, <2>1, <2>2, <2>3, RowChanged
<1>2. ASSUME TheCatalogue!Delete(p)
      PROVE  CatalogueInv'
  <2>1. /\ rows' = [rows EXCEPT ![p] = TheCatalogue!Missing]
        /\ published' = [published EXCEPT ![p] = TheCatalogue!NoPrice]
        /\ TheCatalogue!Disturb /\ opened' = opened /\ repriced' = repriced \ {p}
    BY <1>2 DEF TheCatalogue!Delete
  <2>2. /\ published' \in [Listed -> Nat]
        /\ \A q \in Listed : q # p => published'[q] = published[q]
    BY <1>0, <2>1 DEF TheCatalogue!NoPrice
  <2> QED BY <1>0, <2>1, <2>2, RowChanged
<1>3. ASSUME NEW price \in ListPrices, TheCatalogue!Publish(p, price)
      PROVE  CatalogueInv'
  <2> DEFINE row == [rows[p] EXCEPT !.price = price]
  <2>1. /\ rows' = [rows EXCEPT ![p] = row]
        /\ published' = [published EXCEPT ![p] = price]
        /\ TheCatalogue!Disturb /\ opened' = opened /\ repriced' = repriced \ {p}
        /\ rows[p] # TheCatalogue!Missing
    BY <1>0, <1>3 DEF TheCatalogue!Publish
  <2>2. price \in Nat
    BY CatalogueAssumption DEF TheCatalogue!NoPrice
  <2>3. Priced(rows[p])
    BY <2>1 DEF CatalogueInv, ListingTyped
  <2>4. Priced(row) /\ row.price = price
    BY <2>2, <2>3 DEF Priced
  <2>5. /\ published' \in [Listed -> Nat] /\ row.price = published'[p]
        /\ \A q \in Listed : q # p => published'[q] = published[q]
    <3> HIDE DEF row
    <3> QED BY <1>0, <2>1, <2>2, <2>4
  <2> HIDE DEF row
  <2> QED BY <1>0, <2>1, <2>4, <2>5, RowChanged
<1> QED BY <1>1, <1>2, <1>3

\* Steps of the readers.

\* A reader moves on, and nothing else does.
LEMMA ReaderMoves ==
  ASSUME CatalogueInv, UNCHANGED <<rows, active, opened, published, repriced>>,
         NEW r \in Readers, NEW row,
         reading' = [reading EXCEPT ![r] = row],
         \/ row = TheCatalogue!Idle
         \/ row \in Positions /\ (row.quiet => SeenInOrder(row))
  PROVE  CatalogueInv'
<1>1. /\ \A filter : TheCatalogue!Listing(filter)' = TheCatalogue!Listing(filter)
      /\ TheCatalogue!CurrentPrices' = TheCatalogue!CurrentPrices
  BY Undisturbed
<1>2. ListingTyped' /\ PricesKnown'
  BY DEF CatalogueInv, ListingTyped, PricesKnown, Priced
<1>3. DOMAIN reading = Readers
  BY DEF CatalogueInv, ReadersTyped
<1>4. \A q \in Readers : reading'[q] = IF q = r THEN row ELSE reading[q]
  BY <1>3
<1>5. ReadersTyped'
  BY <1>3, <1>4 DEF CatalogueInv, ReadersTyped
<1>6. ReadersInOrder'
  <2>1. \A q \in Readers : reading'[q] # TheCatalogue!Idle /\ reading'[q].quiet
                             => SeenInOrder(reading'[q])
    BY <1>4 DEF CatalogueInv, ReadersInOrder
  <2> QED BY <1>1, <2>1 DEF ReadersInOrder, SeenInOrder
<1> QED BY <1>2, <1>5, <1>6 DEF CatalogueInv

LEMMA ProductOfNaturals ==
  ASSUME NEW a \in Nat, NEW b \in Nat
  PROVE  a * b \in Nat
OBVIOUS

LEMMA SliceKeeps ==
  ASSUME CatalogueInv, NEW r \in Readers, TheCatalogue!Slice(r)
  PROVE  CatalogueInv'
<1> DEFINE row == reading[r]
           listing == TheCatalogue!Listing(row.filter)
           k == (row.page - 1) * PageSize
           m == row.page * PageSize
<1>1. row \in Positions /\ row.step = "slice"
  BY DEF TheCatalogue!Slice, TheCatalogue!Idle, CatalogueInv, ReadersTyped
<1>2. PICK seq \in TheCatalogue!Orderings(listing, TheCatalogue!CurrentPrices) :
        reading' = [reading EXCEPT
          ![r].seen = @ \o SubSeq(seq, k + 1, TheCatalogue!Min({Len(seq), k + 1 + PageSize - 1})),
          ![r].page = @ + 1,
          ![r].step = IF row.page < row.pages THEN "count" ELSE "done"]
  BY DEF TheCatalogue!Slice
<1>3. /\ listing \subseteq Listed /\ listing \subseteq Nat /\ IsFiniteSet(listing)
      /\ \A p \in listing : TheCatalogue!CurrentPrices[p] \in Nat
  BY ListingIsPriced DEF CatalogueInv
<1>4. seq \in Seq(listing) /\ Len(seq) = Cardinality(listing) /\ Cardinality(listing) \in Nat
  <2> HIDE DEF listing
  <2> QED BY <1>3, OrderingIsBijective
<1>5. /\ row.page \in Nat \ {0} /\ row.pages \in Nat /\ PageSize \in Nat \ {0}
      /\ row.seen \in Seq(Listed)
  BY <1>1, CatalogueAssumption DEF Positions
<1>6. k \in Nat /\ m \in Nat /\ m = k + PageSize /\ k <= m /\ k + 1 + PageSize - 1 = m
  <2>1. row.page - 1 \in Nat
    BY <1>5
  <2>2. k \in Nat /\ m \in Nat
    <3> HIDE DEF row
    <3> QED BY <1>5, <2>1, ProductOfNaturals
  <2>3. m = k + PageSize
    BY <1>5
  <2> HIDE DEF k, m
  <2> QED BY <1>5, <2>2, <2>3
<1> DEFINE last == IF m <= Len(seq) THEN m ELSE Len(seq)
           page == SubSeq(seq, k + 1, last)
           step == IF row.page < row.pages THEN "count" ELSE "done"
           new == [row EXCEPT !.seen = row.seen \o page, !.page = row.page + 1, !.step = step]
<1>7. TheCatalogue!Min({Len(seq), k + 1 + PageSize - 1}) = last
  <2> HIDE DEF k, m
  <2>1. TheCatalogue!Min({Len(seq), m}) = IF Len(seq) <= m THEN Len(seq) ELSE m
    BY <1>4, <1>6, MinOfTwo
  <2>2. {Len(seq), k + 1 + PageSize - 1} = {Len(seq), m}
    BY <1>6
  <2>3. last = IF Len(seq) <= m THEN Len(seq) ELSE m
    BY <1>4, <1>6
  <2> QED BY <2>1, <2>2, <2>3
<1>8. reading' = [reading EXCEPT ![r] = new]
  <2>1. DOMAIN reading = Readers
    BY DEF CatalogueInv, ReadersTyped
  <2>2. DOMAIN row = {"step", "filter", "page", "pages", "seen", "quiet"}
    BY <1>1 DEF Positions
  <2> HIDE DEF k, last, listing
  <2> QED BY <1>2, <1>7, <2>1, <2>2
<1>9. page \in Seq(Listed)
  <2>1. seq \in Seq(Listed)
    BY <1>3, <1>4, SeqMonotonic
  <2>2. \A i \in k + 1..last : seq[i] \in Listed
    <3> HIDE DEF k, m
    <3>1. \A i \in k + 1..last : i \in 1..Len(seq)
      BY <1>4, <1>6
    <3> QED BY <2>1, <3>1, ElementOfSeq
  <2>3. k + 1 \in Int /\ last \in Int
    <3> HIDE DEF k, m
    <3> QED BY <1>4, <1>6
  <2> HIDE DEF k, last
  <2> QED BY <2>2, <2>3, SubSeqProperties
<1>10. new \in Positions
  <2>1. row.seen \o page \in Seq(Listed)
    <3> HIDE DEF page
    <3> QED BY <1>5, <1>9, ConcatProperties
  <2>2. step \in {"count", "done"} /\ row.page + 1 \in Nat \ {0}
    BY <1>5
  <2> HIDE DEF page, step
  <2>3. \A rec \in Positions :
          /\ \A s \in Seq(Listed) : [rec EXCEPT !.seen = s] \in Positions
          /\ \A n \in Nat \ {0} : [rec EXCEPT !.page = n] \in Positions
          /\ \A st \in {"count", "done"} : [rec EXCEPT !.step = st] \in Positions
    BY DEF Positions
  <2>4. PICK seen \in Seq(Listed), n \in Nat \ {0} : seen = row.seen \o page /\ n = row.page + 1
    BY <2>1, <2>2
  <2>5. [[[row EXCEPT !.seen = seen] EXCEPT !.page = n] EXCEPT !.step = step] \in Positions
    BY <1>1, <2>2, <2>3
  <2>6. new = [[[row EXCEPT !.seen = seen] EXCEPT !.page = n] EXCEPT !.step = step]
    BY <2>4
  <2> QED BY <2>5, <2>6
<1>11. /\ new.page = row.page + 1 /\ new.step = step /\ new.filter = row.filter
       /\ new.quiet = row.quiet /\ new.seen = row.seen \o page /\ new.pages = row.pages
  <2> HIDE DEF page
  <2> QED BY <1>1 DEF Positions
<1>12. ASSUME row.quiet PROVE SeenInOrder(new)
  <2>1. SeenInOrder(row)
    BY <1>1, <1>12 DEF CatalogueInv, ReadersInOrder, TheCatalogue!Idle
  <2>2. row.seen = Upto(seq, k)
    <3>1. CASE row.page = 1
      <4>1. k = 0 /\ row.seen = << >>
        BY <1>5, <2>1, <3>1 DEF SeenInOrder
      <4>2. SubSeq(seq, 1, 0) = << >>
        BY SubSeqEmpty
      <4> HIDE DEF k
      <4> QED BY <1>4, <4>1, <4>2 DEF Upto
    <3>2. CASE row.page # 1
      <4>1. row.page > 1
        BY <1>5, <3>2
      <4>2. PICK before \in TheCatalogue!Orderings(listing, TheCatalogue!CurrentPrices) :
              row.seen = Upto(before, k)
        BY <2>1, <4>1 DEF SeenInOrder
      <4>3. before = seq
        <5> HIDE DEF listing
        <5> QED BY <1>3, OrderingIsUnique
      <4> QED BY <4>2, <4>3
    <3> QED BY <3>1, <3>2
  <2>3. row.seen \o page = Upto(seq, m)
    <3> HIDE DEF k, m
    <3> QED BY <1>4, <1>6, <2>2, NextPage
  <2>4. new.page # 1 /\ new.step # "slice" /\ (new.page - 1) * PageSize = m
    <3>1. new.page - 1 = row.page /\ new.page # 1
      <4> HIDE DEF new, row, k, m
      <4>1. new.page = row.page + 1 /\ row.page \in Nat \ {0}
        BY <1>5, <1>11
      <4> QED BY <4>1
    <3> HIDE DEF new
    <3> QED BY <1>11, <3>1
  <2>5. new.step = "done" => Cardinality(listing) <= m
    <3>1. row.pages = TheCatalogue!TotalPages(Cardinality(listing))
      BY <1>1, <2>1 DEF SeenInOrder
    <3>2. ASSUME new.step = "done" PROVE row.pages <= row.page
      <4>1. ~(row.page < row.pages)
        BY <1>11, <3>2
      <4> QED BY <1>5, <4>1
    <3>3. ASSUME row.pages <= row.page PROVE Cardinality(listing) <= m
      <4> HIDE DEF listing
      <4> QED BY <1>4, <1>5, <3>1, <3>3, PagesHoldAll
    <3> QED BY <3>2, <3>3
  <2> HIDE DEF new, m
  <2> QED BY <1>2, <1>11, <2>3, <2>4, <2>5 DEF SeenInOrder
<1>13. UNCHANGED <<rows, active, opened, published, repriced>>
  BY DEF TheCatalogue!Slice
<1>14. new.quiet => SeenInOrder(new)
  <2> HIDE DEF new
  <2> QED BY <1>11, <1>12
<1> HIDE DEF new
<1> QED BY <1>8, <1>10, <1>13, <1>14, ReaderMoves

LEMMA ReadersKeep ==
  ASSUME CatalogueInv, NEW r \in Readers
  PROVE  /\ \A filter \in Filters : TheCatalogue!Open(r, filter) => CatalogueInv'
         /\ TheCatalogue!Count(r) => CatalogueInv'
         /\ TheCatalogue!Close(r) => CatalogueInv'
<1>1. ASSUME NEW filter \in Filters, TheCatalogue!Open(r, filter) PROVE CatalogueInv'
  <2> DEFINE new == [step |-> "count", filter |-> filter, page |-> 1, pages |-> 0,
                     seen |-> << >>, quiet |-> TRUE]
  <2>1. new \in Positions
    BY DEF Positions
  <2>2. SeenInOrder(new)
    BY DEF SeenInOrder
  <2>3. reading' = [reading EXCEPT ![r] = new]
        /\ UNCHANGED <<rows, active, opened, published, repriced>>
    BY <1>1 DEF TheCatalogue!Open
  <2> HIDE DEF new
  <2> QED BY <2>1, <2>2, <2>3, ReaderMoves
<1>2. ASSUME TheCatalogue!Count(r) PROVE CatalogueInv'
  <2> DEFINE row == reading[r]
             count == TheCatalogue!TotalPages(Cardinality(TheCatalogue!Listing(row.filter)))
             new == [row EXCEPT !.step = "slice", !.pages = count]
  <2>1. row \in Positions /\ row.step = "count"
    BY <1>2 DEF TheCatalogue!Count, TheCatalogue!Idle, CatalogueInv, ReadersTyped
  <2>2. /\ reading' = [reading EXCEPT ![r] = new]
        /\ UNCHANGED <<rows, active, opened, published, repriced>>
    <3>1. DOMAIN reading = Readers /\ DOMAIN row = {"step", "filter", "page", "pages", "seen", "quiet"}
      BY <2>1 DEF CatalogueInv, ReadersTyped, Positions
    <3> QED BY <1>2, <3>1, CatalogueCardinality DEF TheCatalogue!Count
  <2>3. count \in Nat
    <3>1. Cardinality(TheCatalogue!Listing(row.filter)) \in Nat
      BY ListingIsPriced DEF CatalogueInv
    <3>2. \A n \in Nat : TheCatalogue!TotalPages(n) \in Nat
      BY CatalogueAssumption DEF TheCatalogue!TotalPages
    <3> QED BY <3>1, <3>2
  <2>4. new \in Positions
    <3> HIDE DEF count
    <3> QED BY <2>1, <2>3 DEF Positions
  <2>5. /\ new.page = row.page /\ new.step = "slice" /\ new.filter = row.filter
        /\ new.quiet = row.quiet /\ new.seen = row.seen /\ new.pages = count
    <3> HIDE DEF count
    <3> QED BY <2>1 DEF Positions
  <2>6. new.quiet => SeenInOrder(new)
    <3>1. row.quiet => SeenInOrder(row)
      BY <2>1 DEF CatalogueInv, ReadersInOrder, TheCatalogue!Idle
    <3> HIDE DEF new
    <3> QED BY <2>5, <3>1 DEF SeenInOrder
  <2> HIDE DEF new
  <2> QED BY <2>2, <2>4, <2>6, ReaderMoves
<1>3. ASSUME TheCatalogue!Close(r) PROVE CatalogueInv'
  BY <1>3, ReaderMoves DEF TheCatalogue!Close
<1> QED BY <1>1, <1>2, <1>3

LEMMA CatalogueKept == CatalogueInv /\ [TheCatalogue!Next]_catalogueVars => CatalogueInv'
<1> SUFFICES ASSUME CatalogueInv, [TheCatalogue!Next]_catalogueVars
             PROVE  CatalogueInv'
  OBVIOUS
<1>1. ASSUME NEW r \in Readers, \/ \E filter \in Filters : TheCatalogue!Open(r, filter)
                                \/ TheCatalogue!Count(r) \/ TheCatalogue!Slice(r)
                                \/ TheCatalogue!Close(r)
      PROVE  CatalogueInv'
  BY <1>1, ReadersKeep, SliceKeeps
<1>2. ASSUME NEW s \in Staff,
             \/ \E p \in Listed : TheCatalogue!PatchLoad(s, p) \/ TheCatalogue!FormLoad(s, p)
             \/ \E change \in Edits : TheCatalogue!PatchSave(s, change)
                                    \/ TheCatalogue!FormSave(s, change)
             \/ TheCatalogue!Abandon(s)
      PROVE  CatalogueInv'
  BY <1>2, StaffKeep
<1>3. ASSUME NEW p \in Listed, \/ \E row \in New : TheCatalogue!Create(p, row)
                               \/ TheCatalogue!Delete(p)
                               \/ \E price \in ListPrices : TheCatalogue!Publish(p, price)
      PROVE  CatalogueInv'
  BY <1>3, ShopKeeps
<1>4. ASSUME NEW x, TheCatalogue!Switch(x) PROVE CatalogueInv'
  <2>1. TheCatalogue!Disturb /\ UNCHANGED <<rows, opened, published, repriced>>
    BY <1>4 DEF TheCatalogue!Switch
  <2>2. ReadersTyped' /\ ReadersInOrder'
    BY <2>1, Disturbed DEF CatalogueInv
  <2> QED BY <2>1, <2>2 DEF CatalogueInv, ListingTyped, PricesKnown, Priced
<1>5. ASSUME UNCHANGED catalogueVars PROVE CatalogueInv'
  <2>1. UNCHANGED <<rows, active, opened, reading, published, repriced>>
    BY <1>5 DEF catalogueVars
  <2>2. ReadersTyped' /\ ReadersInOrder'
    BY <2>1, ReadersRest DEF CatalogueInv
  <2> QED BY <2>1, <2>2 DEF CatalogueInv, ListingTyped, PricesKnown, Priced
<1> QED BY <1>1, <1>2, <1>3, <1>4, <1>5 DEF TheCatalogue!Next

\* A listing that is read to its end while nothing is committed has shown every
\* product that meets the filter once, in the order of the prices that were
\* published last, unless a PATCH has put an older price back.
THEOREM PagesShowAll == Spec => []PagesCoverListing
<1>1. CatalogueInv => PagesCoverListing
  <2> SUFFICES ASSUME CatalogueInv, NEW r \in Readers, reading[r] # TheCatalogue!Idle,
                      reading[r].step = "done", reading[r].quiet
               PROVE  LET row == reading[r]
                      IN /\ repriced = {} => row.seen \in
                              TheCatalogue!Orderings(TheCatalogue!Listing(row.filter), published)
                         /\ TheCatalogue!IsInjective(row.seen)
                         /\ TheCatalogue!ToSet(row.seen) = TheCatalogue!Listing(row.filter)
                         /\ row.filter.brand # Unset =>
                              Len(row.seen) <= TheCatalogue!Cardinality(
                                                 TheCatalogue!ForBrand(row.filter.brand))
    BY Zenon DEF PagesCoverListing, TheCatalogue!PagesCoverListing
  <2> DEFINE row == reading[r]
             listing == TheCatalogue!Listing(row.filter)
  <2>1. row \in Positions /\ SeenInOrder(row)
    BY DEF CatalogueInv, ReadersTyped, ReadersInOrder
  <2>2. /\ listing \subseteq Listed /\ listing \subseteq Nat /\ IsFiniteSet(listing)
        /\ \A p \in listing : /\ rows[p] # TheCatalogue!Missing
                              /\ TheCatalogue!CurrentPrices[p] = rows[p].price
    BY ListingIsPriced DEF CatalogueInv
  <2>3. row.page > 1
    BY <2>1 DEF SeenInOrder, Positions
  <2>4. PICK seq \in TheCatalogue!Orderings(listing, TheCatalogue!CurrentPrices) :
          row.seen = Upto(seq, (row.page - 1) * PageSize)
    BY <2>1, <2>3 DEF SeenInOrder
  <2>5. /\ seq \in Seq(listing) /\ Len(seq) = Cardinality(listing) /\ Cardinality(listing) \in Nat
        /\ \A i, j \in 1..Len(seq) : i # j => seq[i] # seq[j]
        /\ \A x \in listing : \E i \in 1..Len(seq) : seq[i] = x
        /\ \A i, j \in 1..Len(seq) :
             i < j => TheCatalogue!Before(TheCatalogue!CurrentPrices, seq[i], seq[j])
    <3> HIDE DEF listing
    <3> QED BY <2>2, OrderingIsBijective
  <2>6. row.seen = seq
    <3>1. Cardinality(listing) <= (row.page - 1) * PageSize
      BY <2>1 DEF SeenInOrder
    <3>2. PICK n \in Nat : n = (row.page - 1) * PageSize
      <4>1. row.page - 1 \in Nat /\ PageSize \in Nat
        BY <2>1, CatalogueAssumption DEF Positions
      <4> QED BY <4>1
    <3>3. Upto(seq, n) = SubSeq(seq, 1, Len(seq))
      BY <2>5, <3>1, <3>2 DEF Upto
    <3> QED BY <2>4, <2>5, <3>2, <3>3, SubSeqFull
  <2>7. DOMAIN seq = 1..Len(seq) /\ \A i \in 1..Len(seq) : seq[i] \in listing
    BY <2>5, ElementOfSeq, LenProperties
  <2>8. TheCatalogue!IsInjective(row.seen)
    BY <2>5, <2>6, <2>7 DEF TheCatalogue!IsInjective
  <2>9. TheCatalogue!ToSet(row.seen) = listing
    <3> HIDE DEF listing
    <3> QED BY <2>5, <2>6, <2>7 DEF TheCatalogue!ToSet
  <2>10. ASSUME repriced = {} PROVE row.seen \in TheCatalogue!Orderings(listing, published)
    <3>1. \A p \in listing : TheCatalogue!CurrentPrices[p] = published[p]
      BY <2>2, <2>10 DEF CatalogueInv, PricesKnown
    <3>2. \A i, j \in 1..Len(seq) : i < j => TheCatalogue!Before(published, seq[i], seq[j])
      BY <2>5, <2>7, <3>1 DEF TheCatalogue!Before
    <3>3. seq \in TheCatalogue!SetToSeqs(listing)
      BY DEF TheCatalogue!Orderings
    <3> HIDE DEF listing
    <3> QED BY <2>6, <3>2, <3>3 DEF TheCatalogue!Orderings
  <2>11. ASSUME row.filter.brand # Unset
         PROVE  Len(row.seen) <= TheCatalogue!Cardinality(TheCatalogue!ForBrand(row.filter.brand))
    <3>1. listing \subseteq TheCatalogue!ForBrand(row.filter.brand)
      BY <2>11 DEF TheCatalogue!Listing
    <3>2. IsFiniteSet(TheCatalogue!ForBrand(row.filter.brand))
      BY FS_Subset, CatalogueAssumption DEF TheCatalogue!ForBrand, TheCatalogue!Active
    <3>3. Cardinality(listing) <= Cardinality(TheCatalogue!ForBrand(row.filter.brand))
      <4> HIDE DEF listing
      <4> QED BY <3>1, <3>2, FS_Subset
    <3> QED BY <2>5, <2>6, <3>3, CatalogueCardinality
  <2> QED BY <2>8, <2>9, <2>10, <2>11
<1>2. Init => CatalogueInv
  BY CatalogueInit DEF Init
<1> QED BY <1>1, <1>2, CatalogueStep, CatalogueKept, PTL DEF Spec

-----------------------------------------------------------------------------
\* The tree of categories.

\* A step of the storefront is a step of its tree, or leaves it alone.
LEMMA TreeStep == [Next]_vars => [TheTree!Next]_treeVars
<1>1. ASSUME UNCHANGED vars PROVE UNCHANGED treeVars
  BY <1>1 DEF vars, treeVars
<1>2. ASSUME Next PROVE TheTree!Next \/ UNCHANGED treeVars
  BY <1>2 DEF Next
<1> QED BY <1>1, <1>2

Called == Names \cup {TheTree!NoName}
Slugs == Called \X Nat
Caches == [path : Seq(Slugs), full : Seq(Called)]

TreeTyped ==
  /\ parent \in [Categories -> Categories \cup {TheTree!Top, TheTree!Absent}]
  /\ name \in [Categories -> Called]
  /\ slug \in [Categories -> Slugs]
  /\ cache \in [Categories -> Caches]

\* The levels rise from a category to its children.
Levels(tree, level, highest) ==
  /\ level \in [Categories -> 0..highest]
  /\ \A n \in TheTree!Present(tree) :
       tree[n] # TheTree!Top => /\ tree[n] \in TheTree!Present(tree)
                                /\ level[tree[n]] < level[n]

\* There are such levels, so that the way up always ends at a root.
Rooted(tree) == \E highest \in Nat : \E level : Levels(tree, level, highest)

SlugsApart ==
  \A m, n \in TheTree!Present(parent) : m # n => slug[m] # slug[n]

\* What a category keeps is what is built from its parent's.
Follows(caches, tree, names) ==
  \A n \in TheTree!Present(tree) : caches[n] = TheTree!Built(caches, tree, names, slug, n)

TreeInv == TreeTyped /\ Rooted(parent) /\ SlugsApart /\ Follows(cache, parent, name)

\* What holds of a category whenever it holds of its parent holds of all.
LEMMA DownTheTree ==
  ASSUME NEW tree, Rooted(tree), NEW S,
         \A n \in TheTree!Present(tree) : tree[n] = TheTree!Top \/ tree[n] \in S => n \in S
  PROVE  TheTree!Present(tree) \subseteq S
<1>1. PICK highest \in Nat : \E level : Levels(tree, level, highest)
  BY DEF Rooted
<1>2. PICK level : Levels(tree, level, highest)
  BY <1>1
<1>3. PICK rest : rest = TheTree!Present(tree) \ S
  OBVIOUS
<1>4. PICK T : T = {level[n] : n \in rest}
  OBVIOUS
<1>5. rest \subseteq Categories
  BY <1>3 DEF TheTree!Present
<1>6. T \subseteq Nat
  BY <1>1, <1>2, <1>4, <1>5 DEF Levels
<1>7. SUFFICES ASSUME rest # {} PROVE FALSE
  BY <1>3
<1>8. PICK k \in T : \A m \in T : k <= m
  BY <1>4, <1>6, <1>7, LeastNumber
<1>9. PICK n \in rest : k = level[n]
  BY <1>4, <1>8
<1>10. tree[n] # TheTree!Top /\ tree[n] \notin S
  BY <1>3, <1>9
<1>11. tree[n] \in rest /\ level[tree[n]] < level[n]
  BY <1>2, <1>3, <1>9, <1>10 DEF Levels
<1>12. level[tree[n]] \in T /\ level[n] \in Nat /\ level[tree[n]] \in Nat
  BY <1>4, <1>5, <1>6, <1>11
<1> QED BY <1>8, <1>9, <1>11, <1>12

\* The value of a root is given, and that of a child is a step from its parent's.
Steps(tree, V, first, step) ==
  /\ first \in [TheTree!Present(tree) -> V]
  /\ step \in [TheTree!Present(tree) \X V -> V]

Computed(tree, first, step, f) ==
  \A n \in TheTree!Present(tree) :
    f[n] = IF tree[n] = TheTree!Top THEN first[n] ELSE step[<<n, f[tree[n]]>>]

LEMMA ComputedDown ==
  ASSUME NEW tree, Rooted(tree), NEW V, NEW first, NEW step, Steps(tree, V, first, step)
  PROVE  \E f \in [TheTree!Present(tree) -> V] : Computed(tree, first, step, f)
<1>1. PICK highest \in Nat : \E level : Levels(tree, level, highest)
  BY DEF Rooted
<1>2. PICK level : Levels(tree, level, highest)
  BY <1>1
<1>3. PICK P : P = TheTree!Present(tree)
  OBVIOUS
<1>4. /\ first \in [P -> V] /\ step \in [P \X V -> V]
      /\ \A n \in P : /\ level[n] \in 0..highest
                      /\ tree[n] # TheTree!Top => tree[n] \in P /\ level[tree[n]] < level[n]
  BY <1>2, <1>3 DEF Levels, Steps, TheTree!Present
<1> DEFINE Above(k) == {n \in P : level[n] < k}
           Made(k, f) ==
             /\ f \in [Above(k) -> V]
             /\ \A n \in Above(k) :
                  f[n] = IF tree[n] = TheTree!Top THEN first[n] ELSE step[<<n, f[tree[n]]>>]
<1>5. ASSUME NEW k \in Nat, NEW g, Made(k, g)
      PROVE  \E f : Made(k + 1, f)
  <2>1. PICK f : f = [n \in Above(k + 1) |-> IF tree[n] = TheTree!Top THEN first[n]
                                            ELSE step[<<n, g[tree[n]]>>]]
    OBVIOUS
  <2>2. \A n \in Above(k + 1) : n \in P /\ (tree[n] # TheTree!Top => tree[n] \in Above(k))
    BY <1>4
  <2>3. \A n \in Above(k + 1) : tree[n] # TheTree!Top => step[<<n, g[tree[n]]>>] \in V
    BY <1>4, <1>5, <2>2
  <2>4. f \in [Above(k + 1) -> V]
    BY <1>4, <2>1, <2>2, <2>3
  <2>5. \A n \in Above(k) : n \in Above(k + 1)
    BY <1>4
  <2>6. \A n \in Above(k) : f[n] = g[n]
    BY <1>5, <2>1, <2>5
  <2>7. \A n \in Above(k + 1) :
          f[n] = IF tree[n] = TheTree!Top THEN first[n] ELSE step[<<n, f[tree[n]]>>]
    BY <2>1, <2>2, <2>6
  <2> QED BY <2>4, <2>7
<1>6. \E f : Made(0, f)
  <2>1. Above(0) = {}
    BY <1>4
  <2>2. PICK f : f = [n \in Above(0) |-> first[n]]
    OBVIOUS
  <2>3. f \in [Above(0) -> V] /\ \A n \in Above(0) : FALSE
    BY <2>1, <2>2
  <2> QED BY <2>3
<1>7. PICK T : T = {k \in Nat : ~ \E f : Made(k, f)}
  OBVIOUS
<1>8. T = {}
  <2> SUFFICES ASSUME T # {} PROVE FALSE
    OBVIOUS
  <2>1. T \subseteq Nat
    BY <1>7
  <2>2. PICK k \in T : \A m \in T : k <= m
    BY <2>1, LeastNumber
  <2> HIDE DEF Made
  <2>3. k \in Nat /\ k # 0
    BY <1>6, <1>7, <2>1, <2>2
  <2>4. k - 1 \in Nat /\ ~(k <= k - 1) /\ (k - 1) + 1 = k
    BY <2>3
  <2>5. PICK g : Made(k - 1, g)
    BY <1>7, <2>2, <2>4
  <2>6. \E f : Made(k, f)
    BY <1>5, <2>4, <2>5
  <2> QED BY <1>7, <2>2, <2>6
<1>9. PICK f : Made(highest + 1, f)
  <2> HIDE DEF Made
  <2> QED BY <1>1, <1>7, <1>8
<1>10. Above(highest + 1) = P
  BY <1>1, <1>4
<1> QED BY <1>3, <1>9, <1>10 DEF Computed


IsBranch(tree, down) ==
  down = [n \in TheTree!Present(tree) |->
            IF tree[n] = TheTree!Top THEN <<n>> ELSE Append(down[tree[n]], n)]

LEMMA BranchesAre ==
  ASSUME NEW tree, Rooted(tree)
  PROVE  /\ TheTree!Branches(tree) \in [TheTree!Present(tree) -> Seq(TheTree!Present(tree))]
         /\ \A n \in TheTree!Present(tree) :
              TheTree!Branches(tree)[n] =
                IF tree[n] = TheTree!Top THEN <<n>>
                                         ELSE Append(TheTree!Branches(tree)[tree[n]], n)
<1>1. PICK P : P = TheTree!Present(tree)
  OBVIOUS
<1>2. PICK first : first = [n \in P |-> <<n>>]
  OBVIOUS
<1>3. PICK step : step = [nv \in P \X Seq(P) |-> Append(nv[2], nv[1])]
  OBVIOUS
<1>4. first \in [P -> Seq(P)] /\ step \in [P \X Seq(P) -> Seq(P)]
  BY <1>2, <1>3
<1>5. PICK f \in [P -> Seq(P)] :
        \A n \in P : f[n] = IF tree[n] = TheTree!Top THEN first[n] ELSE step[<<n, f[tree[n]]>>]
  <2>1. Steps(tree, Seq(P), first, step)
    BY <1>1, <1>4 DEF Steps
  <2>2. \E f \in [TheTree!Present(tree) -> Seq(P)] : Computed(tree, first, step, f)
    BY <2>1, ComputedDown
  <2> QED BY <1>1, <2>2 DEF Computed
<1>6. \A n \in P : tree[n] # TheTree!Top => tree[n] \in P
  BY <1>1 DEF Rooted, Levels
<1>7. \A n \in P : f[n] = IF tree[n] = TheTree!Top THEN <<n>> ELSE Append(f[tree[n]], n)
  BY <1>2, <1>3, <1>5, <1>6
<1>8. IsBranch(tree, f)
  BY <1>1, <1>5, <1>7 DEF IsBranch
<1>9. TheTree!Branches(tree) = CHOOSE down : IsBranch(tree, down)
  BY Zenon DEF TheTree!Branches, IsBranch
<1>10. PICK B : B = TheTree!Branches(tree)
  OBVIOUS
<1>11. IsBranch(tree, B)
  BY <1>8, <1>9, <1>10, Zenon
<1>12. DOMAIN B = P /\ \A n \in P : B[n] = IF tree[n] = TheTree!Top THEN <<n>>
                                           ELSE Append(B[tree[n]], n)
  BY <1>1, <1>11 DEF IsBranch
<1>13. PICK S : S = {n \in P : B[n] \in Seq(P)}
  OBVIOUS
<1>14. \A n \in P : tree[n] = TheTree!Top \/ tree[n] \in S => n \in S
  <2> SUFFICES ASSUME NEW n \in P, tree[n] = TheTree!Top \/ tree[n] \in S
               PROVE  B[n] \in Seq(P)
    BY <1>13
  <2>1. CASE tree[n] = TheTree!Top
    <3>1. B[n] = <<n>>
      BY <1>12, <2>1
    <3> QED BY <3>1
  <2>2. CASE tree[n] # TheTree!Top
    <3>1. PICK s \in Seq(P) : s = B[tree[n]]
      BY <1>13, <2>2
    <3>2. B[n] = Append(s, n)
      BY <1>12, <2>2, <3>1
    <3> QED BY <3>2
  <2> QED BY <2>1, <2>2
<1>15. P \subseteq S
  BY <1>1, <1>14, DownTheTree
<1>16. B \in [P -> Seq(P)]
  <2>1. B = [n \in P |-> B[n]]
    BY <1>1, <1>11 DEF IsBranch
  <2> QED BY <1>13, <1>15, <2>1
<1> QED BY <1>1, <1>10, <1>12, <1>16

\* The descendants of a category are its children and their descendants; it is
\* below none of them.
LEMMA DescendantsAre ==
  ASSUME NEW tree, Rooted(tree), NEW n \in TheTree!Present(tree)
  PROVE  /\ TheTree!Descendants(tree, n) \subseteq TheTree!Present(tree) \ {n}
         /\ \A m \in TheTree!Present(tree) \ {n} :
              m \in TheTree!Descendants(tree, n)
                <=> /\ tree[m] # TheTree!Top
                    /\ tree[m] = n \/ tree[m] \in TheTree!Descendants(tree, n)
         /\ tree[n] # TheTree!Top => tree[n] \notin TheTree!Descendants(tree, n) \cup {n}
<1>1. PICK P, B : P = TheTree!Present(tree) /\ B = TheTree!Branches(tree)
  OBVIOUS
<1>2. /\ B \in [P -> Seq(P)]
      /\ \A m \in P : B[m] = IF tree[m] = TheTree!Top THEN <<m>> ELSE Append(B[tree[m]], m)
  BY <1>1, BranchesAre
<1>3. \A m \in P : tree[m] # TheTree!Top => tree[m] \in P
  BY <1>1 DEF Rooted, Levels
<1> DEFINE On(m) == TheTree!ToSet(B[m])
<1>4. ASSUME NEW m \in P
      PROVE  On(m) = IF tree[m] = TheTree!Top THEN {m} ELSE On(tree[m]) \cup {m}
  <2>1. CASE tree[m] = TheTree!Top
    <3>1. B[m] = <<m>>
      BY <1>2, <2>1
    <3> QED BY <2>1, <3>1 DEF TheTree!ToSet
  <2>2. CASE tree[m] # TheTree!Top
    <3>1. PICK s \in Seq(P) : s = B[tree[m]]
      BY <1>2, <1>3, <2>2
    <3>2. B[m] = Append(s, m)
      BY <1>2, <2>2, <3>1
    <3>3. On(m) = TheTree!ToSet(s) \cup {m}
      <4>1. DOMAIN s = 1..Len(s) /\ DOMAIN Append(s, m) = 1..Len(s) + 1 /\ Len(s) \in Nat
        BY <3>1
      <4>2. /\ \A i \in 1..Len(s) : Append(s, m)[i] = s[i]
            /\ Append(s, m)[Len(s) + 1] = m
        BY <3>1
      <4> QED BY <3>2, <4>1, <4>2 DEF TheTree!ToSet
    <3> QED BY <2>2, <3>1, <3>3
  <2> QED BY <2>1, <2>2
<1>5. \A m \in P : m \in On(m)
  BY <1>4
<1>6. TheTree!Descendants(tree, n) = {m \in P \ {n} : n \in On(m)}
  BY <1>1 DEF TheTree!Descendants
<1>7. PICK highest \in Nat : \E level : Levels(tree, level, highest)
  BY DEF Rooted
<1>8. PICK level : Levels(tree, level, highest)
  BY <1>7
<1>9. \A m \in P : level[m] \in Int /\ (tree[m] # TheTree!Top => level[tree[m]] < level[m])
  BY <1>1, <1>7, <1>8 DEF Levels, TheTree!Present
<1>10. PICK S : S = {m \in P : n \in On(m) => level[n] <= level[m]}
  OBVIOUS
<1> HIDE DEF On
<1>11. \A m \in P : tree[m] = TheTree!Top \/ tree[m] \in S => m \in S
  BY <1>1, <1>3, <1>4, <1>9, <1>10
<1>12. P \subseteq S
  BY <1>1, <1>11, DownTheTree
<1>13. tree[n] # TheTree!Top => n \notin On(tree[n])
  BY <1>1, <1>3, <1>9, <1>10, <1>12
<1> QED BY <1>1, <1>3, <1>4, <1>5, <1>6, <1>9, <1>13

\* _refresh_descendants builds what lies below a category, each from its
\* parent's new value, and nothing else.
LEMMA RefreshIs ==
  ASSUME NEW tree, Rooted(tree), NEW n \in TheTree!Present(tree),
         NEW caches \in [Categories -> Caches],
         NEW names \in [Categories -> Called], NEW slugs \in [Categories -> Slugs]
  PROVE  LET after == TheTree!RefreshDescendants(caches, tree, names, slugs, n)
         IN /\ after \in [Categories -> Caches]
            /\ \A m \in Categories :
                 after[m] = IF m \in TheTree!Descendants(tree, n)
                            THEN TheTree!Built(after, tree, names, slugs, m) ELSE caches[m]
<1>1. PICK P, below : P = TheTree!Present(tree) /\ below = TheTree!Descendants(tree, n)
  OBVIOUS
<1>2. P \subseteq Categories /\ below \subseteq P
  BY <1>1, DescendantsAre DEF TheTree!Present
<1>3. \A m \in P : tree[m] # TheTree!Top => tree[m] \in P
  BY <1>1 DEF Rooted, Levels
<1> DEFINE Own(m, above) == [path |-> Append(above.path, slugs[m]),
                             full |-> Append(above.full, names[m])]
           Fresh(f) == [m \in TheTree!Present(tree) |->
                          IF m \in TheTree!Descendants(tree, n)
                          THEN TheTree!Built(f, tree, names, slugs, m) ELSE caches[m]]
<1>4. ASSUME NEW m \in Categories, NEW above \in Caches
      PROVE  Own(m, above) \in Caches
  <2>1. slugs[m] \in Slugs /\ names[m] \in Called
    OBVIOUS
  <2>2. above.path \in Seq(Slugs) /\ above.full \in Seq(Called)
    BY DEF Caches
  <2>3. Append(above.path, slugs[m]) \in Seq(Slugs) /\ Append(above.full, names[m]) \in Seq(Called)
    BY <2>1, <2>2
  <2> QED BY <2>3 DEF Caches
<1>5. TheTree!Empty \in Caches
  BY DEF TheTree!Empty, Caches
<1>6. ASSUME NEW f, NEW m
      PROVE  TheTree!Built(f, tree, names, slugs, m)
               = Own(m, IF tree[m] = TheTree!Top THEN TheTree!Empty ELSE f[tree[m]])
  BY DEF TheTree!Built
<1> HIDE DEF Own
<1>7. PICK first : first = [m \in P |-> IF m \in below THEN Own(m, TheTree!Empty) ELSE caches[m]]
  OBVIOUS
<1>8. PICK step : step = [mv \in P \X Caches |-> IF mv[1] \in below THEN Own(mv[1], mv[2])
                                                 ELSE caches[mv[1]]]
  OBVIOUS
<1>9. first \in [P -> Caches] /\ step \in [P \X Caches -> Caches]
  BY <1>2, <1>4, <1>5, <1>7, <1>8
<1>10. \E f \in [P -> Caches] :
         \A m \in P : f[m] = IF tree[m] = TheTree!Top THEN first[m] ELSE step[<<m, f[tree[m]]>>]
  <2>1. Steps(tree, Caches, first, step)
    BY <1>1, <1>9 DEF Steps
  <2>2. \E f \in [TheTree!Present(tree) -> Caches] : Computed(tree, first, step, f)
    BY <2>1, ComputedDown
  <2> QED BY <1>1, <2>2 DEF Computed
<1>11. PICK f \in [P -> Caches] :
         \A m \in P : f[m] = IF tree[m] = TheTree!Top THEN first[m] ELSE step[<<m, f[tree[m]]>>]
  BY <1>10
<1>12. \A m \in P : f[m] = IF m \in below THEN TheTree!Built(f, tree, names, slugs, m)
                                          ELSE caches[m]
  <2> SUFFICES ASSUME NEW m \in P
               PROVE  f[m] = IF m \in below THEN TheTree!Built(f, tree, names, slugs, m)
                                            ELSE caches[m]
    OBVIOUS
  <2>1. CASE tree[m] = TheTree!Top
    BY <1>6, <1>7, <1>11, <2>1
  <2>2. CASE tree[m] # TheTree!Top
    <3>1. PICK v \in Caches : v = f[tree[m]]
      BY <1>3, <1>11, <2>2
    <3>2. f[m] = step[<<m, v>>]
      BY <1>11, <2>2, <3>1
    <3>3. f[m] = IF m \in below THEN Own(m, v) ELSE caches[m]
      BY <1>8, <3>2
    <3> QED BY <1>6, <2>2, <3>1, <3>3
  <2> QED BY <2>1, <2>2
<1>13. f = Fresh(f)
  BY <1>1, <1>12
<1>14. PICK after : after = TheTree!RefreshDescendants(caches, tree, names, slugs, n)
  OBVIOUS
<1>15. after = [m \in Categories |-> IF m \in TheTree!Descendants(tree, n)
                                     THEN (CHOOSE g : g = Fresh(g))[m] ELSE caches[m]]
  BY <1>14, Zenon DEF TheTree!RefreshDescendants
<1>16. PICK g : /\ g = Fresh(g)
                /\ after = [m \in Categories |-> IF m \in TheTree!Descendants(tree, n)
                                                THEN g[m] ELSE caches[m]]
  <2> HIDE DEF Fresh
  <2> QED BY <1>13, <1>15, Zenon
<1>17. \A m \in P : g[m] = IF m \in below THEN TheTree!Built(g, tree, names, slugs, m)
                                          ELSE caches[m]
  BY <1>1, <1>16
<1>18. \A m \in P : after[m] = g[m]
  BY <1>1, <1>2, <1>16, <1>17
<1>19. \A m \in below : TheTree!Built(g, tree, names, slugs, m)
                          = TheTree!Built(after, tree, names, slugs, m)
  BY <1>2, <1>3, <1>6, <1>18
<1>20. \A m \in Categories : after[m] = IF m \in below
                                        THEN TheTree!Built(after, tree, names, slugs, m)
                                        ELSE caches[m]
  BY <1>1, <1>2, <1>16, <1>17, <1>19
<1>21. PICK S : S = {m \in P : after[m] \in Caches}
  OBVIOUS
<1>22. \A m \in P : tree[m] = TheTree!Top \/ tree[m] \in S => m \in S
  BY <1>2, <1>4, <1>5, <1>6, <1>20, <1>21
<1>23. P \subseteq S
  BY <1>1, <1>22, DownTheTree
<1>24. \A m \in Categories : after[m] \in Caches
  BY <1>2, <1>20, <1>21, <1>23
<1>25. after \in [Categories -> Caches]
  BY <1>16, <1>24
<1> QED BY <1>1, <1>14, <1>20, <1>25

LEMMA BuiltTyped ==
  ASSUME NEW tree, Rooted(tree), NEW n \in TheTree!Present(tree),
         NEW caches \in [Categories -> Caches],
         NEW names \in [Categories -> Called], NEW slugs \in [Categories -> Slugs]
  PROVE  TheTree!Built(caches, tree, names, slugs, n) \in Caches
<1>1. n \in Categories /\ (tree[n] # TheTree!Top => tree[n] \in Categories)
  BY DEF Rooted, Levels, TheTree!Present
<1>2. PICK above \in Caches :
        above = IF tree[n] = TheTree!Top THEN TheTree!Empty ELSE caches[tree[n]]
  <2>1. TheTree!Empty \in Caches
    BY DEF Caches, TheTree!Empty
  <2> QED BY <1>1, <2>1
<1>3. above.path \in Seq(Slugs) /\ above.full \in Seq(Called)
  BY DEF Caches
<1>4. slugs[n] \in Slugs /\ names[n] \in Called
  BY <1>1
<1>5. Append(above.path, slugs[n]) \in Seq(Slugs) /\ Append(above.full, names[n]) \in Seq(Called)
  BY <1>3, <1>4
<1>6. TheTree!Built(caches, tree, names, slugs, n)
        = [path |-> Append(above.path, slugs[n]), full |-> Append(above.full, names[n])]
  BY <1>2 DEF TheTree!Built
<1> QED BY <1>5, <1>6 DEF Caches

\* Where a category has been built, and what does not lie below it too, a refresh
\* leaves all built.
LEMMA RefreshFollows ==
  ASSUME NEW tree, Rooted(tree), NEW n \in TheTree!Present(tree),
         NEW caches \in [Categories -> Caches], NEW names \in [Categories -> Called],
         slug \in [Categories -> Slugs],
         \A m \in TheTree!Present(tree) :
           m \notin TheTree!Descendants(tree, n)
             => caches[m] = TheTree!Built(caches, tree, names, slug, m)
  PROVE  LET after == TheTree!RefreshDescendants(caches, tree, names, slug, n)
         IN after \in [Categories -> Caches] /\ Follows(after, tree, names)
<1>1. PICK after : after = TheTree!RefreshDescendants(caches, tree, names, slug, n)
  OBVIOUS
<1>2. PICK below : below = TheTree!Descendants(tree, n)
  OBVIOUS
<1>3. /\ after \in [Categories -> Caches]
      /\ \A m \in Categories :
           after[m] = IF m \in below THEN TheTree!Built(after, tree, names, slug, m)
                                     ELSE caches[m]
  BY <1>1, <1>2, RefreshIs
<1>4. \A m \in TheTree!Present(tree) :
        /\ m \in Categories
        /\ tree[m] # TheTree!Top => tree[m] \in TheTree!Present(tree)
  BY DEF Rooted, Levels, TheTree!Present
<1>5. ASSUME NEW m \in TheTree!Present(tree), m \notin below, tree[m] # TheTree!Top
      PROVE  tree[m] \in Categories \ below
  BY <1>2, <1>4, <1>5, DescendantsAre
<1>6. ASSUME NEW m \in TheTree!Present(tree), m \notin below
      PROVE  TheTree!Built(caches, tree, names, slug, m)
               = TheTree!Built(after, tree, names, slug, m)
  BY <1>3, <1>5, <1>6 DEF TheTree!Built
<1>7. \A m \in TheTree!Present(tree) : after[m] = TheTree!Built(after, tree, names, slug, m)
  BY <1>2, <1>3, <1>4, <1>6
<1> QED BY <1>1, <1>3, <1>7 DEF Follows

\* A save leaves all built from the new names.
LEMMA SavedFollows ==
  ASSUME TreeInv, NEW n \in TheTree!Present(parent), NEW called \in Called
  PROVE  LET names == [name EXCEPT ![n] = called]
             after == TheTree!Saved(cache, names, n)
         IN /\ names \in [Categories -> Called]
            /\ after \in [Categories -> Caches]
            /\ Follows(after, parent, names)
<1>1. PICK names : names = [name EXCEPT ![n] = called]
  OBVIOUS
<1>2. PICK own : own = [cache EXCEPT ![n] = TheTree!Built(cache, parent, names, slug, n)]
  OBVIOUS
<1>3. PICK after : after = TheTree!Saved(cache, names, n)
  OBVIOUS
<1>4. /\ n \in Categories /\ Rooted(parent)
      /\ name \in [Categories -> Called] /\ slug \in [Categories -> Slugs]
      /\ cache \in [Categories -> Caches]
      /\ Follows(cache, parent, name)
  BY DEF TreeInv, TreeTyped, TheTree!Present
<1>5. names \in [Categories -> Called] /\ \A m \in Categories \ {n} : names[m] = name[m]
  BY <1>1, <1>4
<1>6. TheTree!Built(cache, parent, names, slug, n) \in Caches
  BY <1>4, <1>5, BuiltTyped
<1>7. /\ own \in [Categories -> Caches]
      /\ own[n] = TheTree!Built(cache, parent, names, slug, n)
      /\ \A m \in Categories \ {n} : own[m] = cache[m]
  BY <1>2, <1>4, <1>6
<1>8. CASE names[n] # name[n]
  <2>1. after = TheTree!RefreshDescendants(own, parent, names, slug, n)
    BY <1>2, <1>3, <1>8 DEF TheTree!Saved
  <2>2. ASSUME NEW m \in TheTree!Present(parent), m \notin TheTree!Descendants(parent, n)
        PROVE  own[m] = TheTree!Built(own, parent, names, slug, m)
    <3>1. m \in Categories
      BY DEF TheTree!Present
    <3>2. parent[m] # TheTree!Top => parent[m] \in Categories \ {n}
      BY <1>4, <2>2, DescendantsAre DEF Rooted, Levels, TheTree!Present
    <3>3. TheTree!Built(cache, parent, names, slug, m)
            = TheTree!Built(own, parent, names, slug, m)
      BY <1>7, <3>2 DEF TheTree!Built
    <3>4. m # n => cache[m] = TheTree!Built(cache, parent, names, slug, m)
      BY <1>4, <1>5, <3>1 DEF Follows, TheTree!Built
    <3> QED BY <1>7, <3>1, <3>3, <3>4
  <2>3. \A m \in TheTree!Present(parent) :
          m \notin TheTree!Descendants(parent, n)
            => own[m] = TheTree!Built(own, parent, names, slug, m)
    BY <2>2
  <2>4. after \in [Categories -> Caches] /\ Follows(after, parent, names)
    BY <1>4, <1>5, <1>7, <2>1, <2>3, RefreshFollows
  <2> QED BY <1>1, <1>3, <1>5, <2>4
<1>9. CASE names[n] = name[n]
  <2>1. names = name
    BY <1>1, <1>4, <1>9
  <2>2. own = cache
    BY <1>2, <1>4, <2>1 DEF Follows
  <2>3. after = cache
    BY <1>2, <1>3, <1>9, <2>2 DEF TheTree!Saved
  <2> QED BY <1>1, <1>3, <1>4, <2>1, <2>3
<1> QED BY <1>8, <1>9

\* generate_unique_slug: a slug that no category has.
LEMMA UniqueSlugIsNew ==
  ASSUME TreeTyped, NEW base \in Called
  PROVE  /\ TheTree!UniqueSlug(base) \in Slugs
         /\ \A n \in Categories : slug[n] # TheTree!UniqueSlug(base)
<1>1. PICK same : same = {m \in Categories : slug[m][1] = base}
  OBVIOUS
<1>2. PICK number : number = [n \in Categories |-> slug[n][2]]
  OBVIOUS
<1>3. PICK taken : taken = {number[n] : n \in same}
  OBVIOUS
<1>4. \A n \in Categories : /\ number[n] \in Nat
                            /\ slug[n] = <<slug[n][1], number[n]>>
  BY <1>2 DEF TreeTyped, Slugs
<1>5. IsFiniteSet(taken)
  <2>1. IsFiniteSet(same)
    BY <1>1, TreeAssumption, FS_Subset
  <2>2. PICK f : f = [n \in same |-> number[n]]
    OBVIOUS
  <2>3. f \in Surjection(same, taken)
    BY <1>3, <2>2 DEF Surjection
  <2> QED BY <2>1, <2>3, FS_Surjection
<1>6. PICK c \in Nat : c = Cardinality(taken)
  BY <1>5, FS_CardinalityType
<1>7. PICK free : free = (1..c + 1) \ taken
  OBVIOUS
<1>8. free # {}
  <2> SUFFICES ASSUME 1..c + 1 \subseteq taken PROVE FALSE
    BY <1>7
  <2>1. Cardinality(1..c + 1) <= c
    BY <1>5, <1>6, FS_Subset
  <2>2. 1 \in Int /\ c + 1 \in Int /\ ~(1 > c + 1) /\ (c + 1) - 1 + 1 = c + 1
    BY <1>6
  <2>3. Cardinality(1..c + 1) = c + 1
    BY <2>2, FS_Interval
  <2> QED BY <1>6, <2>1, <2>3
<1>9. TheTree!UniqueSlug(base) = <<base, TheTree!Min(free)>>
  <2>1. {slug[n][2] : n \in {m \in Categories : slug[m][1] = base}} = taken
    BY <1>1, <1>2, <1>3
  <2>2. TheTree!Cardinality(taken) = c
    BY <1>6 DEF TheTree!Cardinality, Cardinality
  <2> QED BY <1>7, <2>1, <2>2 DEF TheTree!UniqueSlug
<1>10. TheTree!Min(free) \in free
  <2>1. free \subseteq Nat
    BY <1>6, <1>7
  <2>2. \E n \in free : \A m \in free : n <= m
    BY <1>8, <2>1, LeastNumber
  <2> QED BY <2>2 DEF TheTree!Min
<1>11. TheTree!Min(free) \in Nat /\ TheTree!Min(free) \notin taken
  BY <1>6, <1>7, <1>10
<1>12. TheTree!UniqueSlug(base) \in Slugs
  BY <1>9, <1>11 DEF Slugs
<1>13. ASSUME NEW n \in Categories, slug[n] = TheTree!UniqueSlug(base) PROVE FALSE
  <2>1. slug[n][1] = base /\ number[n] = TheTree!Min(free)
    BY <1>2, <1>9, <1>13
  <2> QED BY <1>1, <1>3, <1>11, <2>1
<1> QED BY <1>12, <1>13

LEMMA AddKept ==
  ASSUME TreeInv, NEW n \in Categories, NEW above \in Categories \cup {TheTree!Top},
         NEW called \in Names, TheTree!Add(n, above, called)
  PROVE  TreeInv'
<1>1. PICK P : P = TheTree!Present(parent)
  OBVIOUS
<1>2. /\ parent \in [Categories -> Categories \cup {TheTree!Top, TheTree!Absent}]
      /\ name \in [Categories -> Called] /\ slug \in [Categories -> Slugs]
      /\ cache \in [Categories -> Caches]
      /\ Rooted(parent) /\ SlugsApart /\ Follows(cache, parent, name)
  BY DEF TreeInv, TreeTyped
<1>3. /\ n \notin P /\ above # n /\ (above = TheTree!Top \/ above \in P)
      /\ parent' = [parent EXCEPT ![n] = above]
      /\ name' = [name EXCEPT ![n] = called]
      /\ slug' = [slug EXCEPT ![n] = TheTree!UniqueSlug(called)]
      /\ cache' = [cache EXCEPT ![n] = TheTree!Built(cache, parent', name', slug', n)]
  BY <1>1 DEF TheTree!Add, TheTree!Present
<1>4. TheTree!UniqueSlug(called) \in Slugs /\ \A m \in Categories : slug[m] # TheTree!UniqueSlug(called)
  BY UniqueSlugIsNew DEF TreeInv, Called
<1>5. /\ parent' \in [Categories -> Categories \cup {TheTree!Top, TheTree!Absent}]
      /\ name' \in [Categories -> Called] /\ slug' \in [Categories -> Slugs]
  BY <1>2, <1>3, <1>4 DEF Called
<1>6. /\ parent'[n] = above /\ name'[n] = called /\ slug'[n] = TheTree!UniqueSlug(called)
      /\ \A m \in Categories \ {n} :
           parent'[m] = parent[m] /\ name'[m] = name[m] /\ slug'[m] = slug[m]
  BY <1>2, <1>3
<1>7. P \subseteq Categories /\ above # TheTree!Absent /\ TheTree!Present(parent') = P \cup {n}
  BY <1>1, <1>3, <1>6, TreeAssumption DEF TheTree!Present, TheTree!Top, TheTree!Absent
<1>8. \A m \in P : parent[m] # TheTree!Top => parent[m] \in P
  BY <1>1, <1>2 DEF Rooted, Levels
<1>9. Rooted(parent')
  <2>1. PICK highest \in Nat : \E level : Levels(parent, level, highest)
    BY <1>2 DEF Rooted
  <2>2. PICK level : Levels(parent, level, highest)
    BY <2>1
  <2>3. PICK deeper : deeper = [m \in Categories |-> IF m = n THEN highest + 1 ELSE level[m]]
    OBVIOUS
  <2>4. level \in [Categories -> 0..highest] /\ \A m \in P : parent[m] # TheTree!Top => level[parent[m]] < level[m]
    BY <1>1, <2>2 DEF Levels
  <2>5. deeper \in [Categories -> 0..highest + 1]
    BY <2>3, <2>4
  <2>6. ASSUME NEW m \in P \cup {n}, parent'[m] # TheTree!Top
        PROVE  parent'[m] \in P /\ deeper[parent'[m]] < deeper[m]
    <3>1. CASE m = n
      <4>1. above \in P /\ above \in Categories \ {n}
        BY <1>3, <1>6, <1>7, <2>6, <3>1
      <4> QED BY <1>6, <2>1, <2>3, <2>4, <3>1, <4>1
    <3>2. CASE m # n
      <4>1. m \in P /\ parent[m] \in P /\ parent'[m] = parent[m]
        BY <1>6, <1>7, <1>8, <2>6, <3>2
      <4>2. parent[m] # n
        BY <1>3, <4>1
      <4> QED BY <1>6, <1>7, <2>3, <2>4, <2>6, <3>2, <4>1, <4>2
    <3> QED BY <3>1, <3>2
  <2>7. Levels(parent', deeper, highest + 1)
    BY <1>7, <2>5, <2>6 DEF Levels
  <2> QED BY <2>1, <2>7 DEF Rooted
<1>10. TheTree!Built(cache, parent', name', slug', n) \in Caches
  <2>1. n \in TheTree!Present(parent')
    BY <1>7
  <2> QED BY <1>2, <1>5, <1>9, <2>1, BuiltTyped
<1>11. /\ cache' \in [Categories -> Caches]
       /\ cache'[n] = TheTree!Built(cache, parent', name', slug', n)
       /\ \A m \in Categories \ {n} : cache'[m] = cache[m]
  BY <1>2, <1>3, <1>10
<1>12. ASSUME NEW m \in P \cup {n}
       PROVE  cache'[m] = TheTree!Built(cache', parent', name', slug', m)
  <2>1. parent'[m] # TheTree!Top => parent'[m] \in Categories \ {n}
    BY <1>3, <1>6, <1>7, <1>8
  <2>2. TheTree!Built(cache, parent', name', slug', m) = TheTree!Built(cache', parent', name', slug', m)
    BY <1>11, <2>1 DEF TheTree!Built
  <2>3. CASE m = n
    BY <1>11, <2>2, <2>3
  <2>4. CASE m # n
    <3>1. m \in P /\ m \in Categories \ {n}
      BY <1>7, <2>4
    <3>2. cache[m] = TheTree!Built(cache, parent, name, slug, m)
      BY <1>1, <1>2, <3>1 DEF Follows
    <3>3. TheTree!Built(cache, parent, name, slug, m) = TheTree!Built(cache, parent', name', slug', m)
      BY <1>6, <3>1 DEF TheTree!Built
    <3> QED BY <1>11, <2>2, <3>1, <3>2, <3>3
  <2> QED BY <2>3, <2>4
<1>13. \A l, m \in P \cup {n} : l # m => slug'[l] # slug'[m]
  BY <1>1, <1>2, <1>4, <1>6, <1>7 DEF SlugsApart
<1> QED BY <1>5, <1>7, <1>9, <1>11, <1>12, <1>13 DEF TreeInv, TreeTyped, SlugsApart, Follows

LEMMA RenameKept ==
  ASSUME TreeInv, NEW n \in Categories, NEW called \in Names, TheTree!Rename(n, called)
  PROVE  TreeInv'
<1>1. /\ n \in TheTree!Present(parent) /\ called \in Called
      /\ name' = [name EXCEPT ![n] = called]
      /\ cache' = TheTree!Saved(cache, name', n)
      /\ parent' = parent /\ slug' = slug
  BY DEF TheTree!Rename, TheTree!Present, Called
<1>2. /\ name' \in [Categories -> Called] /\ cache' \in [Categories -> Caches]
      /\ Follows(cache', parent, name')
  BY <1>1, SavedFollows
<1>3. TheTree!Present(parent') = TheTree!Present(parent)
  BY <1>1
<1> QED BY <1>1, <1>2, <1>3 DEF TreeInv, TreeTyped, SlugsApart, Follows, Rooted, Levels

LEMMA DeleteKept ==
  ASSUME TreeInv, NEW n \in Categories, TheTree!Delete(n)
  PROVE  TreeInv'
<1>1. PICK gone : gone = {n} \cup TheTree!Descendants(parent, n)
  OBVIOUS
<1>2. /\ n \in TheTree!Present(parent)
      /\ parent' = [m \in Categories |-> IF m \in gone THEN TheTree!Absent ELSE parent[m]]
      /\ name' = [m \in Categories |-> IF m \in gone THEN TheTree!NoName ELSE name[m]]
      /\ slug' = [m \in Categories |-> IF m \in gone THEN TheTree!NoSlug ELSE slug[m]]
      /\ cache' = [m \in Categories |-> IF m \in gone THEN TheTree!Empty ELSE cache[m]]
  BY <1>1 DEF TheTree!Delete, TheTree!Present
<1>3. PICK P : P = TheTree!Present(parent)
  OBVIOUS
<1>4. TreeTyped /\ Rooted(parent) /\ SlugsApart /\ Follows(cache, parent, name)
  BY DEF TreeInv
<1>5. P \subseteq Categories /\ TheTree!Present(parent') = P \ gone
  BY <1>2, <1>3 DEF TheTree!Present
<1>6. TreeTyped'
  <2>1. /\ TheTree!NoName \in Called /\ TheTree!NoSlug \in Slugs /\ TheTree!Empty \in Caches
    BY DEF Called, Slugs, Caches, TheTree!NoSlug, TheTree!Empty
  <2>2. parent' \in [Categories -> Categories \cup {TheTree!Top, TheTree!Absent}]
    BY <1>2, <1>4 DEF TreeTyped
  <2>3. name' \in [Categories -> Called] /\ slug' \in [Categories -> Slugs]
    BY <1>2, <1>4, <2>1 DEF TreeTyped
  <2>4. cache' \in [Categories -> Caches]
    BY <1>2, <1>4, <2>1 DEF TreeTyped
  <2> QED BY <2>2, <2>3, <2>4 DEF TreeTyped
<1>7. ASSUME NEW m \in P \ gone
      PROVE  /\ parent'[m] = parent[m] /\ name'[m] = name[m]
             /\ slug'[m] = slug[m] /\ cache'[m] = cache[m]
             /\ parent[m] # TheTree!Top => parent[m] \in P \ gone /\ cache'[parent[m]] = cache[parent[m]]
  <2>1. m \in Categories /\ m \notin gone
    BY <1>5
  <2>2. parent[m] # TheTree!Top => parent[m] \in P \ gone
    BY <1>1, <1>2, <1>3, <1>4, DescendantsAre DEF Rooted, Levels
  <2> QED BY <1>2, <1>5, <2>1, <2>2
<1>8. Rooted(parent')
  <2>1. PICK highest \in Nat : \E level : Levels(parent, level, highest)
    BY <1>4 DEF Rooted
  <2>2. PICK level : Levels(parent, level, highest)
    BY <2>1
  <2>3. Levels(parent', level, highest)
    BY <1>3, <1>5, <1>7, <2>2 DEF Levels
  <2> QED BY <2>1, <2>3 DEF Rooted
<1>9. ASSUME NEW m \in P \ gone
      PROVE  cache'[m] = TheTree!Built(cache', parent', name', slug', m)
  <2>1. cache[m] = TheTree!Built(cache, parent, name, slug, m)
    BY <1>3, <1>4 DEF Follows
  <2>2. TheTree!Built(cache, parent, name, slug, m) = TheTree!Built(cache', parent', name', slug', m)
    BY <1>7 DEF TheTree!Built
  <2> QED BY <1>7, <2>1, <2>2
<1>10. \A l, m \in P \ gone : l # m => slug'[l] # slug'[m]
  BY <1>3, <1>4, <1>7 DEF SlugsApart
<1> QED BY <1>5, <1>6, <1>8, <1>9, <1>10 DEF TreeInv, SlugsApart, Follows

\* A category moves with what lies below it, and never below itself: the way up
\* still ends at a root.
LEMMA MovedRooted ==
  ASSUME TreeInv, NEW n \in TheTree!Present(parent), NEW above, NEW tree,
         tree = [parent EXCEPT ![n] = above],
         above = TheTree!Top
           \/ above \in TheTree!Present(parent) \ (TheTree!Descendants(parent, n) \cup {n})
  PROVE  TheTree!Present(tree) = TheTree!Present(parent) /\ Rooted(tree)
<1>1. PICK P, moved : /\ P = TheTree!Present(parent)
                      /\ moved = TheTree!Descendants(parent, n) \cup {n}
  OBVIOUS
<1>2. Rooted(parent) /\ parent \in [Categories -> Categories \cup {TheTree!Top, TheTree!Absent}]
  BY DEF TreeInv, TreeTyped
<1>3. P \subseteq Categories
  BY <1>1 DEF TheTree!Present
<1>4. tree[n] = above /\ \A m \in Categories \ {n} : tree[m] = parent[m]
  BY <1>1, <1>2, <1>3
<1>5. above # TheTree!Absent
  BY TreeAssumption DEF TheTree!Present, TheTree!Top, TheTree!Absent
<1>6. TheTree!Present(tree) = P
  BY <1>1, <1>4, <1>5 DEF TheTree!Present
<1>7. PICK highest \in Nat : \E level : Levels(parent, level, highest)
  BY <1>2 DEF Rooted
<1>8. PICK level : Levels(parent, level, highest)
  BY <1>7
<1>9. /\ level \in [Categories -> 0..highest]
      /\ \A m \in P : parent[m] # TheTree!Top => parent[m] \in P /\ level[parent[m]] < level[m]
  BY <1>1, <1>8 DEF Levels
<1>10. PICK twice \in Nat : twice = highest + highest + 1
  BY <1>7
<1>11. PICK deeper : deeper = [m \in Categories |-> IF m \in moved THEN level[m] + highest + 1
                                                    ELSE level[m]]
  OBVIOUS
<1>12. deeper \in [Categories -> 0..twice]
  BY <1>7, <1>9, <1>10, <1>11
<1>13. ASSUME NEW m \in P, tree[m] # TheTree!Top
       PROVE  tree[m] \in P /\ deeper[tree[m]] < deeper[m]
  <2>1. CASE m = n
    <3>1. above \in P \ moved /\ tree[m] = above
      BY <1>1, <1>4, <1>13, <2>1
    <3>2. deeper[above] = level[above] /\ deeper[m] = level[m] + highest + 1
      BY <1>1, <1>3, <1>11, <2>1, <3>1
    <3>3. level[above] \in 0..highest /\ level[m] \in 0..highest
      BY <1>3, <1>9, <3>1
    <3> QED BY <1>7, <3>1, <3>2, <3>3
  <2>2. CASE m # n
    <3>1. tree[m] = parent[m] /\ parent[m] \in P /\ level[parent[m]] < level[m]
      BY <1>3, <1>4, <1>9, <1>13, <2>2
    <3>2. m \in moved <=> parent[m] \in moved
      BY <1>1, <1>2, <1>13, <2>2, <3>1, DescendantsAre
    <3>3. level[parent[m]] \in 0..highest /\ level[m] \in 0..highest
      BY <1>3, <1>9, <3>1
    <3> QED BY <1>3, <1>7, <1>11, <3>1, <3>2, <3>3
  <2> QED BY <2>1, <2>2
<1>14. Levels(tree, deeper, twice)
  BY <1>6, <1>12, <1>13 DEF Levels
<1> QED BY <1>1, <1>6, <1>14 DEF Rooted

LEMMA EditKept ==
  ASSUME TreeInv, NEW n \in Categories, NEW above \in Categories \cup {TheTree!Top},
         NEW called \in Names, TheTree!Edit(n, above, called)
  PROVE  TreeInv'
<1>1. /\ n \in TheTree!Present(parent) /\ called \in Called
      /\ above = TheTree!Top
         \/ above \in TheTree!Present(parent) \ (TheTree!Descendants(parent, n) \cup {n})
      /\ name' = [name EXCEPT ![n] = called]
      /\ parent' = [parent EXCEPT ![n] = above]
      /\ cache' = TheTree!Moved(TheTree!Saved(cache, name', n), parent', name', n)
      /\ slug' = slug
  BY DEF TheTree!Edit, TheTree!Present, Called
<1>2. TreeTyped /\ SlugsApart
  BY DEF TreeInv
<1>3. PICK saved : saved = TheTree!Saved(cache, name', n)
  OBVIOUS
<1>4. /\ name' \in [Categories -> Called] /\ saved \in [Categories -> Caches]
      /\ Follows(saved, parent, name')
  BY <1>1, <1>3, SavedFollows
<1>5. TheTree!Present(parent') = TheTree!Present(parent) /\ Rooted(parent')
  BY <1>1, MovedRooted
<1>6. slug \in [Categories -> Slugs] /\ n \in Categories
      /\ parent' \in [Categories -> Categories \cup {TheTree!Top, TheTree!Absent}]
  BY <1>1, <1>2 DEF TreeTyped
<1>7. \A m \in Categories \ {n} : parent'[m] = parent[m]
  BY <1>1, <1>2 DEF TreeTyped
<1>8. PICK own : own = [saved EXCEPT ![n] = TheTree!Built(saved, parent', name', slug, n)]
  OBVIOUS
<1>9. TheTree!Built(saved, parent', name', slug, n) \in Caches
  BY <1>1, <1>4, <1>5, <1>6, BuiltTyped
<1>10. /\ own \in [Categories -> Caches]
       /\ own[n] = TheTree!Built(saved, parent', name', slug, n)
       /\ \A m \in Categories \ {n} : own[m] = saved[m]
  BY <1>4, <1>6, <1>8, <1>9
<1>11. \A m \in TheTree!Present(parent') :
         m \notin TheTree!Descendants(parent', n)
           => own[m] = TheTree!Built(own, parent', name', slug, m)
  <2> SUFFICES ASSUME NEW m \in TheTree!Present(parent'),
                      m \notin TheTree!Descendants(parent', n)
               PROVE  own[m] = TheTree!Built(own, parent', name', slug, m)
    OBVIOUS
  <2>1. m \in Categories
    BY DEF TheTree!Present
  <2>2. parent'[m] # TheTree!Top => parent'[m] \in Categories \ {n}
    BY <1>1, <1>5, DescendantsAre DEF Rooted, Levels, TheTree!Present
  <2>3. TheTree!Built(saved, parent', name', slug, m) = TheTree!Built(own, parent', name', slug, m)
    BY <1>10, <2>2 DEF TheTree!Built
  <2>4. CASE m = n
    BY <1>10, <2>3, <2>4
  <2>5. CASE m # n
    <3>1. saved[m] = TheTree!Built(saved, parent, name', slug, m)
      BY <1>4, <1>5 DEF Follows
    <3>2. TheTree!Built(saved, parent, name', slug, m) = TheTree!Built(saved, parent', name', slug, m)
      <4>1. parent'[m] = parent[m]
        BY <1>7, <2>1, <2>5
      <4> QED BY <4>1 DEF TheTree!Built
    <3> QED BY <1>10, <2>1, <2>3, <2>5, <3>1, <3>2
  <2> QED BY <2>4, <2>5
<1>12. cache' = TheTree!RefreshDescendants(own, parent', name', slug, n)
  BY <1>1, <1>3, <1>8 DEF TheTree!Moved
<1>13. cache' \in [Categories -> Caches] /\ Follows(cache', parent', name')
  <2>1. PICK tree, names : tree = parent' /\ names = name'
    OBVIOUS
  <2>2. /\ Rooted(tree) /\ n \in TheTree!Present(tree)
        /\ names \in [Categories -> Called] /\ slug \in [Categories -> Slugs]
        /\ cache' = TheTree!RefreshDescendants(own, tree, names, slug, n)
    BY <1>1, <1>4, <1>5, <1>6, <1>12, <2>1
  <2>3. \A m \in TheTree!Present(tree) :
          m \notin TheTree!Descendants(tree, n)
            => own[m] = TheTree!Built(own, tree, names, slug, m)
    BY <1>11, <2>1
  <2>4. cache' \in [Categories -> Caches] /\ Follows(cache', tree, names)
    BY <1>10, <2>2, <2>3, RefreshFollows
  <2> QED BY <2>1, <2>4
<1>14. TreeTyped'
  BY <1>1, <1>4, <1>6, <1>13 DEF TreeTyped
<1>15. Rooted(parent') /\ Follows(cache, parent, name)'
  BY <1>1, <1>5, <1>13 DEF Follows
<1>16. SlugsApart'
  BY <1>1, <1>2, <1>5 DEF SlugsApart
<1> QED BY <1>14, <1>15, <1>16 DEF TreeInv

LEMMA TreeKept == TreeInv /\ [TheTree!Next]_treeVars => TreeInv'
<1> SUFFICES ASSUME TreeInv, [TheTree!Next]_treeVars PROVE TreeInv'
  OBVIOUS
<1>1. CASE UNCHANGED treeVars
  BY <1>1 DEF treeVars, TreeInv, TreeTyped, SlugsApart, Follows, Rooted, Levels, TheTree!Present,
              TheTree!Built
<1>2. ASSUME NEW n \in Categories, NEW above \in Categories \cup {TheTree!Top},
             NEW called \in Names, TheTree!Add(n, above, called)
      PROVE  TreeInv'
  BY <1>2, AddKept
<1>3. ASSUME NEW n \in Categories, NEW above \in Categories \cup {TheTree!Top},
             NEW called \in Names, TheTree!Edit(n, above, called)
      PROVE  TreeInv'
  BY <1>3, EditKept
<1>4. ASSUME NEW n \in Categories, NEW called \in Names, TheTree!Rename(n, called)
      PROVE  TreeInv'
  BY <1>4, RenameKept
<1>5. ASSUME NEW n \in Categories, TheTree!Delete(n)
      PROVE  TreeInv'
  BY <1>5, DeleteKept
<1> QED BY <1>1, <1>2, <1>3, <1>4, <1>5 DEF TheTree!Next

LEMMA TreeInit == TheTree!Init => TreeInv
<1> SUFFICES ASSUME TheTree!Init PROVE TreeInv
  OBVIOUS
<1>1. TheTree!Present(parent) = {}
  BY DEF TheTree!Init, TheTree!Present
<1>2. TheTree!NoName \in Called /\ TheTree!NoSlug \in Slugs /\ TheTree!Empty \in Caches
  BY DEF Called, Slugs, Caches, TheTree!NoSlug, TheTree!Empty
<1>3. TreeTyped
  BY <1>2 DEF TheTree!Init, TreeTyped
<1>4. PICK level : level = [n \in Categories |-> 0]
  OBVIOUS
<1>5. Levels(parent, level, 0)
  BY <1>1, <1>4 DEF Levels
<1> QED BY <1>1, <1>3, <1>5 DEF TreeInv, Rooted, SlugsApart, Follows

\* Built one from the other, paths and names are those of the ancestors.
LEMMA TreePaths == TreeInv => TheTree!PathsMatchTree
<1> SUFFICES ASSUME TreeInv PROVE TheTree!PathsMatchTree
  OBVIOUS
<1>1. PICK P, B : P = TheTree!Present(parent) /\ B = TheTree!Branches(parent)
  OBVIOUS
<1>2. /\ Rooted(parent) /\ SlugsApart /\ Follows(cache, parent, name)
      /\ slug \in [Categories -> Slugs] /\ name \in [Categories -> Called]
      /\ cache \in [Categories -> Caches]
  BY DEF TreeInv, TreeTyped
<1>3. P \subseteq Categories /\ \A n \in P : parent[n] # TheTree!Top => parent[n] \in P
  BY <1>1, <1>2 DEF Rooted, Levels, TheTree!Present
<1>4. /\ B \in [P -> Seq(P)]
      /\ \A n \in P : B[n] = IF parent[n] = TheTree!Top THEN <<n>> ELSE Append(B[parent[n]], n)
  BY <1>1, <1>2, BranchesAre
<1>5. ASSUME NEW n \in P
      PROVE  \E above \in Caches :
               /\ above = IF parent[n] = TheTree!Top THEN TheTree!Empty ELSE cache[parent[n]]
               /\ above.path \in Seq(Slugs) /\ above.full \in Seq(Called)
               /\ cache[n].path = Append(above.path, slug[n])
               /\ cache[n].full = Append(above.full, name[n])
  <2>1. TheTree!Empty \in Caches
    BY DEF Caches, TheTree!Empty
  <2>2. PICK above \in Caches :
          above = IF parent[n] = TheTree!Top THEN TheTree!Empty ELSE cache[parent[n]]
    BY <1>2, <1>3, <2>1
  <2>3. cache[n] = [path |-> Append(above.path, slug[n]), full |-> Append(above.full, name[n])]
    BY <1>1, <1>2, <2>2 DEF Follows, TheTree!Built
  <2>4. above.path \in Seq(Slugs) /\ above.full \in Seq(Called)
    BY <2>2 DEF Caches
  <2>5. /\ cache[n].path = Append(above.path, slug[n])
        /\ cache[n].full = Append(above.full, name[n])
    BY <2>3
  <2> QED BY <2>2, <2>4, <2>5
<1> DEFINE Path(n) == [i \in DOMAIN B[n] |-> slug[B[n][i]]]
           Full(n) == [i \in DOMAIN B[n] |-> name[B[n][i]]]
<1>6. PICK S : S = {n \in P : cache[n].path = Path(n) /\ cache[n].full = Full(n)}
  OBVIOUS
<1>7. ASSUME NEW n \in P, parent[n] = TheTree!Top \/ parent[n] \in S
      PROVE  n \in S
  <2>1. n \in Categories /\ slug[n] \in Slugs /\ name[n] \in Called
    BY <1>2, <1>3
  <2>2. CASE parent[n] = TheTree!Top
    <3>1. B[n] = <<n>>
      BY <1>4, <2>2
    <3>2. Path(n) = <<slug[n]>> /\ Full(n) = <<name[n]>>
      BY <3>1
    <3>3. cache[n].path = <<slug[n]>> /\ cache[n].full = <<name[n]>>
      BY <1>5, <2>2 DEF TheTree!Empty
    <3> QED BY <1>6, <3>2, <3>3
  <2>3. CASE parent[n] # TheTree!Top
    <3>1. PICK m \in P : m = parent[n] /\ cache[m].path = Path(m) /\ cache[m].full = Full(m)
      BY <1>3, <1>6, <1>7, <2>3
    <3>2. PICK s \in Seq(P) : s = B[m]
      BY <1>4
    <3>3. B[n] = Append(s, n)
      BY <1>4, <2>3, <3>1, <3>2
    <3>4. /\ cache[m].path \in Seq(Slugs) /\ cache[m].full \in Seq(Called)
          /\ cache[n].path = Append(cache[m].path, slug[n])
          /\ cache[n].full = Append(cache[m].full, name[n])
      BY <1>5, <2>3, <3>1
    <3>5. /\ Len(s) \in Nat /\ DOMAIN s = 1..Len(s) /\ DOMAIN B[n] = 1..Len(s) + 1
          /\ \A i \in 1..Len(s) : B[n][i] = s[i]
          /\ B[n][Len(s) + 1] = n
      BY <3>3
    <3>6. cache[n].path = Path(n)
      <4>1. PICK p \in Seq(Slugs) : p = cache[m].path
        BY <3>4
      <4>2. DOMAIN p = 1..Len(s) /\ \A i \in 1..Len(s) : p[i] = slug[s[i]]
        BY <3>1, <3>2, <3>5, <4>1
      <4>3. Len(p) = Len(s)
        BY <3>5, <4>2
      <4>4. PICK q : q = Append(p, slug[n])
        OBVIOUS
      <4>5. /\ q \in Seq(Slugs) /\ DOMAIN q = 1..Len(s) + 1
            /\ \A i \in 1..Len(s) : q[i] = slug[s[i]]
            /\ q[Len(s) + 1] = slug[n]
        BY <2>1, <4>2, <4>3, <4>4
      <4>6. \A i \in 1..Len(s) + 1 : q[i] = slug[B[n][i]]
        BY <3>5, <4>5
      <4>7. q = [i \in 1..Len(s) + 1 |-> slug[B[n][i]]]
        BY <4>5, <4>6
      <4> QED BY <3>4, <3>5, <4>1, <4>4, <4>7
    <3>7. cache[n].full = Full(n)
      <4>1. PICK p \in Seq(Called) : p = cache[m].full
        BY <3>4
      <4>2. DOMAIN p = 1..Len(s) /\ \A i \in 1..Len(s) : p[i] = name[s[i]]
        BY <3>1, <3>2, <3>5, <4>1
      <4>3. Len(p) = Len(s)
        BY <3>5, <4>2
      <4>4. PICK q : q = Append(p, name[n])
        OBVIOUS
      <4>5. /\ q \in Seq(Called) /\ DOMAIN q = 1..Len(s) + 1
            /\ \A i \in 1..Len(s) : q[i] = name[s[i]]
            /\ q[Len(s) + 1] = name[n]
        BY <2>1, <4>2, <4>3, <4>4
      <4>6. \A i \in 1..Len(s) + 1 : q[i] = name[B[n][i]]
        BY <3>5, <4>5
      <4>7. q = [i \in 1..Len(s) + 1 |-> name[B[n][i]]]
        BY <4>5, <4>6
      <4> QED BY <3>4, <3>5, <4>1, <4>4, <4>7
    <3> QED BY <1>6, <3>6, <3>7
  <2> QED BY <2>2, <2>3
<1>8. P \subseteq S
  BY <1>1, <1>2, <1>7, DownTheTree
<1>9. \A n \in P : cache[n].path = Path(n) /\ cache[n].full = Full(n)
  BY <1>6, <1>8
<1>10. ASSUME NEW m \in P, NEW n \in P, cache[m].path = cache[n].path
       PROVE  m = n
  <2>1. PICK p \in Seq(Slugs) : cache[m].path = Append(p, slug[m])
    BY <1>5
  <2>2. PICK q \in Seq(Slugs) : cache[n].path = Append(q, slug[n])
    BY <1>5
  <2>3. slug[m] \in Slugs /\ slug[n] \in Slugs
    BY <1>2, <1>3
  <2>4. slug[m] = slug[n]
    <3>1. Append(p, slug[m]) = Append(q, slug[n])
      BY <1>10, <2>1, <2>2
    <3> QED BY <2>3, <3>1, AppendProperties
  <2> QED BY <1>1, <1>2, <2>4 DEF SlugsApart
<1> QED BY <1>1, <1>9, <1>10 DEF TheTree!PathsMatchTree

\* What every category keeps of its ancestors is what they are, however deep it
\* lies below a category that is renamed or moved, and no two categories have the
\* same path, for any number of categories and names (Category.save,
\* Category.move, _refresh_descendants).
THEOREM PathsFollowTree == Spec => []PathsMatchTree
<1>1. Init => TreeInv
  BY TreeInit DEF Init
<1>2. TreeInv /\ [Next]_vars => TreeInv'
  BY TreeStep, TreeKept
<1>3. TreeInv => PathsMatchTree
  BY TreePaths DEF PathsMatchTree
<1> QED BY <1>1, <1>2, <1>3, PTL DEF Spec
=============================================================================

---------------------------- MODULE ProductReviews ----------------------------
(***************************************************************************)
(* The reviews of one product, the votes on them, and the rating and the   *)
(* number of reviews kept on the Product row.                              *)
(*                                                                         *)
(* A request first reads a review without a lock.  Its transaction changes *)
(* the Review row, which stays locked, then locks the Product row,         *)
(* computes the rating from what is committed and its own change, and      *)
(* publishes it at COMMIT.  An author's edit saves the review as it was    *)
(* read, every column of it; the edit of a product (PATCH) does the same   *)
(* to the Product row.                                                     *)
(*                                                                         *)
(* Abstractions.  The unique key (user, product) counts as part of the     *)
(* Review row's lock.  Texts, titles, images and the verified_purchase     *)
(* flag are left out; checks of them only refuse a request.                *)
(***************************************************************************)
EXTENDS Integers, FiniteSets, FiniteSetsExt

CONSTANTS
  Authors,   \* users who review the product
  Voters,    \* users who vote on its reviews
  Clients,   \* requests that may be in flight at the same time
  Ratings,
  Requested, \* bound: the changes asked for, each with the review's author
  Votable,   \* bound: authors whose reviews are voted on
  MaxId,     \* bound: reviews ever created
  MaxHelpful \* bound: the value of a counter of votes

VARIABLES
  reviews,    \* Review by author, or NoReview
  votes,      \* ReviewHelpfulVote of a voter on an author's review
  stats,      \* Product.rating in hundredths, and reviews_count
  rowLock,    \* the client that holds an author's Review row
  statsLock,  \* the client that holds the Product row
  client,     \* what the clients are at
  ids,        \* the last primary key given out
  restored,   \* history: an edit of the product has put older stats back
  clobbered   \* history: reviews whose counters an edit has overwritten

reviewVars == <<reviews, votes, stats, rowLock, statsLock, client, ids, restored, clobbered>>

NoReview == [id |-> 0]
NoVote == "none"
Free == "free"
Idle == [step |-> "idle"]

Exists(a) == reviews[a] # NoReview
At(c, step) == client[c].step = step
Kind(c) == client[c].change.kind

-----------------------------------------------------------------------------
\* round(Avg(rating), 2), in hundredths, half to even.
Average(sum, n) ==
  LET up == (200 * sum + n) \div (2 * n)
  IN IF (200 * sum + n) % (2 * n) = 0 /\ up % 2 = 1 THEN up - 1 ELSE up

\* AVG and COUNT of the approved reviews.
StatsOf(rows) ==
  LET approved == {a \in Authors : rows[a] # NoReview /\ rows[a].approved}
      n == Cardinality(approved)
  IN [count |-> n,
      rating |-> IF n = 0 THEN 0
                 ELSE Average(MapThenSumSet(LAMBDA a : rows[a].rating, approved), n)]

NoStats == [count |-> 0, rating |-> 0]

Changes ==
  [kind : {"create", "edit"}, rating : Ratings]
    \cup [kind : {"moderate"}, approve : BOOLEAN]
    \cup [kind : {"admin"}, rating : Ratings, approve : BOOLEAN]
    \cup [kind : {"delete"}]

\* update_review: review.save() of the copy that was read, which inserts the
\* row again if it has been deleted.
Saved(now, copy, change) == [copy EXCEPT !.rating = change.rating]

\* The row after a change.  The admin form submits the copy's counters and
\* what the page showed.
Changed(now, copy, change) ==
  CASE change.kind = "create" -> [id |-> ids + 1, rating |-> change.rating, approved |-> TRUE,
                                  yes |-> 0, no |-> 0]
    [] change.kind = "edit" -> Saved(now, copy, change)
    [] change.kind = "moderate" -> [now EXCEPT !.approved = change.approve]
    [] change.kind = "admin" -> [copy EXCEPT !.rating = change.rating, !.approved = change.approve]
    [] change.kind = "delete" -> IF now.id = copy.id THEN NoReview ELSE now

\* The unique key refuses a second review of an author; an UPDATE with
\* update_fields, and the admin's get(), refuse a row that is gone.
Works(now, copy, change) ==
  CASE change.kind = "create" -> now = NoReview
    [] change.kind = "edit" -> now = NoReview \/ now.id = copy.id
    [] change.kind \in {"moderate", "admin"} -> now.id = copy.id
    [] change.kind = "delete" -> TRUE

-----------------------------------------------------------------------------
\* The request reads the review (or that there is none); only an edit and
\* the admin's form use more of what was read than the primary key.
Read(c, a, change) ==
  /\ client[c] = Idle
  /\ Exists(a) <=> change.kind # "create"
  /\ client' = [client EXCEPT ![c] =
       [step |-> "read", author |-> a, change |-> change,
        copy |-> IF change.kind \in {"edit", "admin"} THEN reviews[a]
                  ELSE [id |-> reviews[a].id]]]
  /\ UNCHANGED <<reviews, votes, stats, rowLock, statsLock, ids, restored, clobbered>>

\* The change of the Review row, not yet committed.
ChangeReview(c) ==
  /\ At(c, "read")
  /\ LET a == client[c].author IN
       /\ rowLock[a] = Free
       /\ Works(reviews[a], client[c].copy, client[c].change)
       /\ ids + 1 <= MaxId \/ Kind(c) # "create"
       /\ rowLock' = [rowLock EXCEPT ![a] = c]
       /\ client' = [client EXCEPT ![c] =
            [step |-> "changed", author |-> a, kind |-> Kind(c),
             row |-> Changed(reviews[a], client[c].copy, client[c].change)]]
       /\ ids' = IF Kind(c) = "create" THEN ids + 1 ELSE ids
  /\ UNCHANGED <<reviews, votes, stats, statsLock, restored, clobbered>>

\* Mutant: the product is read, not locked.
AggregateUnlocked(c) ==
  /\ At(c, "changed")
  /\ client' = [client EXCEPT ![c] =
       [step |-> "aggregated", author |-> @.author, row |-> @.row, kind |-> @.kind,
        stats |-> StatsOf([reviews EXCEPT ![client[c].author] = client[c].row])]]
  /\ UNCHANGED <<reviews, votes, stats, statsLock, rowLock, ids, restored, clobbered>>

\* recalculate_product_rating: lock the product, then AVG and COUNT.
Aggregate(c) ==
  /\ At(c, "changed")
  /\ statsLock = Free /\ statsLock' = c
  /\ client' = [client EXCEPT ![c] =
       [step |-> "aggregated", author |-> @.author, row |-> @.row, kind |-> @.kind,
        stats |-> StatsOf([reviews EXCEPT ![client[c].author] = client[c].row])]]
  /\ UNCHANGED <<reviews, votes, stats, rowLock, ids, restored, clobbered>>

Released(c) ==
  /\ rowLock' = [a \in Authors |-> IF rowLock[a] = c THEN Free ELSE rowLock[a]]
  /\ statsLock' = IF statsLock = c THEN Free ELSE statsLock
  /\ client' = [client EXCEPT ![c] = Idle]

Helpful(row) == IF row = NoReview THEN <<0, 0>> ELSE <<row.yes, row.no>>

\* A review that is deleted takes its votes with it (CASCADE).
Commit(c) ==
  /\ At(c, "aggregated")
  /\ LET a == client[c].author
         row == client[c].row
     IN /\ reviews' = [reviews EXCEPT ![a] = row]
        /\ votes' = IF row = NoReview THEN [votes EXCEPT ![a] = [v \in Voters |-> NoVote]]
                                      ELSE votes
        /\ clobbered' = IF row = NoReview \/ client[c].kind = "create" THEN clobbered \ {a}
                        ELSE IF Helpful(row) # Helpful(reviews[a]) THEN clobbered \cup {a}
                        ELSE clobbered
  /\ stats' = client[c].stats
  /\ restored' = FALSE
  /\ Released(c)
  /\ UNCHANGED ids

\* A refusal or a failure: ROLLBACK.
Abort(c) ==
  /\ client[c] # Idle
  /\ Released(c)
  /\ UNCHANGED <<reviews, votes, stats, ids, restored, clobbered>>

-----------------------------------------------------------------------------
\* vote_helpful.  The counters are changed by the database (F()), after the
\* vote; the Review row is only waited for.

\* Mutant: a vote that changes its mind is not taken from the other counter.
StepForgetsOther(old, vote, which) ==
  IF vote # which THEN 0 ELSE IF old = which THEN -1 ELSE 1

\* Votes `vote' that v's request adds, given the vote there is.
Step(old, vote, which) ==
  (IF vote = which /\ old # which THEN 1 ELSE 0) - (IF old = which THEN 1 ELSE 0)

Vote(a, v, vote) ==
  /\ Exists(a) /\ v # a /\ rowLock[a] = Free
  /\ LET old == votes[a][v]
         yes == reviews[a].yes + Step(old, vote, "yes")
         no == reviews[a].no + Step(old, vote, "no")
     IN /\ yes >= 0 /\ no >= 0   \* PositiveIntegerField
        /\ yes <= MaxHelpful /\ no <= MaxHelpful
        /\ votes' = [votes EXCEPT ![a][v] = IF old = vote THEN NoVote ELSE vote]
        /\ reviews' = [reviews EXCEPT ![a] = [@ EXCEPT !.yes = yes, !.no = no]]
  /\ UNCHANGED <<stats, rowLock, statsLock, client, ids, restored, clobbered>>

-----------------------------------------------------------------------------
\* PATCH of the product, which saves the row as it was read.
ReadProduct(c) ==
  /\ client[c] = Idle
  /\ client' = [client EXCEPT ![c] = [step |-> "editing", copy |-> stats]]
  /\ UNCHANGED <<reviews, votes, stats, rowLock, statsLock, ids, restored, clobbered>>

SaveProduct(c) ==
  /\ At(c, "editing") /\ statsLock = Free
  /\ stats' = client[c].copy
  /\ restored' = (restored \/ client[c].copy # stats)
  /\ client' = [client EXCEPT ![c] = Idle]
  /\ UNCHANGED <<reviews, votes, rowLock, statsLock, ids, clobbered>>

-----------------------------------------------------------------------------
Init ==
  /\ reviews = [a \in Authors |-> NoReview]
  /\ votes = [a \in Authors |-> [v \in Voters |-> NoVote]]
  /\ stats = NoStats
  /\ rowLock = [a \in Authors |-> Free] /\ statsLock = Free
  /\ client = [c \in Clients |-> Idle]
  /\ ids = 0
  /\ restored = FALSE /\ clobbered = {}

ClientNext(c) ==
  \/ \E asked \in Requested : Read(c, asked.author, asked.change)
  \/ ChangeReview(c) \/ Aggregate(c) \/ Commit(c) \/ Abort(c)
  \/ ReadProduct(c) \/ SaveProduct(c)

Next ==
  \/ \E c \in Clients : ClientNext(c)
  \/ \E a \in Votable, v \in Voters, vote \in {"yes", "no"} : Vote(a, v, vote)

Spec == Init /\ [][Next]_reviewVars

-----------------------------------------------------------------------------
\* The rating and the number of reviews of a product are those of its
\* approved reviews, whatever reviews are written, moderated and deleted at
\* the same time, unless the save of an edit of the product has put older
\* ones back since (ARCH-001 H1; review_service.py:202-219).
StatsCurrent == stats = StatsOf(reviews) \/ restored

\* The counters of a review are the votes on it, however votes, edits and
\* moderation are interleaved, unless the save of a stale copy has
\* overwritten them (vote_helpful; helpful_yes, helpful_no).
HelpfulMatchesVotes ==
  \A a \in Authors \ clobbered :
    Exists(a) => \A vote \in {"yes", "no"} :
      (IF vote = "yes" THEN reviews[a].yes ELSE reviews[a].no)
        = Cardinality({v \in Voters : votes[a][v] = vote})
=============================================================================

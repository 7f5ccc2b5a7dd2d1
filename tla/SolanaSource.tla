---------------------------- MODULE SolanaSource ----------------------------
(***************************************************************************)
(* The sparse-slot Solana block source (indexer/source) over an endpoint   *)
(* whose finalized slot grows and whose oldest slots are pruned while an   *)
(* attempt is under way.  An attempt is cut at its requests.               *)
(*                                                                         *)
(* Not every slot has a block.  The endpoint answers from a view that may  *)
(* be one slot behind, and the listing of a view may lack its newest slot; *)
(* pruned slots are left out of listings without notice.                   *)
(***************************************************************************)
EXTENDS Integers, Sequences, FiniteSets, SequencesExt, FiniteSetsExt

CONSTANTS
    None,
    MaxSlot,
    DescendingWindow, MaxForwardWindow,   \* slots in one getBlocks
    MaxEnumerations,                      \* getBlocks calls in one attempt
    MaxEnumerationSpan                    \* slots the client asks for at most

VARIABLES
    produced,    \* the slots with a block
    finalized, first,   \* newest finalized and oldest available slot
    call,        \* the attempt under way
    last         \* the call when it has returned, and its result

vars == <<produced, finalized, first, call, last>>
nodeVars == <<produced, finalized, first>>

Idle == [op |-> "none", at |-> "idle", start |-> 0, end |-> 0, limit |-> 0,
         tip |-> None,        \* the finalized slot, then the slot of the complete tip
         opening |-> None,
         lo |-> 0, hi |-> 0,  \* the window enumerated
         todo |-> <<>>, blocks |-> <<>>, enumerations |-> 0]

Init ==
    /\ produced \in {p \cup {0} : p \in SUBSET (1..MaxSlot)}
    /\ finalized \in 1..MaxSlot
    /\ first = 0
    /\ call = Idle
    /\ last = [op |-> "none"]

Views == {v \in {finalized - 1, finalized} : v >= first}

Finalize ==
    /\ last.op = "none" /\ finalized < MaxSlot
    /\ finalized' = finalized + 1
    /\ UNCHANGED <<produced, first, call, last>>

Prune ==
    /\ last.op = "none" /\ first < finalized
    /\ first' = first + 1
    /\ UNCHANGED <<produced, finalized, call, last>>

-----------------------------------------------------------------------------
\* Results.

Return(ok, value, retryable) ==
    /\ call' = Idle
    /\ last' = [op |-> call.op, start |-> call.start, end |-> call.end, limit |-> call.limit,
                tip |-> call.tip, ok |-> ok, value |-> value, retryable |-> retryable]
    /\ UNCHANGED nodeVars

Give(value) == Return(TRUE, value, FALSE)
Refuse(retryable) == Return(FALSE, None, retryable)
Go(locals) == call' = locals /\ UNCHANGED <<nodeVars, last>>

\* within and ensure_before_deadline: the deadline, and any failure of a request.  The kinds
\* that are final are of requests that cannot be made; of those here only TooWide is one.
RequestFails ==
    /\ call.at # "idle"
    /\ Refuse(TRUE)

\* A call begins; every attempt starts from nothing, so a behaviour has one.
Begin(op, at, start, end, limit) ==
    /\ last.op = "none" /\ call.at = "idle"
    /\ call' = [Idle EXCEPT !.op = op, !.at = at, !.start = start, !.end = end, !.limit = limit]
    /\ UNCHANGED <<nodeVars, last>>

Tip == Begin("tip", "slot", 0, 0, 0)
CanonicalAt(position) == Begin("canonical_at", "slot", position, position, 0)

Blocks(start, end, limit) ==
    IF limit = 0 \/ start > end
    THEN /\ last.op = "none" /\ call.at = "idle"
         /\ last' = [op |-> "blocks", start |-> start, end |-> end, limit |-> limit,
                     tip |-> None, ok |-> FALSE, value |-> None, retryable |-> FALSE]
         /\ UNCHANGED <<nodeVars, call>>
    ELSE Begin("blocks", "slot", start, end, limit)

-----------------------------------------------------------------------------
\* What getBlocks may answer; a view below the floor does not.
Enumerations(lo, hi, floor) ==
    LET listed(v) == {s \in produced : lo <= s /\ first <= s /\ s <= hi /\ s <= v}
    IN  UNION {{listed(v), listed(v) \ {v}} : v \in {x \in Views : x >= floor}}

\* The descending window of complete_tip that ends at `end`.
Descend(locals, end) ==
    [locals EXCEPT !.at = "list", !.hi = end, !.lo = Max({end - (DescendingWindow - 1), 0, locals.opening})]

\* The next forward window of sparse_blocks.
Forward(locals, cursor) ==
    LET width == Max({DescendingWindow, Min({locals.limit - Len(locals.blocks), MaxForwardWindow})})
    IN  [locals EXCEPT !.at = "range", !.lo = cursor,
                       !.hi = Min({cursor + width - 1, locals.end, locals.tip})]

\* finalized_slot.
FinalizedSlot ==
    /\ call.at = "slot"
    /\ \E v \in Views : Go([call EXCEPT !.at = "opening", !.tip = v])

\* The first first_available of complete_tip and of canonical.
FirstAvailable ==
    /\ call.at = "opening"
    /\ IF call.op = "canonical_at"
       THEN IF first > call.start THEN Refuse(FALSE)
            ELSE IF call.start > call.tip THEN Refuse(TRUE)
            ELSE Go([call EXCEPT !.at = "exact", !.opening = first])
       ELSE IF first > call.tip THEN Refuse(TRUE)
            ELSE Go(Descend([call EXCEPT !.opening = first], call.tip))

\* The budget of enumerate.
Budgeted == call.enumerations < MaxEnumerations

OutOfBudget ==
    /\ call.at \in {"list", "range", "exact"} /\ ~Budgeted
    /\ Refuse(TRUE)

\* finalized_blocks refuses a window that is too wide.
TooWide == call.hi - call.lo + 1 > MaxEnumerationSpan

\* The descending windows of complete_tip.
ListDown ==
    /\ call.at = "list" /\ Budgeted
    /\ IF TooWide THEN Refuse(FALSE)
       ELSE \E answer \in Enumerations(call.lo, call.hi, call.tip) :
              LET spent == [call EXCEPT !.enumerations = @ + 1]
              IN  IF answer # {} THEN Go([spent EXCEPT !.at = "anchor", !.tip = Max(answer)])
                  ELSE IF call.lo = call.opening THEN Refuse(TRUE)
                  ELSE Go(Descend(spent, call.lo - 1))

\* required_block of a view: null for a slot that is not there (yet, or any more).
Present(slot, view) == slot \in produced /\ first <= slot /\ slot <= view

AnchorBlock ==
    /\ call.at = "anchor"
    /\ \E v \in Views : IF Present(call.tip, v) THEN Go([call EXCEPT !.at = "anchored"]) ELSE Refuse(TRUE)

\* The closing lower bound of complete_tip, and what blocks does with the tip.
AnchorClosing ==
    /\ call.at = "anchored"
    /\ IF first > call.tip THEN Refuse(TRUE)
       ELSE IF call.op = "tip" THEN Give(call.tip)
       ELSE IF call.start > call.tip THEN Give(<<>>)
       ELSE IF first > call.start THEN Refuse(FALSE)
       ELSE Go(Forward(call, call.start))

\* The forward windows of sparse_blocks; the last one has the tip.
ListForward ==
    /\ call.at = "range" /\ Budgeted
    /\ IF TooWide THEN Refuse(FALSE)
       ELSE \E answer \in Enumerations(call.lo, call.hi, call.tip) :
              LET slots == SetToSortSeq(answer, <)
                  wanted == SubSeq(slots, 1, Min({Len(slots), call.limit - Len(call.blocks)}))
              IN  IF call.hi = call.tip /\ call.tip \notin answer THEN Refuse(TRUE)
                  ELSE Go([call EXCEPT !.at = "fetch", !.todo = wanted, !.enumerations = @ + 1])

\* The slot of the block before: what require_connection compares.
ParentOf(slot) == LET below == {s \in produced : s < slot} IN IF below = {} THEN None ELSE Max(below)

\* extend_blocks: the next block, which must follow the one before it.
ExtendBlocks ==
    /\ call.at = "fetch" /\ call.todo # <<>>
    /\ \E v \in Views :
         LET slot == Head(call.todo)
         IN  IF ~Present(slot, v) THEN Refuse(TRUE)
             ELSE IF call.blocks # <<>> /\ ParentOf(slot) # Last(call.blocks) THEN Refuse(TRUE)
             ELSE Go([call EXCEPT !.todo = Tail(@), !.blocks = Append(@, slot)])

\* The window is fetched: the next one, or the closing bound.
WindowDone ==
    /\ call.at = "fetch" /\ call.todo = <<>>
    /\ IF Len(call.blocks) = call.limit \/ call.hi = Min({call.end, call.tip})
       THEN Go([call EXCEPT !.at = "closing"])
       ELSE Go(Forward(call, call.hi + 1))

\* The closing lower bound of sparse_blocks and of canonical: nothing it relies on was
\* pruned.
Closing ==
    /\ call.at = "closing"
    /\ IF first > call.start THEN Refuse(FALSE)
       ELSE Give(IF call.op = "blocks" THEN call.blocks ELSE IF call.blocks = <<>> THEN None ELSE call.start)

\* Variant of ListExact that takes an omission at the finalized slot for evidence.
ListExactAtTip ==
    /\ call.at = "exact" /\ Budgeted
    /\ \E answer \in Enumerations(call.start, call.start, call.tip) :
         IF answer # {} THEN Go([call EXCEPT !.at = "canonical", !.enumerations = @ + 1])
         ELSE Go([call EXCEPT !.at = "closing", !.enumerations = @ + 1])

\* canonical: the listing of exactly the position.
ListExact ==
    /\ call.at = "exact" /\ Budgeted
    /\ \E answer \in Enumerations(call.start, call.start, call.tip) :
         IF answer # {} THEN Go([call EXCEPT !.at = "canonical", !.enumerations = @ + 1])
         ELSE IF call.tip <= call.start THEN Refuse(TRUE)
         ELSE Go([call EXCEPT !.at = "closing", !.enumerations = @ + 1])

CanonicalBlock ==
    /\ call.at = "canonical"
    /\ \E v \in Views :
         IF Present(call.start, v) THEN Go([call EXCEPT !.at = "closing", !.blocks = <<call.start>>])
         ELSE Refuse(TRUE)

-----------------------------------------------------------------------------

Done == last.op # "none" /\ UNCHANGED vars

Answered ==
    \/ FinalizedSlot \/ FirstAvailable \/ ListDown \/ AnchorBlock \/ AnchorClosing
    \/ ListForward \/ ExtendBlocks \/ WindowDone \/ Closing
    \/ ListExact \/ CanonicalBlock \/ OutOfBudget

Next ==
    \/ Tip
    \/ \E p \in 0..MaxSlot : CanonicalAt(p)
    \/ \E s, e \in 0..MaxSlot, n \in 0..3 : Blocks(s, e, n)
    \/ Answered \/ RequestFails \/ Finalize \/ Prune
    \/ Done

Spec == Init /\ [][Next]_vars

\* The deadline of an attempt expires if nothing else happens.
Fairness == WF_vars(Answered \/ RequestFails)
LiveSpec == Spec /\ Fairness

-----------------------------------------------------------------------------
Returned == last.op # "none"

\* A range is the first `limit` produced slots from the start to the end or the tip: a
\* slot that was pruned, not listed yet, or not fetched is never passed over as if it had
\* no block (sparse_blocks and its pruning sandwich).
RangeIsExact ==
    Returned /\ last.op = "blocks" /\ last.ok =>
        LET expected == SetToSortSeq({s \in produced : last.start <= s /\ s <= Min({last.end, last.tip})}, <)
        IN  /\ last.value = SubSeq(expected, 1, Min({Len(expected), last.limit}))
            /\ last.tip \in produced /\ last.tip <= finalized

\* canonical_at answers None, which starts the removal of the stored block, only when the
\* slot has no block and is below the finalized one; otherwise it answers the block.
OmissionIsReal ==
    Returned /\ last.op = "canonical_at" /\ last.ok =>
        /\ last.start <= finalized
        /\ (last.value = None) = (last.start \notin produced)

\* Only a bad range or a pruned position is an error for good: a view that is behind, a
\* missing block or a long run of empty slots is not.
OnlyPruningIsFinal ==
    Returned /\ ~last.ok /\ ~last.retryable =>
        \/ last.op = "blocks" /\ (last.limit = 0 \/ last.start > last.end)
        \/ first > last.start

\* Every attempt ends: the budget bounds the listings however many slots are empty.
Called == call.at # "idle"

=============================================================================

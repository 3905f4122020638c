--------------------------- MODULE AuthorityList ---------------------------
(***************************************************************************)
(* stats/authority/list.go: the handler of proof-of-authority blocks.  One *)
(* List, without a lock, serves all calls of Write, which the workers of   *)
(* the pool make at the same time for different blocks.  It caches the     *)
(* candidates, fetched as they are after some block (their revision), and  *)
(* the owners of the candidates, a Go map.                                 *)
(*                                                                         *)
(* What an unsynchronised access can do is part of the model.  A slice is  *)
(* stored and loaded a word at a time, so that candidates is the set of    *)
(* the revisions it is made of: none when it is empty, two when the words  *)
(* are of two lists.  The Go runtime may end the process when it meets a   *)
(* map that is read or written while it is written.                        *)
(***************************************************************************)
EXTENDS Integers, FiniteSets

CONSTANTS
    Workers,        \* the goroutines that call Write
    LastBlock,      \* bound: blocks 1 .. LastBlock are processed
    RefreshEvery,   \* 2 * EpochLength
    SlotWindow,     \* detailedSlotWindow
    SlotLength,     \* thor.BlockInterval(), in seconds
    TimeWidth,      \* the number of values of the unsigned type of timestamps
    LongestGap,     \* bound: block intervals from Prev to its block, and ...
    StalestGap      \* bound: ... from the block to a Prev that is no ancestor of it

ASSUME AuthorityListAssumption ==
    /\ LastBlock \in Nat /\ RefreshEvery \in Nat \ {0}
    /\ SlotWindow \in Nat \ {0} /\ LongestGap \in Nat \ {0} /\ StalestGap \in Nat
    /\ SlotLength \in Nat \ {0} /\ TimeWidth \in Nat
    /\ (LongestGap + 1) * SlotLength <= TimeWidth

BlockNums == 1 .. LastBlock
Revisions == 0 .. LastBlock

VARIABLES
    kind,           \* chain: what a block did to the candidates, see Kinds
    candidates,     \* l.candidates
    updateBlock,    \* l.updateBlock
    auth,           \* auth[w]: where the call of worker w is
    block,          \* block[w]: the block it processes, 0 when there is no call
    fetched,        \* fetched[w]: revision of the list it fetched
    aborted,        \* the Go runtime ended the process
    started,        \* history: blocks whose call has started
    alone,          \* history: so far no call started while another was under way
    notReset,       \* history: the blocks whose call ended with an Init that failed
    report          \* history: the slots of the last call that got to them

authVars == <<kind, candidates, updateBlock, auth, block, fetched,
              aborted, started, alone, notReset, report>>

\* A block with an event of the Authority contract changes who is a candidate;
\* one with a transfer of an endorsor, or an event of Params, who is active.
Kinds == {"quiet", "endorsor", "authority"}

\* A parent is older than its block.  A Prev the fetcher kept from an abandoned branch
\* may be as old as the block, or younger.
Gaps == -StalestGap .. LongestGap

NoSlots == [gap |-> 1, empty |-> {}, older |-> 0]

\* NewList.
AuthorityInit ==
    /\ kind \in [BlockNums -> Kinds] /\ kind[1] = "quiet"  \* bound: the blocks that differ
    /\ candidates = {} /\ updateBlock = 0
    /\ auth = [w \in Workers |-> "idle"]
    /\ block = [w \in Workers |-> 0]
    /\ fetched = [w \in Workers |-> 0]
    /\ aborted = FALSE
    /\ started = {} /\ alone = TRUE /\ notReset = {}
    /\ report = NoSlots

AtStep(w, state) == auth[w] = state /\ ~aborted
To(w, state) ==
    /\ auth' = [auth EXCEPT ![w] = state]
    /\ block' = [block EXCEPT ![w] = IF state = "idle" THEN 0 ELSE @]
AllIdle == \A w \in Workers : auth[w] = "idle"
-----------------------------------------------------------------------------
(* Data races.                                                             *)

Storing(w) == {v \in Workers \ {w} : auth[v] \in {"store", "overlap"}}

\* What a load of l.candidates can return: a store in progress may be seen
\* before, after, or in the middle.
Loads(w) ==
    {candidates} \cup UNION {{{fetched[v]}, candidates \cup {fetched[v]}} : v \in Storing(w)}

\* What the stores of two lists at once can leave, when w ends its own first and
\* when another ended while w was storing.
Stores(w) ==
    {{fetched[w]}}
        \cup {{fetched[v], fetched[w]} : v \in Storing(w)}
        \cup (IF auth[w] = "overlap" THEN {candidates \cup {fetched[w]}} ELSE {})

\* A slice made of two lists can be read past its end: the handler panics, and
\* the pool recovers.
PanicTorn(w) ==
    /\ AtStep(w, "candidates") \/ AtStep(w, "reset")
    /\ \E c \in Loads(w) : Cardinality(c) > 1
    /\ To(w, "idle")
    /\ UNCHANGED <<kind, candidates, updateBlock, fetched,
                   aborted, started, alone, notReset, report>>

MapWriting == {"mapWrite", "mapWritePrev"}

\* The runtime meets a map access concurrent with a write: "fatal error".
AbortOnMap ==
    /\ ~aborted
    /\ \E v, w \in Workers :
        v # w /\ auth[w] \in MapWriting /\ auth[v] \in MapWriting \cup {"owner", "slots", "endless"}
    /\ aborted' = TRUE
    /\ auth' = [w \in Workers |-> "idle"]
    /\ block' = [w \in Workers |-> 0]
    /\ fetched' = [w \in Workers |-> 0]
    /\ UNCHANGED <<kind, candidates, updateBlock, started, alone, notReset, report>>

-----------------------------------------------------------------------------
(* Write.                                                                  *)

\* A worker calls Write for a block before Hayabusa (for later ones it returns
\* at once).  Block 1 has no Prev and goes straight to the check for a reset.
WriteStart(w, b) ==
    /\ AtStep(w, "idle")
    /\ b \notin started
    /\ block' = [block EXCEPT ![w] = b]
    /\ auth' = [auth EXCEPT ![w] = IF b = 1 THEN "reset" ELSE "owner"]
    /\ started' = started \cup {b}
    /\ alone' = (alone /\ AllIdle)
    /\ UNCHANGED <<kind, candidates, updateBlock, fetched, aborted, notReset, report>>

\* getOwnerAndContactForProposer for the signer.
ReadOwner(w) ==
    /\ AtStep(w, "owner")
    /\ To(w, "candidates")
    /\ UNCHANGED <<kind, candidates, updateBlock, fetched, aborted,
                   started, alone, notReset, report>>

\* Shuffled: an empty list is initialised as of the parent.
Shuffled(w) ==
    /\ AtStep(w, "candidates")
    /\ \E c \in Loads(w) : To(w, IF c = {} THEN "initPrev" ELSE "slots")
    /\ UNCHANGED <<kind, candidates, updateBlock, fetched, aborted,
                   started, alone, notReset, report>>

\* slotsSinceLastBlock for a block gap intervals after Prev: the difference of the
\* timestamps is unsigned.
SlotsSince(gap) == ((gap * SlotLength + SlotLength - 1) % TimeWidth) \div SlotLength

\* Variant of SlotReport: the loop includes the slot of the block itself.
SlotReportToBlock(gap) ==
    LET slots == SlotsSince(gap)
        startSlot == IF slots > SlotWindow THEN slots - SlotWindow ELSE 0
    IN  [gap |-> gap, empty |-> startSlot .. slots - 1,
         older |-> IF slots > SlotWindow THEN slots - SlotWindow - 1 ELSE 0]

\* The points for a block gap intervals after Prev: one per empty slot of the last
\* SlotWindow ones, with the time so many intervals after Prev, the first with Prev's
\* own; and the older ones added up.  The limit of the loop is unsigned.
SlotReport(gap) ==
    LET slots == SlotsSince(gap)
        startSlot == IF slots > SlotWindow THEN slots - SlotWindow ELSE 0
    IN  [gap |-> gap, empty |-> startSlot .. ((slots - 1) % TimeWidth) - 1,
         older |-> IF slots > SlotWindow THEN slots - SlotWindow - 1 ELSE 0]

\* The slots between the block and Prev, each with the owner of the candidate in turn.
\* With no slot at all the loop runs for all 2^64 - 1 values of its index: no call
\* ends it, and it reads the owners for ever.
WriteSlots(w) ==
    /\ AtStep(w, "slots")
    /\ \E gap \in Gaps :
        /\ report' = SlotReport(gap)
        /\ To(w, IF SlotsSince(gap) = 0 THEN "endless" ELSE "reset")
    /\ UNCHANGED <<kind, candidates, updateBlock, fetched, aborted,
                   started, alone, notReset>>

\* The blocks after one of two revisions up to the other.
Between(r, b) == {x \in BlockNums : (r < x /\ x <= b) \/ (b < x /\ x <= r)}

\* The list c has the endorsors a transfer in block b is compared with: it is of
\* one revision, and nobody became a candidate since.
Knows(c, b) == \E r \in c : c = {r} /\ \A x \in Between(r, b) : kind[x] # "authority"

\* Variant of ShouldReset: transfers of endorsors are not looked for.
ShouldResetNever(c, b) == {c = {}}

\* ShouldReset for a list c: the answers it can give.  An event of the Authority
\* contract makes it answer FALSE; a list that does not know the candidates may
\* miss the transfer of one, or find that of one who is none any more.
ShouldReset(c, b) ==
    IF c = {} THEN {TRUE}
    ELSE IF updateBlock > b \/ kind[b] = "authority" THEN {FALSE}
    ELSE IF Knows(c, b) THEN {kind[b] = "endorsor"}
    ELSE BOOLEAN

\* RefreshOwnersList: without a repository, or when it cannot be read, nothing
\* changes; otherwise the owners are written to the map.  Write then returns, but
\* Shuffled goes on to shuffle l.candidates, which it loads again.
RefreshOwnersList(w, inShuffled) ==
    \/ To(w, IF inShuffled THEN "candidates" ELSE "idle")
    \/ To(w, IF inShuffled THEN "mapWritePrev" ELSE "mapWrite")

\* The last part of Write: the list is fetched again, or only the owners, or none.
Reset(w) ==
    /\ AtStep(w, "reset")
    /\ \E c \in Loads(w) : \E answer \in ShouldReset(c, block[w]) :
        \/ answer /\ To(w, "init")
        \/ ~answer /\ block[w] % RefreshEvery = 0 /\ RefreshOwnersList(w, FALSE)
        \/ ~answer /\ block[w] % RefreshEvery # 0 /\ To(w, "idle")
    /\ report' = NoSlots
    /\ UNCHANGED <<kind, candidates, updateBlock, fetched, aborted,
                   started, alone, notReset>>

\* Init: listAllCandidates succeeds, as of the parent or of the block, ...
InitFetch(w) ==
    /\ AtStep(w, "initPrev") \/ AtStep(w, "init")
    /\ To(w, "store")
    /\ fetched' = [fetched EXCEPT ![w] = IF auth[w] = "init" THEN block[w] ELSE block[w] - 1]
    /\ UNCHANGED <<kind, candidates, updateBlock, aborted,
                   started, alone, notReset, report>>

\* ... or fails and leaves the list as it is (or panics, when the answer is too
\* short, which ends the call).
InitFails(w) ==
    /\ AtStep(w, "initPrev") \/ AtStep(w, "init")
    /\ \/ To(w, "idle")
       \/ AtStep(w, "initPrev") /\ To(w, "slots")
    /\ notReset' = IF auth'[w] = "idle" THEN notReset \cup {block[w]} ELSE notReset
    /\ UNCHANGED <<kind, candidates, updateBlock, fetched, aborted,
                   started, alone, report>>

\* The new list is stored,
InitStore(w) ==
    /\ AtStep(w, "store") \/ AtStep(w, "overlap")
    /\ candidates' \in Stores(w)
    /\ auth' = [v \in Workers |->
                IF v = w THEN "number" ELSE IF v \in Storing(w) THEN "overlap" ELSE auth[v]]
    /\ UNCHANGED <<kind, updateBlock, block, fetched, aborted,
                   started, alone, notReset, report>>

\* then the number of its block, and RefreshOwnersList is called,
InitNumber(w) ==
    /\ AtStep(w, "number")
    /\ updateBlock' = fetched[w]
    /\ fetched' = [fetched EXCEPT ![w] = 0]
    /\ RefreshOwnersList(w, fetched[w] < block[w])
    /\ UNCHANGED <<kind, candidates, aborted,
                   started, alone, notReset, report>>

\* and the map, when the owners could be read.
MapWritten(w) ==
    /\ AtStep(w, "mapWrite") \/ AtStep(w, "mapWritePrev")
    /\ To(w, IF auth[w] = "mapWrite" THEN "idle" ELSE "candidates")
    /\ UNCHANGED <<kind, candidates, updateBlock, fetched, aborted,
                   started, alone, notReset, report>>

AuthorityStep(w) ==
    \/ ReadOwner(w)
    \/ Shuffled(w)
    \/ WriteSlots(w)
    \/ Reset(w)
    \/ InitFetch(w)
    \/ InitFails(w)
    \/ InitStore(w)
    \/ InitNumber(w)
    \/ MapWritten(w)
    \/ PanicTorn(w)
-----------------------------------------------------------------------------
(* Properties.                                                             *)

QuietAuthority == \A x \in BlockNums : kind[x] # "authority"

\* With one call at a time, in whatever order the blocks come, a list is whole and has
\* the number of its revision; and while no event of the Authority contract occurs it
\* is out of date for one reason only: the request that should have renewed it
\* failed, which no later block makes up for.
OutdatedOnlyByFailure ==
    alone /\ AllIdle /\ candidates # {} =>
        /\ candidates = {updateBlock}
        /\ QuietAuthority =>
            \A x \in started : x > updateBlock /\ kind[x] = "endorsor" => x \in notReset

\* "If no event emitted from Authority contract, it's believed that the candidates
\* list not changed" (list.go:76): with such an event, then, it is not believed, and
\* unless the request fails no list is kept that is older than the event.  It is
\* violated: ShouldReset answers FALSE to a block with an event of the contract.
AuthorityEventRenews ==
    alone /\ AllIdle /\ candidates # {} =>
        \A x \in started : x > updateBlock /\ kind[x] = "authority" => x \in notReset

\* Every slot missed before a block is reported once: one point each in the
\* detailed window, at the time of the slot before it, the rest in the sum of the
\* older ones, which is one short since it takes the first for the parent's.
SlotsAccounted ==
    report.gap >= 1 =>
        LET missed == report.gap - 1
        IN  /\ report.empty \subseteq 0 .. missed - 1
            /\ Cardinality(report.empty) + report.older =
                    IF missed >= SlotWindow THEN missed - 1 ELSE missed

\* "Write detailed slot data for the last hour (360 slots)" (list.go:166): never for
\* more slots than the window has.  It is violated: when Prev is a block of an
\* abandoned branch with the time of the block, there are 2^64 - 1 of them.
DetailedSlotsBounded == Cardinality(report.empty) <= SlotWindow

\* What makes OutdatedOnlyByFailure inductive.  The states of a call:
BeforeReset == {"owner", "candidates", "initPrev", "mapWritePrev", "slots", "endless",
                "reset", "init", "store", "number"}

AuthorityTypes ==
    /\ kind \in [BlockNums -> Kinds]
    /\ candidates \subseteq Int /\ updateBlock \in Int
    /\ auth \in [Workers -> BeforeReset \cup {"idle", "overlap", "mapWrite"}]
    /\ block \in [Workers -> Nat] /\ fetched \in [Workers -> Int]
    /\ started \subseteq BlockNums
    /\ alone \in BOOLEAN

\* One call at a time, for a block that was started,
OneCall ==
    /\ \A v, w \in Workers : auth[v] # "idle" /\ auth[w] # "idle" => v = w
    /\ \A w \in Workers : auth[w] # "overlap"
    /\ \A w \in Workers : auth[w] # "idle" => block[w] \in started

\* the list is of one revision, that of updateBlock as soon as it is stored,
OneRevision ==
    /\ candidates # {} => \E r \in candidates : candidates = {r}
    /\ candidates # {} /\ (\A w \in Workers : auth[w] # "number") => candidates = {updateBlock}
    /\ \A w \in Workers :
        /\ auth[w] = "number" => candidates = {fetched[w]}
        /\ auth[w] \in {"store", "number"} => fetched[w] \in {block[w] - 1, block[w]}

\* it is only replaced by one that is not older,
NotOlder ==
    \A w \in Workers :
        /\ auth[w] = "initPrev" => candidates = {}
        /\ auth[w] = "init" /\ candidates # {} => updateBlock <= block[w]
        /\ auth[w] = "store" => \A r \in candidates : r <= fetched[w]

\* and while there is none every call so far failed, while there is one every call
\* that found a later transfer, but for the one that has yet to look for it.
FailedOrLooking(x) ==
    x \in notReset \/ \E w \in Workers : auth[w] \in BeforeReset /\ block[w] = x
SinceRevision ==
    /\ candidates = {} => \A x \in started : FailedOrLooking(x)
    /\ QuietAuthority => \A r \in candidates : candidates = {r} =>
        \A x \in started : x > r /\ kind[x] = "endorsor" => FailedOrLooking(x)

AuthorityInv ==
    /\ AuthorityTypes
    /\ alone => OneCall /\ OneRevision /\ NotOlder /\ SinceRevision
=============================================================================

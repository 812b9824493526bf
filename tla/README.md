# TLA+ models of IXI Core

IXI Core is one Node.js server (`index.js`) and a set of operational command-line tools. It keeps
business Objects and their relationships (MOS), financial documents, permanent identities
(Passports), media and imported listings. This directory holds TLA+ models of the parts where
correctness depends on the order in which several writers act and on where one of them stops, the
TLC configurations that check the models on small instances, and TLAPS proofs that hold for every
value of the constants.

## Inventory

| Part of the code | State it keeps | What is hard about it | Here |
|---|---|---|---|
| `mos/storage/sqliteStore.js` | versioned JSON collections and their archive in SQLite; per process, the versions it has read | several processes, conflicts, write-back after a failed audit event | `MosStore` |
| `mos/provisioning` | creation commands, identity commands, Objects, Passports, edges, in separate collections | no transaction around the writes, leases, retries, takeover while a request awaits | `CreationCommand` |
| `financial` (payables) | documents, revisions, idempotency items, one balance item per Bill, in DynamoDB | several readers of many items before one conditional transaction | `PayableBalance` |
| `passport`, owner claim | one JSON file replaced by rename, one lock file | several processes, stale locks, reads outside the lock, crash under the lock | `PassportRegistry` |
| `mos/objects`, `mos/relationships`, `mos/containers`, `mos/projections` | Objects and their direct container, edges, what is derived from them | several collections without a transaction; roll-backs; checks on reads another process has overtaken; acyclic structure | `MosStructure` |
| `mos/movements`, `mos/commands` | movement records, the command ledger | a call cut between its writes; a command left in `processing` | `MosMovements` |
| `freight` | orders, amendments and their command items, in DynamoDB | an order and its movement lie in two stores | `FreightOrders` |
| `financial` (sale of a machine) | invoices, credits, refunds, acquisitions; inventory lock and counters; the inventory projection | what was read is old when the transaction commits; order by dates that users enter | `SaleInventory` |
| `mos/workspaces`, `identity`, `cards`, `imports`, ... | placement, membership, import jobs | leases of imports | planned or out of scope, see `PROJECT.json` |
| `financial` (treasury, active time, lifecycle, close, ledger) | further conditional items of the same transaction; document states | as payables | planned |
| `identity`, `access`, `authority`, `sales`, `tickets`, `media` | their own documents, policies and jobs | transactions, leases | planned or out of scope |
| `acquisition`, `communications`, `storage`, `scripts`, `ops` | parsed listings, consents, files | data transformation and I/O | out of scope; ops tools that write through the store are processes of `MosStore`; `ops/reconcile-tenant-cleanup.js` rewrites the Passport file without its lock, which `PassportRegistry` does not model |

How the parts meet. A creation command reads and writes MOS collections through the store and the
Passport registry through its own file. The registry has no part in the SQLite store, so a command
that touches both cannot be atomic. A freight order lies in DynamoDB and causes movements in the
store; there is no transaction around the two either. Financial documents live in DynamoDB and name Objects and
Passports by ID only. Authority is asked over the network, and that `await` is the only point where
one request of the API process lets another run.

## Modules

| Module | Role |
|---|---|
| `MosCollections` | what the store promises: collections, and commands that add or remove one entry of the collection as it stands |
| `MosStore` | the store itself; implements `MosCollections` |
| `CreationPromise` | what a saved creation command promises its user |
| `CreationCommand` | the command, its lease, its steps and its recovery; implements `CreationPromise` |
| `CentSums` | totals of cents over sets of documents |
| `PayableBalance` | payments and credits against Bills and owed Expenses |
| `PassportRegistry` | the registry file, its lock file, and the owner claim |
| `StructuralGraph` | edges, reachability by paths, and what it means to be acyclic |
| `MosStructure` | Objects, containment, structural edges and projections, written by several processes |
| `MosMovements` | movements of a machine and the command ledger that makes each happen once |
| `FreightOrders` | freight orders; extends `MosMovements` with the orders that dispatch and deliver |
| `SaleInventory` | the sale of a machine, what undoes it, and the inventory projected from both |
| `*MC` | instances for TLC: symmetry and, for payables, the source every settlement is linked to |
| `*_proofs` | the theorems; `CentSums_proofs` has the lemmas on totals the two financial ones share |

Operators whose comment calls them a *mutant* are plausible mistakes. Each shows that some property
can fail; no specification uses them.

### MosStore

`row[k]` is a row of `mos_collections` (version 0: no row), `history[k]` the rows of
`mos_collection_history`, `observed[p]` the `observedVersions` map of a process, `call[p]` the
synchronous service call it is in. A call reads (`ReadPresent`, or `ReadMissing` and
`WriteFallback`), writes once (`WriteNext`), and may write the old value back when its audit event
cannot be appended (`RollBack`, as in `relationshipService.js`). `CommitWrite` is one
`BEGIN IMMEDIATE ... COMMIT`. Calls of different processes interleave between any two transactions;
`Restart` forgets `observed`; `Corrupt` damages a payload on disk.

Checked and proved: `FreshBasis` (a write that would pass the version comparison works from the
collection as it stands, and one about to roll back would undo its own write only),
`HistoryComplete`, `HistoryFaithful`, and the refinement `ImplementsCollections`: no lost update.
Bounds: two processes, one audited and one unaudited key, two entries, versions up to
four (`MaxVersion`): a fallback, a write by each process, and a roll-back by the first, which is the
shortest history in which an unchecked roll-back would undo another process's write.

Not modelled: the JSON-file backend. `observedVersions` belongs to the process and not to a
request, so a handler that kept a collection across an `await` would defeat the comparison; the
calls modelled here are synchronous.

### CreationCommand

`command` is the durable record of `aosCreationCommandService.js` (status, reserved Object, lease
token, whether the lease is live), `identity` the status of its `<commandId>:identity` record,
`object`, `passports` and `edges` what the steps have written, `request[r]` where a request stands.
Each write of the code is an action of its own, so that `Crash` and `Throw` can strike between any
two. `LoopFree` is the single-threaded event loop: a request that stands at an `await` goes on only
when no other is running. Where a command has no parent the code awaits only a resolved promise;
the model lets other requests run there all the same.

A lease is live or not: `DesertedLeaseExpires` lets 120 seconds pass over a lease whose attempt is
over, `RunningLeaseExpires` over one whose attempt stalls at an authorization.
`SoftDelete`, `Restore` and `EndEdge` are other users.

The properties: one Object and one Passport for it (`OneObject`), one active edge, attachments and
receipts only under the lease, receipts that tell the truth, completion that is final, and an
identity result that is never taken back. `KeepsPromise` is the refinement of `CreationPromise`.
`SavedIntentCompletes` needs weak fairness of three things: the event loop serves a request it has
begun, time passes over a deserted lease, and the client resumes what `listAosCreationCommands`
shows as unfinished. It excludes Objects deleted meanwhile, because the code then fails on purpose.
Bounds: three requests (a first attempt, one that takes its lease over, one that replays), two
identifiers, three faults (`MaxFaults`), one ending of the edge. The recovery of one interrupted
attempt that is itself interrupted, and then refused, fits in three faults.

Behaviour of the code the model makes visible and no property forbids: if the process dies after
the edge was written and before the receipt, and the user ends the edge, a resume creates it again;
and an Object or edge whose process died before its event was appended has no event.
`metadata.provisioning.commandId`, by which recovery finds the Object, is assumed not to be
overwritten by a later update.

### PayableBalance

`document` holds every document of an Entity. What one *is* lies in its fields, as in the code:
`kind` (type and, for a payment, direction), `link` (`sourceFinancialDocumentId`) and `method` (how
an Expense was paid). A request enters by `Command` (the command engine's check), `Post`, `Patch`
(its checks of credits and payments) or `Put`, which asks nothing and may change every field. It then
reads its document at a revision, the guard, for a settlement its source, and, when the source is
older than the guard, the list of documents and each canonical record. Each read is an action. A
create is refused if the document exists, a replacement if it does not.
`CommitGuarded` and `CommitUnguarded` are the DynamoDB transaction with every condition of it that
concerns payables. `Abandon` covers each refusal and failed condition, and a request that dies: in
all of them nothing is written. Amounts are whole cents. The reads of the command's check
(`Available`) are one step: what it concludes can be stale by the time of the commit in any case,
and the transaction decides.

**What the guard cannot know.** A document can stop counting, or begin to, in a write that carries
no balance item. The auxiliary variable `loose` names the Bills this has happened to, and
`GuardExact`, `CreditsWithinBill` and `NoOverpayment` speak of all others. It is read by no action,
and grows in two ways:

* `Relabelled`: a settlement changes its kind or its link, or a document its own kind. A PUT turns an
  outgoing payment of 1 into one received of 5: line 14 of `IXIFinancialPayableBalanceControl.js`
  returns no items, and the guard still counts 1. A second PUT turns it back: the previous cents,
  which were never counted, are subtracted (line 38), the difference is 0, and line 44 compares
  nothing. A credit made into another type, raised and made a credit again passes line 43 likewise,
  and a payment that had no link before passes line 25. PATCH refuses this for a payment
  (`IXIFinancialRoutes.js:1530-1535`) and for a credit's link, not for a document that is not yet
  one or that stops being a credit.
* `Premature`: POST saves a settlement whose Bill does not exist; the Bill is then created with a new
  guard that does not count it.

Each clause is needed: with any one of them dropped (own kind, settled before, settled after, kind,
link, premature), TLC finds a Bill outside `loose` whose guard is wrong. A Bill stays in `loose`, also
when its settlements are put right again. `OneWritePerKey` and `MethodKeptOncePaid` need no such
exception.

Left out: refusals for currency, Entity, approval, hold, closed period and authorization, which
write nothing and are cases of `Abandon` or of not beginning; payments of a settlement and credits
of an invoice have a source of kind `other`. A document saved void from the start counts like one a
PUT made void, and is left out too. A PATCH merges fields it does not name from a read of its own;
what that can produce beyond the fields asked for is what a PUT asks for.

Bounds: `Shapes` says what users make of each document and `Direct` which of them POST and PUT write
past the checks. `PayableBalanceBills` has a Bill, a credit, and a payment in `Direct` that may also
be one received and linked to nothing, so that the Bill becomes loose in some behaviours and not in
others. `PayableBalanceExpense` has an Expense with two ways of payment (my money is owed like
unpaid), two payments and an idempotency key. Amounts are one cent: two settlements of a cent are one
too many, and a void changes an amount. Two revisions let every document be written and corrected
once. All settlements are linked to one source, because sources share no item; two workers are enough
for a race on it, as every guarded transaction conflicts through one guard item. The theorems have
none of these bounds. Deadlock checking is off: revisions are bounded, so the instance does stop.

Totals are those of `CentSums`: the sum of some documents' cents is the *number* of cents
(`Cardinality` of document/cent pairs), which needs no recursion over the documents.
`PayableBalanceMC` has TLC compare it with a fold (`TotalsAreSums`).

### PassportRegistry

`registry` is the set of Passports in the file, `lock` the lock file with its maker and whether it
is 30 seconds old, `call[p]` where a process stands. Looking at a stale lock and removing it
are two file system operations and two actions (`SeeStale`, `BreakStale`); removal hits whatever
has the name by then. So does `Release`. `HeldLockAges` lets a process stall under the lock
(`MayStall`); the run of the stale-lock finding excludes stalls, to show that none is needed.

The owner claim reads without the lock three times (collision, snapshot, reassignment); the first
and the start of the claim are one action, as nothing depends on what lies between them. What it
writes to Objects and memberships between `claimed` and its end goes through `MosStore` and is left
out; that it may fail there is `ClaimFails`, which puts the snapshot back.

`raced` is a ghost: it records that a lock was removed that was fresh or in use. The safety
properties are relative to it, because the lock alone does not give exclusion:
`ExclusiveUnlessRaced` says that such a removal is the *only* way in which exclusion fails, and
`FreshMutation` and `PassportsPermanent` that until then no update is lost. `FileConsistent` holds
unconditionally: not even a raced lock or an old copy puts two Passports with one ID or one source
into the file. `DesertedLockRecovered` assumes that processes run, that time passes, and that
requests keep arriving, since the lock is removed by whoever needs it next.
Bounds: two processes, of which one runs the claim, two IDs, two sources, one Entity (and none), one
crash, stall or failed file operation. A race is between the holder of a lock and one that takes it
for stale, so a third process adds nothing to a first race; the theorems cover any number of
processes, Entities and faults. With one Entity the refusal of a mismatch never happens in this run.

The collision checks of the code look at current IDs only (`passportRegistry.js:593`, `:655`), so
an ID that one Passport gave up can be given to another, and the model allows it. The contract
(`docs/IXI_CORE_NAMELESS_CONTRACT_V1_1.md:8`) calls historical IDs references to the same Object;
whether reuse is meant to be excluded is for its owners to say, and no property is stated.

### MosStructure

A service call reads whole collections, decides, and writes them back. In the store a write is
refused when another process wrote the collection after this call read it (`MosStore`,
`FreshBasis`); here that is `Fresh`, and what is left to go wrong is what lies between two
collections. Each write of a call is an action: placement writes the containment edge, then the
Object, and takes the edge back when the Object is refused; a deletion looks for children, writes
the Object, and leaves edges; a rebuild reads Objects and edges and writes projections of which
only the projections' own version is compared.

Checked: `StructureAcyclic` (technical edges never close a cycle), `ContainmentAcyclic`,
`ContainmentAgrees` (Object and edge name the same container unless one of the conditions below
holds), `ProjectionCurrent` and `NoOrphaning`. The conditions are ghosts, and TLC finds that none
can be dropped:

* `mixed`: "contained-in" is also a label users may give a relationship, so a containment edge can
  be made or ended without the Object's container;
* with two processes, overlapping placements of different Objects can leave one of them with its
  edge changed and its container not, because the roll-back itself is refused, and no fault is
  needed for it;
* `lapsed`: a rebuild that read Objects before another process changed them writes an old
  projection over a newer one. The next request that rebuilds heals it.

Behaviour the model makes visible and no property forbids: a restored Object may lie in a deleted
container, and a restore rebuilds nothing; edges of deleted Objects stay; the second write of a
roll-back (the Objects) never changes anything.
Bounds: two processes, three Objects (the shortest cycle that no single edge check can see takes
three), three calls (`MaxCalls`): two that race and one before or after. Calls are bounded, so the
instance does stop and deadlock checking is off.

### MosMovements and FreightOrders

A movement call is synchronous in the API process, so no other request comes between its writes;
but a write may throw, or the process may die, after any of them. `Perform` is therefore one action
that makes the first `n` of the writes of a call. A command that is cut is left `failed` or
`processing`; the code refuses both in the same way, and here they are one status.

An order request reads its order, makes the movement call, if any, and replaces the order under the
condition that the revision is still the one it read. `Abandon` is a refusal, a conflict, a
timeout, or death. An eventually consistent read is an earlier read. The command IDs of a dispatch
and of a delivery are derived (`freight-dispatch:<order>`, `freight-deliver:<movement>`), and their
payload is compared on replay. The payload holds the acting user too, which is left out: a retry by
somebody else is refused as a conflict.

`MovedOnce` and `EvidenceTrue` are about the movements alone; `OrderMatchesMovement` and
`OrderKept` relate the two stores. Behaviour they do not forbid:

* a dispatch or delivery cut inside its movement call is refused for ever, and the order can go on
  only by an amendment of its status; likewise a dispatch that is retried after its destination was
  amended (the payload differs);
* a delivery moves the machine before the revision of the order is compared, so the machine can be
  moved for an order that was cancelled meanwhile;
* an order that an amendment returned to "awarded" after its delivery, and that is dispatched again,
  replays the completed movement: its second delivery reads completed without moving anything;
* the history event of a status change comes after the write and can be lost (that of an amendment
  is in its transaction).

No code sets the status CANCELLED of a movement. Bounds: one order for one machine, two
containers, two requests, one command ID of a client, one amendment, one cut call
(`MaxStops`), revisions up to seven, which is an order's whole life once and its start again.
Deadlock checking is off as revisions are bounded.

### SaleInventory

One machine, and invoices that are for it. `Events` and `Current` are `projectInventory`: sales,
returns and acquisitions ordered by date, sequence and kind; a tie is decided by the clock at entry,
so any of the last events may be the current one. SOLD reads the invoice and the inventory (in
either order, because `loadInventory` joins a read that is under way), and commits with the
inventory lock; only a return must name the revision it read. Adjustments and refunds read sums of
documents and commit with the counters of the sale as conditions. `GiveUp` is every refusal.
An `Acquire` and a `ReplaceReceipt` read nothing that could be stale and are one action.

`InventoryTrue`: the machine is not sold twice, and the lock agrees with the projection.
`MoneyWithinSale`: concurrent credits and refunds stay within the invoice, the credit and the money
received, and each counter says what the documents say. The conditions are ghosts, and TLC finds
that none can be dropped:

* `disordered`: a sale dated before a recorded return or acquisition is accepted
  (`bindSoldInventory` looks only at the form of the date), the machine then counts as owned,
  and can be sold again;
* `overwrote`: a PATCH of an unsold invoice's metadata that began before SOLD and names no revision
  replaces the sale it has not seen, carries no mutation, and so meets no lock. From then on SOLD of
  that invoice is refused. A test says that ordinary edits "cannot silently restore sold inventory"
  (`IXIFinancialInventoryRoutes.test.js:74`);
* `unseen`: the lock compares only the sale it follows. A sale after a re-acquisition that races
  the belated return of the sale before it passes the lock, and the return, with the higher sequence
  of the day, makes the machine read as owned;
* `clawedBack`: a PUT of a receipt is compared with nothing, so receipts can be lowered under what
  was refunded.

Left out: an acquisition that is voided or dated anew after the resale (the generic PATCH and PUT,
`IXIFinancialRoutes.js:1383-1714`, protect sales but not acquisitions: `InventoryTrue` would need one
more ghost); a PATCH of an unsold invoice's totals that is checked before SOLD and merged after it,
and may lower the invoice under what was credited (`Total` is a constant); the tax counter (a third counter of the same kind); the creation of trade credits (an
invoice in `Traded` starts with one cent of it); day 0 means "no date", and a return is dated no
earlier than its sale. All three actions share the idempotency key `sale-return:<commandId>`; here
every action has command IDs of its own. The check that an invoice is collected is made before the
transaction and not in it, as in the code. Bounds: two invoices of two cents, two credits, two
refunds, two days, two requests in flight, six requests in all (`MaxCalls`): sale, credit, return,
second sale and one that races leave one to spare. Requests are bounded, so deadlock checking is
off.

## Runs

| Run | Shows |
|---|---|
| `MosStore.cfg` | invariants, archive and refinement of the store |
| `CreationCommand.cfg` | safety, refinement and completion of the creation command |
| `PayableBalanceBills.cfg` | while settlements keep what they settle: a balance is spent once, the guard equals the documents, credits stay within the Bill |
| `PayableBalanceExpense.cfg` | one idempotency key, one write; a paid Expense keeps its method |
| `MosStructure.cfg` | what concurrent placements, edges, deletions and rebuilds keep of the structure |
| `FreightOrders.cfg` | a machine is moved once per movement, records tell the truth, orders match their movements |
| `SaleInventory.cfg` | a machine is sold once; credits and refunds stay within the sale |
| `PassportRegistry.cfg`, `PassportRegistryLiveness.cfg` | consistency, exclusion and permanence; deserted locks |
| `PayableBalanceDuplicateCash.cfg`, `PassportRegistryStaleLock.cfg`, `PassportRegistryLostPassport.cfg` | the three disagreements below (TLC reports a violation) |

`tlc -config <run>.cfg <Module>MC` checks one; each takes between a few seconds and about two minutes.

## Where the code and its documents disagree

1. **An Expense can be paid by company money and by a payment document.**
   `IXIFinancialPayableBalanceControl.js:21` returns no transaction items when the source of a
   payment is not payable, so a payment whose Expense was switched to company cash after the
   command's check commits without a guard and without a check of the Expense's revision. A test
   (`IXIFinancialExpensePayments.test.js:45`) says that a paid Expense cannot "generate duplicate
   cash".
2. **Stale-lock recovery can remove a fresh lock** (`passportRegistry.js:127-129`), against
   "exclusive atomic writes and stale-lock recovery" (`docs/IX_CORE_RUNTIME_HARDENING_2026-09.md`).
3. **A Passport can be dropped by a reassignment** that writes records read before its lock
   (`passportRegistry.js:646`), against "permanent Passport deletion is prohibited"
   (`docs/IXI_CORE_NAMELESS_CONTRACT_V1_1.md`).

## Proofs

Checked by `tlapm` for any number of processes, requests, identifiers and faults.

* `MosStore_proofs`: the inductive invariant says of every call what it knows about the row at the
  version it observed: if the row still has that version, it still has the payload the call read or
  wrote. `FreshBasis` alone is not inductive, as it says nothing of a process whose observed
  version is one a later write could reach. The refinement follows step by step: a commit changes
  one entry of the current collection, every other step stutters. Assumptions: the three on the
  constants, in `MosStore`.
* `CreationCommand_proofs`: the inductive invariant ties the place of a request to what has been
  written so far (an Object exists only if it is the reserved one; past `link` its Passport exists
  and is linked) and says that at most one request runs. The refinement `KeepsPromise` follows from
  it action by action: a request that only moves, and every lease, is unseen; six steps are steps
  of `CreationPromise`, and the end of an attachment leaves the count of those ever made alone.
* `PassportRegistry_proofs`: the invariant adds that every copy a process may still write is
  consistent, that only a claim goes through the steps of one, and that only claimants hold old
  copies. Lemmas about the record operations (typing, consistency, that a mutation keeps every
  Passport) come first; two lemmas cover every action in which one call moves; `Write` and the
  ageing of the lock have their own.

* `MosStructure_proofs`: the inductive invariant says of every call in flight that the write it has
  planned keeps the structure acyclic if its read is still fresh, and of a projection call what it
  knows of the collections it has read. `StructuralGraph` states reachability and acyclicity with
  sets of Objects instead of paths, so that the lemma that a checked edge closes no cycle, through
  any number of Objects, needs no induction over the length of a path.
  `ContainmentAgrees` has a second invariant, `Hung`. Between the two writes of a placement other
  calls may hang, write and roll back the same Object, so it cannot speak of one call at a time. The
  store's versions give the order: only the last writer of the edges can still roll back
  (`OneWriter`), only a call whose Objects are current can still write them, and a call that can do
  neither has to stop and leaves its subject `mixed` (`GivenUp`). For every Object that is not given
  up, `Hung` says what the edges and the Object are if no call is between its writes
  (`NobodyMoves`), what one such call would leave whether it writes or rolls back (`OneMoves`), and
  that if one of two can write and the other roll back, what the second puts back is what the first
  is about to write (`TwoMove`). Nothing need be said of three: at most one can roll back, and of two
  that can only write, the one that comes second is given up. TLC checked
  `Hung` on the bounds of the run, and part of the way with three processes, before it was proved.
* `FreightOrders_proofs`: the inductive invariant joins two parts. `MInv` says of the ledger that a
  record belongs to the one command that names it, that a placement not cut off has settled its
  freight movement, and that every record is evidenced; `MadeKeeps` shows it for any prefix of the
  writes of a call, given only the order in which they are made (`Ordered`). Of the orders it says
  that what a request is about to write extends the order if the order still has the revision that
  was read, and that it tells the truth about the movement whether or not it is ever written. The
  bridge is `Grows`: what no later movement call takes back. `OrderKept` is proved from the same
  invariant. Assumptions: `YardAssumption`, `OrdersAssumption` (an amendment sets no status `none`),
  `BoundsAssumption`.
* `PayableBalance_proofs`: the inductive invariant `IInv` says of a request what its reads are worth:
  the document and the guard it read are the present ones if their revision and version still are; a
  request that goes to the guarded transaction has a payable source, which exists; one that goes past
  it is no source, and found nothing payable. So whatever is a Bill now and was not then has changed
  its kind and is `loose`. A commit leaves every other request either as it was or behind.
  On top of it stands a second invariant, `Books`, for the properties about money. It says that
  whatever settles a document outside `loose` settles one that exists, that the guard is exact
  (`GuardExact`), and of a request that adopts that its running totals are the sums over the records
  it has read (`Summed`): while a Bill has no guard, nobody can have committed a settlement or
  amendment of it without noting it in `loose`, and as soon as somebody does the guard exists and
  the adopting request's condition fails. A commit either does not touch what a Bill outside `loose`
  counts (`OthersKept`) or moves guard and documents by the same cents (`TotalsWritten`); here every
  clause of `loose` is used. From `Books` follow `GuardExact`, `CreditsWithinBill` and, as a property
  of the committing step, `NoOverpayment`. The theorems hold for any `Shapes` and `Direct`, that is for whatever
  PUTs users make of any document, any amounts and any number of requests. `DocumentsAssumption` asks
  for finitely many documents, `BoundsAssumption` for at least one revision.

* `SaleInventory_proofs`: `InventoryTrue` is far from inductive. The invariant is in two parts.
  Unconditionally, documents and requests are well formed, and a request whose revision is still the
  invoice's has read its present data (`ReadKnown`). While the three ghosts are false
  (`Consistent`), the lock is sound, every open sale but the last was followed by an acquisition
  (`Covered`), the events of every sale but the last come before the last sale (`Trailing`), and a
  sale in flight can rely on its view if the lock still names the sale the view follows and it has
  seen every return (`ViewSound`): the machine is free and the new sale will be the last event. A
  committed sale makes the views of all others worthless because their `previous` is an older sale,
  a committed return because they have not seen it.
  `MoneyWithinSale` has an invariant of its own, `Money`: every counter says what the documents say,
  or does not exist and there is nothing to count; a sale that was returned is credited in full; and
  a request in flight was priced on totals that have not gone down since (`CallPriced`), because
  credits and refunds are only ever added. So a commit whose counter conditions hold has room in the
  documents, whatever was committed in between. What may shrink are the receipts, and then the sale
  is `clawedBack`. The type invariant rests on `Money` too, as counters are typed by their bounds.
  Assumptions: `BoundsAssumption`, `InvoicesAssumption` (finitely many credits and refunds),
  `NoneAssumption` (`None` is no record). Invoices and requests may be infinitely many.
* `CentSums_proofs`: a total is a natural number, adding or changing one document changes it by that
  document's cents, documents that count nothing may be left out, and a total only grows with its
  documents. Each follows from the library's theorems on cardinalities.

Model-checked only: liveness, that is `SavedIntentCompletes` and `DesertedLockRecovered` (TLAPS 1.4.5
proves neither fairness nor `ENABLED`), and that `SumCents` is what a fold over the documents
computes (induction over data). Every other property of the runs is a theorem.

## Plan

1. The rest of the document transaction: treasury accounts, active-time locks, trade credits; then
   the lifecycle of documents and period close.
2. Import jobs (cancel beside stage, rows left in `processing`), leases of media jobs, ticket
   revisions, session placement; the authority evaluator as an operator.

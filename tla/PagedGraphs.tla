----------------------------- MODULE PagedGraphs -----------------------------
(***************************************************************************)
(* Launches over the paged key/value cache: the eager paths and the CUDA   *)
(* graphs of the LLaDA2 and Nemotron runners.  A captured graph reads and  *)
(* writes through buffers that outlive the launch, its batch is padded to  *)
(* a bucket, and the pages in those buffers are recycled between requests. *)
(* `kind' is the configuration of the process:                             *)
(*   ragged      FlashInfer over the dense cache;                          *)
(*   flash       FlashInfer paged, eager;                                  *)
(*   decomposed, padded   with decode (and prefill) graphs, split or padded*)
(*   fa4, fa4_graph       FA4, eager and with decode graphs;               *)
(*   nemo, nemo_fa4, nemo_fi   Nemotron eager FlashInfer, and its graphs   *)
(*                             on FA4 and on FlashInfer.                   *)
(* Only addresses are modelled: a slot of the pool holds the request and   *)
(* the position whose key was written there last.  `offline' is            *)
(* LLM.generate: the runner allocates the cache and its rows own fixed     *)
(* pages; otherwise the scheduler hands out pages.                         *)
(***************************************************************************)
EXTENDS PagedKV, FiniteSets, FiniteSetsExt

CONSTANTS
  Kinds,           \* triples: kind, its sequence of batch buckets, offline
  PrefillBuckets,  \* cuda_graph_capture_sizes
  SchedulerPages,  \* num_device_pages
  MaxSeqs,         \* max_num_seqs
  MaxRequests,     \* bound: requests of a behaviour
  MaxBlocks,       \* bound: blocks a request decodes
  MaxAborts        \* bound: requests aborted before that

VARIABLES kind, buckets, offline, pool, mem, table, req, free, entries, seen,
          plan, phase

vars == <<kind, buckets, offline, pool, mem, table, req, free, entries, seen, plan, phase>>

Requests == 1..MaxRequests
Nobody == 0
Junk == <<-1, 0>>
Llada == kind \in {"ragged", "flash", "decomposed", "padded", "fa4", "fa4_graph"}
FlashGraphs == kind \in {"decomposed", "padded"}
MaxLength == PagesPerSeq * PageSize

-----------------------------------------------------------------------------
(* The pool.                                                               *)

\* mutant: the buckets of the prefill graphs need no reserved pages
ReserveDecodeOnly == IF kind \in {"fa4_graph", "nemo_fa4", "nemo_fi", "decomposed", "padded"} THEN Last(buckets) ELSE 0
\* reserve_dummy_page: a page for each row of the largest decode bucket, and
\* enough pages for the largest prefill bucket
ReserveDummyPage ==
  CASE kind \in {"fa4_graph", "nemo_fa4", "nemo_fi"} -> Last(buckets)
    [] FlashGraphs -> Max({Last(buckets), Last(PrefillBuckets) \div PageSize})
    [] OTHER -> 0

\* PagedKVCache.__init__
NewPool(gen, batch, pages) == [gen |-> gen, batch |-> batch, dummy |-> pages]
NumPages == pool.dummy + ReserveDummyPage
Slots == 0..(NumPages * PageSize - 1)
DummySlots == (pool.dummy * PageSize)..(NumPages * PageSize - 1)
FixedTable(batch) ==
  Tuple([s \in 1..batch |-> Tuple([p \in 1..PagesPerSeq |-> (s - 1) * PagesPerSeq + p - 1])])
DummyPage(i) == pool.dummy + i - 1
Zeros == Tuple([p \in 1..PagesPerSeq |-> 0])

-----------------------------------------------------------------------------
(* A launch: for each row of the batch the request, the span of the query, *)
(* the slots its keys are written to and the slots its keys are read from. *)

Row(r, off, len) == [req |-> r, off |-> off, len |-> len, kv |-> off + len]
RowTable(row) == table[req[row.req].slot]
Span(row) == row.off..(row.kv - 1)

Launch(rows, write, read) == [rows |-> rows, write |-> write, read |-> read]
Tables(rows) == Tuple([i \in DOMAIN rows |-> RowTable(rows[i])])
Lengths(rows) == Tuple([i \in DOMAIN rows |-> rows[i].kv])

\* _write_current_block, write_range: keys go where the table of the row says
WriteCurrentBlock(rows, tables) ==
  [i \in DOMAIN rows |-> [p \in Span(rows[i]) |-> SlotMapping(tables[i], p)]]
\* _append_native: get_batch_indices_positions and append_paged_kv_cache
AppendNative(rows, csr) ==
  [i \in DOMAIN rows |-> [p \in Span(rows[i]) |-> CsrSlot(csr, i, p)]]
\* FlashInferPagedBlockExtendState.run: the wrapper plans the CSR list
CsrReads(rows, csr) ==
  [i \in DOMAIN rows |-> [k \in 0..(CsrLength(csr, i) - 1) |-> CsrSlot(csr, i, k)]]
\* FA4PagedAttention.forward: slots for the write, page tables for the read
FA4Attention(rows, tables) ==
  Launch(rows, WriteCurrentBlock(rows, tables),
         [i \in DOMAIN rows |-> [k \in 0..(rows[i].kv - 1) |-> SlotMapping(tables[i], k)]])
\* FlashInferPagedPrefillAttention.forward
PagedPrefillAttention(rows, csr) == Launch(rows, AppendNative(rows, csr), CsrReads(rows, csr))
\* FlashInferPagedAttention.forward: without the native append by slots
PagedAttention(rows, tables, csr, native) ==
  Launch(rows, IF native THEN AppendNative(rows, csr) ELSE WriteCurrentBlock(rows, tables), CsrReads(rows, csr))
\* FlashInferTokenPagedAttention.forward: written by slot, read through the plan
TokenAttention(rows, tables, csr) == Launch(rows, WriteCurrentBlock(rows, tables), CsrReads(rows, csr))

\* FlashInferRaggedPrefillAttention: nothing but the launch's own keys is read,
\* and _prefill_batches writes them to the dense rows
RaggedPrefill(rows) == FA4Attention(rows, Tables(rows))
\* FlashInferRaggedAttention over the dense cache, whose rows are the fixed
\* pages: the block's own keys are spliced over the end of the slice
RaggedAttention(rows) ==
  LET cacheLength == Max({rows[i].kv : i \in DOMAIN rows})
      Read(row) ==
        LET keys == RaggedKeys(row.kv, row.len, cacheLength)
            At(place) == IF place < cacheLength - row.len THEN place
                         ELSE place - (cacheLength - row.len) + row.off
        IN [k \in DOMAIN keys |-> SlotMapping(RowTable(row), At(keys[k]))]
  IN Launch(rows, WriteCurrentBlock(rows, Tables(rows)), [i \in DOMAIN rows |-> Read(rows[i])])

\* _make_scheduler_paged_batch
SchedulerPagedBatch(rows) == PagedPrefillAttention(rows, PagedMetadata(Tables(rows), Lengths(rows)))
\* _make_flashinfer_paged_prefill_batch
PagedPrefillBatch(rows) == PagedPrefillAttention(rows, PagedMetadata(Tables(rows), Lengths(rows)))
\* _make_decode_forward_batch with _attach_flashinfer_append_metadata
DecodeForwardBatch(rows) == PagedAttention(rows, Tables(rows), PagedMetadata(Tables(rows), Lengths(rows)), TRUE)
\* _make_paged_batch of FA4
FA4PagedBatch(rows) == FA4Attention(rows, Tables(rows))
\* _paged_forward of Nemotron on FlashInfer
TokenBatch(rows) == TokenAttention(rows, Tables(rows), PagedMetadata(Tables(rows), Lengths(rows)))

-----------------------------------------------------------------------------
(* Captured graphs.  An entry is the set of persistent buffers.            *)

PadRow == Row(Nobody, 0, BlockLength)
Padding(rows, size) == Tuple([i \in 1..size |-> IF i \in DOMAIN rows THEN rows[i] ELSE PadRow])
DummyTable(i) == Tuple([p \in 1..PagesPerSeq |-> DummyPage(i)])

\* bisect over the sorted buckets; decode_graph_bucket in padded mode
Covering(sizes, n) == {i \in DOMAIN sizes : sizes[i] >= n}
Bucket(sizes, n) == sizes[Min(Covering(sizes, n))]

\* decode_graph_bucket, can_run_decode, bucket_for, can_replay
CanReplay(n) ==
  CASE kind = "decomposed" -> n \in ToSet(buckets)
    [] kind \in {"padded", "nemo_fa4", "nemo_fi"} -> Covering(buckets, n) # {}
    [] kind = "fa4_graph" -> TRUE
    [] OTHER -> FALSE

\* _capture_bucket, _capture, _capture_llada2_decode: buffers on the reserved pages
Capture(size) ==
  [gen |-> pool.gen, tables |-> Tuple([i \in 1..size |-> DummyTable(i)]),
   csr |-> PagedMetadata(Tuple([i \in 1..size |-> DummyTable(i)]), [i \in 1..size |-> MaxLength])]
Entry(key, size) == IF key \in DOMAIN entries THEN entries[key] ELSE Capture(size)

\* mutant: rows that were real on an earlier replay keep their buffers
ReplayKeepsRows(e, rows, size) ==
  [e EXCEPT !.tables = Tuple([i \in 1..size |-> IF i \in DOMAIN rows THEN RowTable(rows[i]) ELSE @[i]])]
\* FA4CudaGraphRunner.replay, NemotronCudaGraphRunner.replay: real rows take the
\* page table of their sequence, the others go back to their own reserved page
ReplayTables(e, rows, size) ==
  [e EXCEPT !.tables = Tuple([i \in 1..size |-> IF i \in DOMAIN rows THEN RowTable(rows[i]) ELSE DummyTable(i)])]

FA4Replay(e, rows, size) ==
  LET after == ReplayTables(e, rows, size) IN
  <<after, FA4Attention(Padding(rows, size), after.tables)>>

\* the same with the state of the FlashInfer graph refreshed from the tables
TokenReplay(e, rows, size) ==
  LET tabled == ReplayTables(e, rows, size)
      all == Padding(rows, size)
      after == [tabled EXCEPT !.csr = Refresh(@, tabled.tables, Lengths(all))]
  IN <<after, TokenAttention(all, after.tables, after.csr)>>

\* FlashInferCudaGraphRunner.replay_decode: the CSR list of the live rows, padded
\* with as many copies of the first reserved page as the last row has pages;
\* without padding the keys go through the slot mapping
DecodeReplay(e, rows, size) ==
  LET live == PagedMetadata(Tables(rows), Lengths(rows))
      pads == size - Len(rows)
      padLen == live.indptr[Len(rows) + 1] - live.indptr[Len(rows)]
      used == live.indices \o Tuple([i \in 1..(pads * padLen) |-> pool.dummy])
      csr == Csr(live.indptr \o Tuple([i \in 1..pads |-> Last(live.indptr) + i * padLen]),
                 used \o Tuple([i \in 1..(Len(e.csr.indices) - Len(used)) |-> pool.dummy]),
                 live.last \o Tuple([i \in 1..pads |-> PageSize]))
      all == Padding(rows, size)
      after == [e EXCEPT !.csr = csr]
  IN <<after, PagedAttention(all, Tables(rows), csr, kind = "padded")>>

\* _capture_llada2_prefill: one row of the bucket's length on reserved pages
CapturePrefill(bucket) ==
  [gen |-> pool.gen, mask |-> bucket,
   indices |-> Tuple([p \in 1..(bucket \div PageSize) |-> pool.dummy]),
   slots |-> Tuple([p \in 1..bucket |-> pool.dummy * PageSize + p - 1])]
PrefillEntry(bucket) == IF <<"prefill", bucket>> \in DOMAIN entries
                        THEN entries[<<"prefill", bucket>>] ELSE CapturePrefill(bucket)
\* FlashInferCudaGraphRunner.replay: what lies behind the prompt goes to the
\* reserved slots, the mask hides it
PrefillReplay(e, row, bucket) ==
  LET pages == PagedMetadata(<<RowTable(row)>>, <<row.kv>>).indices
      after == [e EXCEPT
        !.mask = row.len,
        !.indices = pages \o Tuple([p \in 1..(bucket \div PageSize - Len(pages)) |-> pool.dummy]),
        !.slots = Tuple([p \in 1..bucket |-> IF p <= row.len THEN SlotMapping(RowTable(row), p - 1)
                                             ELSE pool.dummy * PageSize + p - 1])]
  IN <<after, Launch(<<row, Row(Nobody, row.len, bucket - row.len)>>,
                     <<[p \in 0..(row.len - 1) |-> after.slots[p + 1]],
                       [p \in row.len..(bucket - 1) |-> after.slots[p + 1]]>>,
                     <<[k \in 0..(after.mask - 1) |-> SlotMapping(after.indices, k)], <<>>>>)>>

-----------------------------------------------------------------------------
(* Running a launch: every layer appends the keys, then attends.           *)

\* the keys a query sees, by kernel and phase
Visible(ph, row, q) ==
  IF ph = "denoise" \/ (ph = "replay" /\ kind = "decomposed") THEN 0..(row.kv - 1)
  ELSE IF ph = "causal" THEN CausalKeys(row.off, row.len, row.kv, q)
  ELSE IF kind \in {"fa4", "fa4_graph"} THEN TaskKeys(row.off, q)
  ELSE BlockExtendKeys(q, row.kv)

\* a graph captured for a pool that is gone writes into memory nobody reads
Written(l, gen) ==
  IF gen # pool.gen THEN mem
  ELSE LET At(s) == {i \in DOMAIN l.rows : \E p \in DOMAIN l.write[i] : l.write[i][p] = s}
           Beyond == NumPages * PageSize
           Overrun == \E i \in DOMAIN l.rows : \E p \in DOMAIN l.write[i] : l.write[i][p] >= Beyond
       IN [s \in 0..Beyond |->
            IF s = Beyond THEN IF Overrun THEN <<Nobody, 0>> ELSE mem[s]
            ELSE IF At(s) = {} THEN mem[s]
            ELSE LET i == CHOOSE i \in At(s) : TRUE
                     p == CHOOSE p \in DOMAIN l.write[i] : l.write[i][p] = s
                 IN <<l.rows[i].req, p>>]

\* real rows only: the outputs of the others are cut off
Attended(l, n, ph, after) ==
  {[req |-> l.rows[i].req, q |-> q, phase |-> ph, row |-> l.rows[i],
    keys |-> [k \in Visible(ph, l.rows[i], q) |->
               IF k \in DOMAIN l.read[i] THEN after[l.read[i][k]] ELSE <<Nobody, -1>>]] :
     i \in 1..n, q \in 0..(MaxLength - 1)}

Run(l, n, ph, gen) ==
  LET after == Written(l, gen) IN
  /\ mem' = after
  /\ seen' = {a \in Attended(l, n, ph, after) : a.q \in Span(a.row)}

Key(size, causal) == IF kind \in {"nemo_fa4", "nemo_fi"} THEN <<"decode", size, causal>> ELSE <<"decode", size>>
Stored(key, entry) == [k \in DOMAIN entries \cup {key} |-> IF k = key THEN entry ELSE entries[k]]

-----------------------------------------------------------------------------
(* Requests and plans.                                                     *)

Live == {r \in Requests : req[r].at = "live"}
NewRequest == [at |-> "new", slot |-> 0, pages |-> <<>>, len |-> 0, prompt |-> 0, blocks |-> 0]
Prompts == IF Llada THEN {BlockLength, 2 * BlockLength} ELSE {1, BlockLength + 1}
Prefilling == {r \in Live : req[r].len < req[r].prompt}
Decoding == {r \in Live : req[r].len >= req[r].prompt /\ req[r].blocks < MaxBlocks}

Planned == {plan[i].req : i \in DOMAIN plan}
UsedSlots == {req[r].slot : r \in Live \cup Planned}

\* the scheduler's pages for the next positions of each row, lowest first
Acquired(rows) ==
  FoldLeft(LAMBDA acc, row :
             LET need == Max({0, PagesFor(row.kv) - Len(acc.pages[row.req])})
                 taken == SubSeq(SetToSortSeq(acc.free, <), 1, need)
             IN [free |-> acc.free \ ToSet(taken), pages |-> [acc.pages EXCEPT ![row.req] = @ \o taken]],
           [free |-> free, pages |-> [r \in Requests |-> req[r].pages]], rows)
NeededPages(rows) ==
  FoldLeft(LAMBDA n, row : n + Max({0, PagesFor(row.kv) - Len(req[row.req].pages)}), 0, rows)

\* rows of one phase in the order of their requests; a prompt may be prefilled
\* block by block
PrefillRows(rs, chunk) ==
  LET order == SetToSortSeq(rs, <) IN
  Tuple([i \in DOMAIN order |->
    LET r == order[i] IN
    Row(r, req[r].len, IF chunk THEN BlockLength ELSE req[r].prompt - req[r].len)])
DecodeRows(rs) ==
  LET order == SetToSortSeq(rs, <) IN
  Tuple([i \in DOMAIN order |-> Row(order[i], req[order[i]].len, BlockLength)])

Submit(r) ==
  /\ ~offline
  /\ req[r].at = "new"
  /\ \A q \in Requests : q < r => req[q].at # "new"
  /\ \E slot \in (1..MaxSeqs) \ UsedSlots :
       /\ \A s \in (1..MaxSeqs) \ UsedSlots : slot <= s
       /\ \E n \in Prompts : req' = [req EXCEPT ![r] = [NewRequest EXCEPT !.at = "live", !.slot = slot, !.prompt = n]]
  /\ seen' = {}
  /\ UNCHANGED <<kind, buckets, offline, pool, mem, table, free, entries, plan, phase>>

\* allocate_kv_cache: with graphs a cache that is large enough is kept, and the
\* graphs of one that is not are dropped
AllocateKVCache(n) ==
  IF kind \notin {"ragged", "flash"} /\ pool.batch >= n THEN <<pool, entries>>
  ELSE <<NewPool(pool.gen + 1, n, n * PagesPerSeq), <<>>>>

\* generate(): allocate_kv_cache for the batch, whose rows are its sequences
Generate(rs) ==
  /\ offline /\ Live = {} /\ plan = <<>>
  /\ Cardinality(rs) \in 1..MaxSeqs
  /\ \A r \in rs : req[r].at = "new"
  /\ \A q \in Requests : req[q].at = "new" => q \in rs \/ \A r \in rs : r < q
  /\ LET alloc == AllocateKVCache(Cardinality(rs))
         order == SetToSortSeq(rs, <)
     IN /\ pool' = alloc[1]
        /\ entries' = alloc[2]
        /\ IF alloc[1] = pool THEN UNCHANGED <<mem, table>>
           ELSE /\ mem' = [s \in 0..((alloc[1].dummy + ReserveDummyPage) * PageSize) |-> Junk]
                /\ table' = FixedTable(alloc[1].batch)
        /\ \E len \in [rs -> Prompts] :
             req' = [r \in Requests |->
               IF r \in rs
               THEN [NewRequest EXCEPT !.at = "live", !.prompt = len[r],
                                       !.slot = CHOOSE i \in DOMAIN order : order[i] = r]
               ELSE req[r]]
  /\ seen' = {}
  /\ UNCHANGED <<kind, buckets, offline, free, plan, phase>>

\* a plan of the scheduler: pages, set_page_tables, one phase; offline a batch
\* chosen by the loops of generate
Schedule(rows, ph) ==
  /\ plan = <<>> /\ rows # <<>>
  /\ plan' = rows /\ phase' = ph
  /\ IF offline THEN UNCHANGED <<req, free, table>>
     ELSE /\ NeededPages(rows) <= Cardinality(free)
          /\ LET got == Acquired(rows) IN
             /\ \A i \in DOMAIN rows : PagesAccepted(got.pages[rows[i].req], NumPages)
             /\ free' = got.free
             /\ req' = [r \in Requests |-> [req[r] EXCEPT !.pages = got.pages[r]]]
             /\ table' = Tuple([s \in DOMAIN table |->
                  LET i == {j \in DOMAIN rows : req[rows[j].req].slot = s} IN
                  IF i = {} THEN table[s]
                  ELSE SetPageTable(table[s], got.pages[rows[CHOOSE j \in i : TRUE].req])])
  /\ seen' = {}
  /\ UNCHANGED <<kind, buckets, offline, pool, mem, entries>>

Advance(rows) ==
  req' = [r \in Requests |->
    LET i == {j \in DOMAIN rows : rows[j].req = r} IN
    IF i = {} \/ req[r].at # "live" THEN req[r]
    ELSE [req[r] EXCEPT !.len = rows[CHOOSE j \in i : TRUE].kv,
                        !.blocks = IF phase = "decode" THEN @ + 1 ELSE @]]

\* _execute_paged_prefill, _prefill_batches_paged, _prefill_batches: a single row
\* without a prefix may replay a graph
PrefillForward ==
  /\ plan # <<>> /\ phase = "prefill"
  /\ LET row == plan[1]
         bucket == Bucket(PrefillBuckets, row.len)
     IN IF FlashGraphs /\ Len(plan) = 1 /\ row.off = 0 /\ Covering(PrefillBuckets, row.len) # {}
        THEN LET r == PrefillReplay(PrefillEntry(bucket), row, bucket) IN
             /\ entries' = Stored(<<"prefill", bucket>>, r[1])
             /\ Run(r[2], 1, "block", r[1].gen)
        ELSE /\ entries' = entries
             /\ LET l == CASE kind = "ragged" -> RaggedPrefill(plan)
                           [] kind \in {"fa4", "fa4_graph", "nemo_fa4"} -> FA4PagedBatch(plan)
                           [] kind \in {"nemo", "nemo_fi"} -> TokenBatch(plan)
                           [] OTHER -> IF offline THEN PagedPrefillBatch(plan) ELSE SchedulerPagedBatch(plan)
                IN Run(l, Len(plan), IF Llada THEN "block" ELSE "causal", pool.gen)
  /\ Advance(plan)
  /\ plan' = <<>>
  /\ UNCHANGED <<kind, buckets, offline, pool, table, free, phase>>

\* _decode_selected_batch, _paged_forward and _graph_replay over some rows of the
\* plan; rows whose block is done leave it
DecodeForward(rows, causal, done) ==
  /\ LET n == Len(rows)
         size == IF kind = "decomposed" THEN n ELSE Bucket(buckets, n)
         key == Key(size, causal)
         e == Entry(key, size)
         ph == IF Llada THEN "block" ELSE IF causal THEN "causal" ELSE "denoise"
         replay == CASE kind \in {"fa4_graph", "nemo_fa4"} -> FA4Replay(e, rows, size)
                     [] kind = "nemo_fi" -> TokenReplay(e, rows, size)
                     [] OTHER -> DecodeReplay(e, rows, size)
     IN IF CanReplay(n)
        THEN /\ entries' = Stored(key, replay[1])
             /\ Run(replay[2], n, IF kind = "decomposed" THEN "replay" ELSE ph, replay[1].gen)
        ELSE /\ entries' = entries
             /\ LET l == CASE kind = "ragged" -> RaggedAttention(rows)
                           [] kind \in {"fa4", "fa4_graph", "nemo_fa4"} -> FA4PagedBatch(rows)
                           [] kind \in {"nemo", "nemo_fi"} -> TokenBatch(rows)
                           [] OTHER -> DecodeForwardBatch(rows)
                IN Run(l, n, ph, pool.gen)
  /\ Advance(SelectSeq(rows, LAMBDA row : row.req \in done))
  /\ plan' = SelectSeq(plan, LAMBDA row : row.req \notin done)
  /\ UNCHANGED <<kind, buckets, offline, pool, table, free, phase>>

\* a request ends or is aborted, a launch of it may still be under way: its pages
\* go back at once, its slot when the plan has ended
Finish(r) ==
  /\ r \in Live
  /\ \/ req[r].blocks = MaxBlocks
     \/ ~offline /\ Cardinality({q \in Requests : req[q].at = "gone" /\ req[q].blocks < MaxBlocks}) < MaxAborts
  /\ req' = [req EXCEPT ![r].at = "gone"]
  /\ free' = free \cup ToSet(req[r].pages)
  /\ seen' = {}
  /\ UNCHANGED <<kind, buckets, offline, pool, mem, table, entries, plan, phase>>

\* the process has started: prepare_online_cuda_graphs captured every bucket
StartKeys ==
  LET decode == IF kind \in {"nemo_fa4", "nemo_fi"} THEN {<<"decode", b, c>> : b \in ToSet(buckets), c \in BOOLEAN}
                ELSE IF kind \in {"fa4_graph", "decomposed", "padded"} THEN {<<"decode", b>> : b \in ToSet(buckets)} ELSE {}
      prefill == IF FlashGraphs THEN {<<"prefill", b>> : b \in ToSet(PrefillBuckets)} ELSE {}
  IN decode \cup prefill

Init ==
  /\ \E c \in Kinds : kind = c[1] /\ buckets = c[2] /\ offline = c[3]
  /\ pool = IF offline THEN NewPool(0, 0, 0) ELSE NewPool(0, MaxSeqs, SchedulerPages)
  /\ mem = [s \in 0..(NumPages * PageSize) |-> Junk]
  /\ table = IF offline THEN <<>> ELSE Tuple([s \in 1..MaxSeqs |-> Zeros])
  /\ req = [r \in Requests |-> NewRequest]
  /\ free = IF offline THEN {} ELSE 1..(SchedulerPages - 1)
  /\ entries = IF offline THEN <<>>
               ELSE [k \in StartKeys |-> IF k[1] = "prefill" THEN CapturePrefill(k[2]) ELSE Capture(k[2])]
  /\ seen = {} /\ plan = <<>> /\ phase = "prefill"

\* the rows of one launch: everything unfinished, or a group of it
Parts == IF offline \/ kind = "decomposed" THEN SUBSET Planned \ {{}} ELSE {Planned}
\* requests are prefilled in the order of their arrival
Oldest(rs) == \A r \in rs, q \in Prefilling : q < r => q \in rs

Next ==
  \/ \E r \in Requests : Submit(r) \/ Finish(r)
  \/ \E rs \in SUBSET Requests : Generate(rs)
  \/ \E rs \in SUBSET Prefilling, chunk \in BOOLEAN :
       Oldest(rs) /\ (chunk => Llada) /\ Schedule(PrefillRows(rs, chunk), "prefill")
  \/ \E rs \in SUBSET Decoding : Schedule(DecodeRows(rs), "decode")
  \/ PrefillForward
  \/ /\ phase = "decode" /\ plan # <<>>
     /\ \E part \in Parts, causal \in BOOLEAN :
          \E done \in IF Llada THEN SUBSET part ELSE {IF causal THEN part ELSE {}} :
            /\ Llada => ~causal
            /\ DecodeForward(SelectSeq(plan, LAMBDA row : row.req \in part), causal, done)

Spec == Init /\ [][Next]_vars

-----------------------------------------------------------------------------
(* Properties.                                                             *)

TypeOK ==
  /\ \A r \in Live : req[r].slot \in 1..pool.batch /\ req[r].len \in 0..MaxLength
  /\ free \subseteq 1..(SchedulerPages - 1)
  /\ DOMAIN mem = 0..(NumPages * PageSize)
  /\ \A k \in DOMAIN entries : entries[k].gen = pool.gen

Home(r) == IF offline THEN table[req[r].slot] ELSE req[r].pages

\* The key of every position a live request has completed is still in its own
\* page: no replay, no padding row and no later owner of a recycled page wrote
\* over it.
KVOwn ==
  \A r \in Live : \A p \in 0..(req[r].len - 1) : mem[SlotMapping(Home(r), p)] = <<r, p>>

\* Every query of a real row saw exactly the keys the model's mask allows, and
\* they were its own: whole blocks up to its own one (LLaDA), everything before
\* it (causal), or everything up to the end of its block (denoising).
AttendsOwn ==
  \A a \in seen :
    a.keys = [k \in CASE a.phase = "causal" -> 0..a.q
                      [] a.phase = "denoise" -> 0..(a.row.off + BlockLength - 1)
                      [] OTHER -> 0..((a.q \div BlockLength + 1) * BlockLength - 1) |-> <<a.req, k>>]

\* Padding is written to the reserved pages only: not to a page of the
\* scheduler, live or free, and not past the end of the pool.
PaddingApart == \A s \in DOMAIN mem \ DummySlots : mem[s] = Junk \/ mem[s][1] # Nobody
=============================================================================

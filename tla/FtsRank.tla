------------------------------- MODULE FtsRank -------------------------------
(***************************************************************************)
(* Ranked retrieval, the data side (pg_fts_am.c, pg_fts_am_scan.c): BM25   *)
(* scores, posting blocks with the bound in their headers, and the cursors *)
(* that move over them.                                                    *)
(*                                                                         *)
(* A score is the integer part of Scale * idf * tf / (tf + 1 + |D|): like  *)
(* the formula of the code it rises with tf, falls with |D| and depends on *)
(* tf and |D| / tf alone, and a sum of scores is exact.  A document id     *)
(* stands for its TID.  `Nowhere' is the id of an exhausted cursor.        *)
(***************************************************************************)
EXTENDS FtsEval

CONSTANTS
    BlockSize,    \* BM25_BLOCK_SIZE (128)
    PageBlocks,   \* posting blocks on a page
    LeadingBit,   \* the implicit leading bit of a stored length (0x08)
    Nowhere       \* UINT64_MAX

ASSUME RankAssumption ==
    /\ BlockSize \in Nat \ {0} /\ PageBlocks \in Nat \ {0}
    /\ LeadingBit \in Nat \ {0} /\ Nowhere \in Nat

Scale == 60

(* bm25_index_idf: falls with df, which is clamped to 1 .. n. *)
Idf(n, df) == 1 + n - Max({1, Min({df, n})})

Contrib(idf, tf, dl) == (Scale * idf * tf) \div (tf + 1 + dl)

(* fts_byte_to_doclen(fts_doclen_to_byte(len)): rounds down.  The steps end *)
(* at 256, the model's bound on how coarse a length may get.               *)
Powers == {1, 2, 4, 8, 16, 32, 64, 128, 256}
Quantized(len) ==
    LET step == Max({p \in Powers : p * LeadingBit <= len} \cup {1})
    IN  (len \div step) * step

DocLen(doc) == SumFunction([t \in DOMAIN doc.pos |-> Cardinality(doc.pos[t])])
TermFreq(doc, term) == IF term \in DOMAIN doc.pos THEN Cardinality(doc.pos[term]) ELSE 0

(* The length a segment stores: a byte in the sidecar (v4), or inline (v3). *)
StoredLen(seg, doc) == IF seg.sidecar THEN Quantized(DocLen(doc)) ELSE DocLen(doc)

(* fts_query_terms: every operand's word, repeated words included. *)
Operands(q) == {i \in DOMAIN q : IsVal(q[i])}
OrdinalIn(q, i) == Cardinality({j \in Operands(q) : j <= i})
QueryTerms(q) ==
    [k \in 1 .. Cardinality(Operands(q)) |->
        q[CHOOSE i \in Operands(q) : OrdinalIn(q, i) = k].term]

(* The posting list of a term: by docid, tombstoned documents included. *)
Posting(seg, term, tid) ==
    [tid |-> tid, tf |-> TermFreq(seg.docs[tid], term), dl |-> StoredLen(seg, seg.docs[tid])]
PostingList(seg, term) ==
    LET tids   == LookupTerm(seg, term)
        nth(j) == CHOOSE tid \in tids : Cardinality({x \in tids : x <= tid}) = j
    IN  [j \in 1 .. Cardinality(tids) |-> Posting(seg, term, nth(j))]

BlockOf(p) == (p - 1) \div BlockSize + 1
BlockStart(b) == (b - 1) * BlockSize + 1
NumBlocks(n) == (n + BlockSize - 1) \div BlockSize
BlockEnd(list, b) == Min({b * BlockSize, Len(list)})

(***************************************************************************)
(* bm25_write_postings, one block's header: the largest tf and the         *)
(* effective length floor(max tf * min(|D| / tf)), with which no posting   *)
(* of the block scores higher whatever the statistics.                     *)
(***************************************************************************)
EffectiveLen(list, in, mtf) == Min({(mtf * list[j].dl) \div list[j].tf : j \in in})

Header(list, b) ==
    LET in  == BlockStart(b) .. BlockEnd(list, b)
        mtf == Max({list[j].tf : j \in in})
    IN  [first |-> list[BlockStart(b)].tid,
         last  |-> list[BlockEnd(list, b)].tid,
         mtf   |-> mtf,
         len   |-> EffectiveLen(list, in, mtf)]

(* The first docid of the header behind the b-th block of a term, if that  *)
(* header is on the same page: the blocks of consecutive terms share pages. *)
NextFirst(seg, term, b) ==
    LET words     == FlattenSeq(seg.dict)
        i         == CHOOSE i \in DOMAIN words : words[i] = term
        blocks(w) == NumBlocks(Cardinality(LookupTerm(seg, w)))
        nth       == SumFunction([j \in 1 .. i - 1 |-> blocks(words[j])]) + b
    IN  IF nth % PageBlocks = 0 THEN Nowhere
        ELSE IF b < blocks(term) THEN PostingList(seg, term)[BlockStart(b + 1)].tid
        ELSE IF i < Len(words) THEN Min(Postings(seg, words[i + 1]))
        ELSE Nowhere

(***************************************************************************)
(* A cursor (WandCursor): one query word in one segment.  bound[b] is what *)
(* wand_block_max_contrib and bestfirst_collect compute from the header:   *)
(* the length field is quantized again unless lengths are inline.          *)
(***************************************************************************)
Cursor(sg, term, idf) ==
    LET list == PostingList(sg, term)
        mtf  == Max({list[j].tf : j \in DOMAIN list})
        hdr  == [b \in 1 .. NumBlocks(Len(list)) |-> Header(list, b)]
    IN  [list |-> list, tombs |-> sg.tombs, idf |-> idf,
         maxc  |-> Contrib(idf, mtf, 0),
         hdr   |-> hdr,
         after |-> [b \in DOMAIN hdr |-> NextFirst(sg, term, b)],
         bound |-> [b \in DOMAIN hdr |->
                      Contrib(idf, hdr[b].mtf,
                              IF sg.sidecar THEN Quantized(hdr[b].len) ELSE hdr[b].len)]]

(* The corpus size; the df of a word: postings, tombstoned ones included,  *)
(* and pending documents (bm25_pending_df).                                *)
CorpusSize(c) == Max({1, Cardinality(DOMAIN c.heap)})
DocFreq(c, term) ==
    SumFunction([s \in DOMAIN c.segs |-> Cardinality(LookupTerm(c.segs[s], term))])
      + Cardinality({tid \in DOMAIN c.pending : term \in DOMAIN c.pending[tid].pos})
TermIdf(c, term) ==
    IF DocFreq(c, term) = 0 THEN 0 ELSE Idf(CorpusSize(c), DocFreq(c, term))

(* One cursor per word and segment that holds it: <<ordinal, segment>>.    *)
(* They are built word by word, which is their order.                      *)
WordOf(c) == c[1]
SegOf(c)  == c[2]
Precedes(c, o) == WordOf(c) < WordOf(o) \/ (WordOf(c) = WordOf(o) /\ SegOf(c) <= SegOf(o))
CursorsOf(c, terms) ==
    {k \in (DOMAIN terms) \X (DOMAIN c.segs) : LookupTerm(c.segs[SegOf(k)], terms[WordOf(k)]) # {}}
Cursors(c, terms) ==
    [k \in CursorsOf(c, terms) |->
        Cursor(c.segs[SegOf(k)], terms[WordOf(k)], TermIdf(c, terms[WordOf(k)]))]

Score(cur, p) == Contrib(cur.idf, cur.list[p].tf, cur.list[p].dl)
Docid(cur, p) == IF p > Len(cur.list) THEN Nowhere ELSE cur.list[p].tid

(* wand_skip_own_tombstoned *)
Settle(cur, p) ==
    LET live == {j \in p .. Len(cur.list) : cur.list[j].tid \notin cur.tombs}
    IN  IF live = {} THEN Len(cur.list) + 1 ELSE Min(live)

(***************************************************************************)
(* wand_skip_blocks: a block is passed over undecoded when the next header *)
(* on its page starts at or below the target; never the term's last block, *)
(* behind which lies another term's header.                                *)
(***************************************************************************)
Skippable_AnyHeader(cur, b, target) == cur.after[b] <= target

Skippable(cur, b, target) == b < Len(cur.hdr) /\ cur.after[b] <= target

SkipBlocks(cur, from, target) ==
    Min({b \in from .. Len(cur.hdr) + 1 :
           b = Len(cur.hdr) + 1 \/ ~Skippable(cur, b, target)})

(* wand_seek: from position p to the first live posting at or above the    *)
(* target; within the decoded block, then by headers, then block by block. *)
Seek(cur, p, target) ==
    LET atLeast(J) == {j \in J : cur.list[j].tid >= target}
        here  == atLeast(p .. BlockEnd(cur.list, BlockOf(p)))
        there == atLeast(BlockStart(SkipBlocks(cur, BlockOf(p) + 1, target)) .. Len(cur.list))
    IN  IF Docid(cur, p) >= target THEN Settle(cur, p)
        ELSE IF here # {} THEN Settle(cur, Min(here))
        ELSE IF there # {} THEN Settle(cur, Min(there))
        ELSE Len(cur.list) + 1

(***************************************************************************)
(* The result order (scored_worse, cmp_scored_desc): score descending,     *)
(* then TID ascending; BestOf keeps the first k.                           *)
(***************************************************************************)
Hit(tid, score) == [tid |-> tid, score |-> score]
Worse(a, b) == a.score < b.score \/ (a.score = b.score /\ a.tid > b.tid)
BestOf(hits, k) == {h \in hits : Cardinality({g \in hits : Worse(h, g)}) < k}
WorstOf(hits) == CHOOSE h \in hits : \A g \in hits \ {h} : Worse(h, g)
=============================================================================

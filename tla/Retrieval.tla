----------------------------- MODULE Retrieval ------------------------------
(***************************************************************************)
(* One question put to a knowledge base (retrieval.py): the candidates are *)
(* ranked by vector, by keyword and by their fusion, a reranker may reorder *)
(* the head, and the best are packed into a context of bounded length.     *)
(* A comparison runs the same candidates through two settings; an          *)
(* application packs what several knowledge bases returned.                *)
(*                                                                         *)
(* Scores are small naturals in place of floats, texts are their lengths,  *)
(* and reciprocal ranks are multiplied by Scale, which the ranks divide.   *)
(***************************************************************************)
EXTENDS Integers, Sequences, FiniteSets, SequencesExt, FiniteSetsExt

CONSTANTS
  Passages,       \* the passages one may find: records, see Passage
  MaxPassages,    \* bound on the passages found
  Configurations, \* the settings of knowledge bases
  MaxTopK, MaxReferences, \* bounds on what is asked for and returned
  Frame,          \* the length of a reference block without its content
  Margin,         \* 120, what an application leaves free in a block it cuts
  Full,           \* the highest normalized score
  Scale

Passage == [vec : 0..Full, kw : Nat, parent : Nat, child : Nat, whole : Nat]
NoParent == 0
Unranked == 1000

(* RetrievalConfigSerializer: candidates are at most 100.                  *)
Setting ==
  [mode : {"VECTOR", "HYBRID"}, fusion : {"WEIGHTED", "RRF"}, rerank : BOOLEAN,
   top_k : Nat, threshold : Nat, vector_k : 1..(Unranked - 1), keyword_k : 1..(Unranked - 1),
   rrf_k : Nat, rerank_k : Nat, weight : 0..10, budget : Nat]

(* What the theorems assume of the parameters.                             *)
ConstantsAssumption ==
  /\ Passages \subseteq Passage
  /\ Configurations \subseteq Setting
  /\ MaxPassages \in Nat /\ MaxTopK \in Nat /\ MaxReferences \in Nat
  /\ Frame \in Nat /\ Margin \in Nat /\ Full \in Nat /\ Scale \in Nat

VARIABLES
  stage,
  corpus,     \* the passages of the knowledge base: paragraph id -> passage
  found,      \* the candidates among them, as they were scored
  settings,
  eligible,   \* the candidates that passed the threshold, best first
  context,    \* the packed blocks and their length
  other       \* a comparison: the context under the experimental settings

vars == <<stage, corpus, found, settings, eligible, context, other>>

Nothing == [blocks |-> <<>>, chars |-> 0, keys |-> {}]
None    == [top_k |-> 0, budget |-> 0]

Init ==
  /\ stage = "start" /\ corpus = <<>> /\ found = <<>> /\ settings = None
  /\ eligible = <<>> /\ context = Nothing /\ other = Nothing

-----------------------------------------------------------------------------
Less(s, t) ==
  \E k \in 1..Len(s) : s[k] < t[k] /\ \A j \in 1..(k - 1) : s[j] = t[j]

(* The elements of S by their keys, of which no two are equal.             *)
Ordered(S, key) ==
  CHOOSE s \in [1..Cardinality(S) -> S] :
    \A m, n \in 1..Cardinality(S) : m < n => Less(key[s[m]], key[s[n]])

First(n, s) == SubSeq(s, 1, IF n < Len(s) THEN n ELSE Len(s))

Rank(s, i) == IF i \in ToSet(s) THEN CHOOSE k \in DOMAIN s : s[k] = i ELSE Unranked

(* calculate_bm25_scores divides by the best raw score of the candidates.  *)
Keyword(c) ==
  LET best == Max({c[i].kw : i \in DOMAIN c})
  IN [i \in DOMAIN c |-> IF best = 0 THEN 0 ELSE (c[i].kw * Full) \div best]

Nearness(c) == Ordered(DOMAIN c, [i \in DOMAIN c |-> <<-c[i].vec, i>>])

\* Fault: the list is cut to what is returned, not to the candidates.
VectorRanksByTopK(c, s) == First(s.top_k, Nearness(c))

VectorRanks(c, s) == First(s.vector_k, Nearness(c))

KeywordRanks(c, s) ==
  First(s.keyword_k, Ordered({i \in DOMAIN c : c[i].kw > 0},
                             [i \in DOMAIN c |-> <<-Keyword(c)[i], -c[i].vec, i>>]))

(* reciprocal_rank_fusion, of the candidates of either list.               *)
Share(s, r) == IF r = Unranked THEN 0 ELSE Scale \div (s.rrf_k + r)

Fused(c, s) ==
  LET v == VectorRanks(c, s)
      k == KeywordRanks(c, s)
  IN [i \in ToSet(v) \cup ToSet(k) |-> Share(s, Rank(v, i)) + Share(s, Rank(k, i))]

UsesRrf(s) == s.mode = "HYBRID" /\ s.fusion = "RRF"

Weighted(c, s) == [i \in DOMAIN c |-> s.weight * c[i].vec + (10 - s.weight) * Keyword(c)[i]]

(* What the mode sorts its candidates by.                                  *)
SortKey(c, s) ==
  IF s.mode = "VECTOR" THEN [i \in DOMAIN c |-> <<-c[i].vec, i>>]
  ELSE IF ~UsesRrf(s)
  THEN LET w == Weighted(c, s) IN [i \in DOMAIN c |-> <<-w[i], -c[i].vec, i>>]
  ELSE LET f == Fused(c, s)
           v == VectorRanks(c, s)
           k == KeywordRanks(c, s)
       IN [i \in DOMAIN f |-> <<-f[i], Rank(v, i), Rank(k, i), i>>]

(* final_score >= threshold, the scores of RRF relative to the best.       *)
Passing(c, s) ==
  IF s.mode = "VECTOR" THEN {i \in DOMAIN c : c[i].vec >= s.threshold}
  ELSE IF ~UsesRrf(s)
  THEN LET w == Weighted(c, s) IN {i \in DOMAIN c : w[i] >= 10 * s.threshold}
  ELSE LET f == Fused(c, s)
           best == Max({f[i] : i \in DOMAIN f})
       IN {i \in DOMAIN f : Full * f[i] >= s.threshold * best}

Eligible(c, s) == Ordered(Passing(c, s), SortKey(c, s))

(* What rerank_candidates returns for the head replaces it.                *)
Reranked(head, order) == head \o SubSeq(order, Len(head) + 1, Len(order))

-----------------------------------------------------------------------------
Separator(acc) == IF acc.blocks = <<>> THEN 0 ELSE 2

\* Fault: the empty line between two blocks is not counted.
TakeTightly(acc, i, key, length, content) ==
  [blocks |-> Append(acc.blocks, [id |-> i, length |-> length, content |-> content]),
   chars  |-> acc.chars + length,
   keys   |-> acc.keys \cup {key}]

Take(acc, i, key, length, content) ==
  [blocks |-> Append(acc.blocks, [id |-> i, length |-> length, content |-> content]),
   chars  |-> acc.chars + Separator(acc) + length,
   keys   |-> acc.keys \cup {key}]

(* One turn of retrieve_from_prepared with _fit_reference: the parent's     *)
(* text, else the child's, and the first block is cut rather than left out.*)
PackNext(c, s, acc, i) ==
  LET key  == IF c[i].parent # NoParent THEN <<c[i].parent, 0>> ELSE <<0, i>>
      left == s.budget - acc.chars - Separator(acc)
  IN IF Len(acc.blocks) >= s.top_k \/ key \in acc.keys THEN acc
     ELSE IF Frame + c[i].whole <= left
     THEN Take(acc, i, key, Frame + c[i].whole, "whole")
     ELSE IF c[i].parent # NoParent /\ Frame + c[i].child <= left
     THEN Take(acc, i, key, Frame + c[i].child, "child")
     ELSE IF acc.blocks = <<>> THEN Take(acc, i, key, Max({left, Frame}), "cut")
     ELSE acc

Pack(c, s, order) ==
  LET packed[n \in 0..Len(order)] ==
        IF n = 0 THEN Nothing ELSE PackNext(c, s, packed[n - 1], order[n])
  IN packed[Len(order)]

-----------------------------------------------------------------------------
(* RetrievalConfigSerializer.validate, and what the comparison checks of   *)
(* the settings it is given.                                               *)
Admissible(s) ==
  /\ s.rerank => s.mode = "HYBRID" /\ s.fusion = "RRF"
  /\ s.fusion = "RRF" => s.top_k <= Min({s.vector_k, s.keyword_k})
  /\ s.rerank => s.top_k <= s.rerank_k /\ s.rerank_k <= s.vector_k + s.keyword_k

(* query_pgvector_candidates: the nearest, ties at the end as they come.   *)
Nearest(c, n) ==
  {S \in kSubset(Min({n, Cardinality(DOMAIN c)}), DOMAIN c) :
     \A i \in S, j \in DOMAIN c \ S : c[i].vec >= c[j].vec}

(* Of a question by vector only the others are left out, in a hybrid one   *)
(* they have no vector score.                                              *)
Narrowed(c, s, S) ==
  IF s.mode = "VECTOR" THEN [i \in S |-> c[i]]
  ELSE [i \in DOMAIN c |-> IF i \in S THEN c[i] ELSE [c[i] EXCEPT !.vec = 0]]

(* prepare_retrieval: the passages of the processed documents, scored by   *)
(* this process or by the index.                                           *)
Prepare ==
  /\ stage = "start"
  /\ \E n \in 1..MaxPassages, s \in Configurations :
       /\ Admissible(s)
       /\ corpus' \in [1..n -> Passages]
       /\ settings' = s
       /\ \/ found' = corpus'
          \/ \E S \in Nearest(corpus', Max({s.vector_k, s.top_k})) :
               found' = Narrowed(corpus', s, S)
  /\ stage' = "prepared"
  /\ UNCHANGED <<eligible, context, other>>

RankCandidates ==
  /\ stage = "prepared"
  /\ eligible' = Eligible(found, settings)
  /\ stage' = "ranked"
  /\ UNCHANGED <<corpus, found, settings, context, other>>

Reranks == settings.rerank /\ UsesRrf(settings) /\ eligible # <<>>

(* The reranker answers with any order of the head, or with its own.       *)
Rerank ==
  /\ stage = "ranked"
  /\ Reranks
  /\ LET head == First(settings.rerank_k, eligible)
     IN \E p \in [DOMAIN head -> ToSet(head)] :
          ToSet(p) = ToSet(head) /\ eligible' = Reranked(p, eligible)
  /\ stage' = "reranked"
  /\ UNCHANGED <<corpus, found, settings, context, other>>

PackContext ==
  /\ stage = "reranked" \/ (stage = "ranked" /\ ~Reranks)
  /\ context' = Pack(found, settings, eligible)
  /\ stage' = "packed"
  /\ UNCHANGED <<corpus, found, settings, eligible, other>>

(* KnowledgeBaseRetrievalCompareView: the same candidates, other settings. *)
Compare ==
  /\ stage = "packed"
  /\ ~Reranks
  /\ \E k \in 1..MaxTopK, t \in 0..Full :
       LET s == [settings EXCEPT !.top_k = k, !.threshold = t]
       IN /\ Admissible(s)
          /\ k >= settings.top_k /\ t <= settings.threshold
          /\ other' = Pack(found, s, Eligible(found, s))
  /\ stage' = "compared"
  /\ UNCHANGED <<corpus, found, settings, eligible, context>>

-----------------------------------------------------------------------------
(* retrieve_application_context: references of knowledge base b at rank r  *)
(* weigh weights[b] / (60 + r).                                            *)
Outweighs(weights, x, y) ==
  LET wx == weights[x[1]] * (60 + y[2])
      wy == weights[y[1]] * (60 + x[2])
  IN wx > wy \/ (wx = wy /\ Less(x, y))

ByWeight(S, weights) ==
  CHOOSE s \in [1..Cardinality(S) -> S] :
    \A m, n \in 1..Cardinality(S) : m < n => Outweighs(weights, s[m], s[n])

ReferenceNext(lengths, s, acc, x) ==
  LET left == s.budget - acc.chars - Separator(acc)
  IN IF Len(acc.blocks) >= s.top_k \/ left <= 0 THEN acc
     ELSE IF Frame + lengths[x] <= left
     THEN Take(acc, x, x, Frame + lengths[x], "whole")
     ELSE IF acc.blocks = <<>>
     THEN Take(acc, x, x, Max({Frame, Min({left, Frame + left - Margin})}), "cut")
     ELSE acc

PackReferences(lengths, order, s) ==
  LET packed[n \in 0..Len(order)] ==
        IF n = 0 THEN Nothing ELSE ReferenceNext(lengths, s, packed[n - 1], order[n])
  IN packed[Len(order)]

Apply ==
  /\ stage = "start"
  /\ \E returned \in [1..2 -> 0..MaxReferences], weights \in [1..2 -> 1..2], s \in Configurations :
       LET all == {x \in (1..2) \X (1..MaxReferences) : x[2] <= returned[x[1]]}
       IN \E lengths \in [all -> {p.child : p \in Passages}] :
            /\ settings' = s
            /\ eligible' = ByWeight(all, weights)
            /\ context' = PackReferences(lengths, eligible', s)
  /\ stage' = "applied"
  /\ UNCHANGED <<corpus, found, other>>

Next == Prepare \/ RankCandidates \/ Rerank \/ PackContext \/ Compare \/ Apply

Spec == Init /\ [][Next]_vars

-----------------------------------------------------------------------------
(* The length that build_rag_messages gives the joined blocks.             *)
Joined(blocks) ==
  LET sum[n \in 0..Len(blocks)] == IF n = 0 THEN 0 ELSE sum[n - 1] + blocks[n].length
  IN sum[Len(blocks)] + (IF blocks = <<>> THEN 0 ELSE 2 * (Len(blocks) - 1))

(* The context is as long as it was reckoned, within the budget, and holds *)
(* no more blocks than asked for, none of them for one parent twice.       *)
ContextFits ==
  /\ context.chars = Joined(context.blocks)
  /\ context.chars <= Max({settings.budget, Frame}) \/ context = Nothing
  /\ Len(context.blocks) <= settings.top_k
  /\ Cardinality(context.keys) = Len(context.blocks)

(* Whoever asks for more references, or for less relevance, is given the   *)
(* same ones first.                                                        *)
MoreKeepsPrefix == stage = "compared" => IsPrefix(context.blocks, other.blocks)

(* Whoever is answered from the index gets the first of the references     *)
(* that the exact search would return, if none of those it left out is as  *)
(* near as one that it took.                                               *)
IndexKeepsPrefix ==
  stage = "packed" /\ settings.mode = "VECTOR"
    /\ (\A i \in DOMAIN found, j \in DOMAIN corpus \ DOMAIN found : corpus[i].vec # corpus[j].vec) =>
    IsPrefix(context.blocks, Pack(corpus, settings, Eligible(corpus, settings)).blocks)

(* A candidate that both lists rank before another is never fused behind it.*)
BothListsWin ==
  stage = "ranked" /\ UsesRrf(settings) =>
    LET v == VectorRanks(found, settings)
        k == KeywordRanks(found, settings)
    IN \A m, n \in DOMAIN eligible :
         /\ Rank(v, eligible[m]) < Rank(v, eligible[n])
         /\ Rank(k, eligible[m]) < Rank(k, eligible[n])
         => m < n

(* Reranking loses no candidate and moves none that it was not given.      *)
TailKeepsItsPlace ==
  stage = "reranked" =>
    LET before == Eligible(found, settings)
    IN /\ ToSet(eligible) = ToSet(before)
       /\ \A k \in DOMAIN before : k > settings.rerank_k => eligible[k] = before[k]

(* However knowledge bases are weighed, each one's references keep their   *)
(* order.                                                                  *)
KnowledgeBasesKeepOrder ==
  stage = "applied" =>
    \A m, n \in DOMAIN context.blocks :
      LET x == context.blocks[m].id
          y == context.blocks[n].id
      IN x[1] = y[1] /\ x[2] < y[2] => m < n

(* No stage turns around an order that an earlier one, or the same stage   *)
(* under other settings, has settled.                                      *)
OrderIsKept ==
  /\ MoreKeepsPrefix
  /\ IndexKeepsPrefix
  /\ BothListsWin
  /\ TailKeepsItsPlace
  /\ KnowledgeBasesKeepOrder

-----------------------------------------------------------------------------
(* The inductive invariant: what each stage leaves for the ones after it.  *)
FoundIsNear ==
  \/ found = corpus
  \/ \E S \in Nearest(corpus, Max({settings.vector_k, settings.top_k})) :
       found = Narrowed(corpus, settings, S)

IInv ==
  /\ stage \in {"start", "prepared", "ranked", "reranked", "packed", "compared", "applied"}
  /\ stage \notin {"start", "applied"} =>
       /\ settings \in Configurations
       /\ \E n \in 1..MaxPassages : corpus \in [1..n -> Passages]
       /\ FoundIsNear
  /\ stage \in {"start", "prepared", "ranked", "reranked"} => context = Nothing
  /\ stage = "ranked" => eligible = Eligible(found, settings)
  /\ stage = "reranked" => Reranks /\ eligible \in Seq(DOMAIN found)
  /\ stage = "packed" => /\ context = Pack(found, settings, eligible)
                         /\ Reranks \/ eligible = Eligible(found, settings)
  /\ ContextFits
  /\ TailKeepsItsPlace
  /\ MoreKeepsPrefix
  /\ KnowledgeBasesKeepOrder
=============================================================================

---------------------------- MODULE ProductSearch ---------------------------
(***************************************************************************)
(* Product search (services/search_service.py on SQLite, the default       *)
(* database): stemmed full-text search, the trigram search it degrades to  *)
(* and the suggestions.  A word is a sequence of lower-case letters, a     *)
(* title a sequence of words; scores are in units of 0.0001.  The two      *)
(* queries of a hybrid search are two reads, between which products are    *)
(* created.                                                                *)
(***************************************************************************)
EXTENDS Naturals, Sequences, FiniteSets, FiniteSetsExt, SequencesExt

CONSTANTS
  SearchCalls,
  NewProducts,      \* the products to create: title, description, brand, price
  SearchQueries,    \* sequences of words, the blank one included
  SuggestPrefixes,  \* non-blank texts
  SearchLimit, SimilarityThreshold,
  MaxSearchRows     \* bound on the rows

(* What CreateProductRequest lets through. *)
SearchableProduct(p) == p.title # <<>> /\ p.brand # <<>> /\ p.price > 0

ASSUME SearchAssumption ==
  /\ SearchLimit \in Nat \ {0} /\ SimilarityThreshold \in 0..10000
  /\ \A p \in NewProducts : SearchableProduct(p)

VARIABLES
  searchRows,       \* the committed products in order of insertion
  scPc,             \* where a call is
  scQuery,          \* what it looks for, and whether fuzzy was asked for
  scStrategy,       \* FULL_TEXT, FUZZY_TRIGRAM or EMPTY
  scFound,          \* its answer: indices of rows, or suggested texts
  seenRows          \* history: the rows committed when it arrived

searchVars == <<searchRows, scPc, scQuery, scStrategy, scFound, seenRows>>

SearchInit ==
  /\ searchRows = <<>>
  /\ scPc = [c \in SearchCalls |-> "idle"]
  /\ scQuery = [c \in SearchCalls |-> [words |-> <<>>, fuzzy |-> FALSE]]
  /\ scStrategy = [c \in SearchCalls |-> "none"]
  /\ scFound = [c \in SearchCalls |-> <<>>]
  /\ seenRows = [c \in SearchCalls |-> 0]

Cut(w, n) == SubSeq(w, 1, Len(w) - n)
FromEnd(w, n) == w[Len(w) - n + 1]

(* The s-endings of _stem_word(). *)
SingularForm(w) ==
  IF IsSuffix(<<"s", "s", "e", "s">>, w) THEN Cut(w, 2)
  ELSE IF IsSuffix(<<"i", "e", "s">>, w) /\ Len(w) > 4 THEN Append(Cut(w, 3), "y")
  ELSE IF IsSuffix(<<"e", "s">>, w) /\ FromEnd(w, 3) \notin {"a", "e", "i", "o", "u"}
       THEN Cut(w, 2)
  ELSE IF IsSuffix(<<"s">>, w) /\ ~IsSuffix(<<"s", "s">>, w) THEN Cut(w, 1)
  ELSE w

Undoubled(w) ==
  IF Len(w) >= 3 /\ FromEnd(w, 1) = FromEnd(w, 2) /\ FromEnd(w, 1) \notin {"l", "s", "z"}
    THEN Cut(w, 1) ELSE w

(* _stem_word(). *)
StemWord(w) ==
  LET v == SingularForm(w) IN
    IF Len(w) <= 3 THEN w
    ELSE IF IsSuffix(<<"i", "n", "g">>, v) /\ Len(v) > 4 THEN Undoubled(Cut(v, 3))
    ELSE IF IsSuffix(<<"e", "d">>, v) /\ Len(v) > 4 THEN Undoubled(Cut(v, 2))
    ELSE v

Stems(words) == {StemWord(words[i]) : i \in DOMAIN words}

(* round(n / d, 4). *)
Ratio(n, d) == (20000 * n + d) \div (2 * d)

(* _extract_trigrams(): the text between two blanks and one. *)
ExtractTrigrams(text) ==
  LET t == <<" ", " ">> \o text \o <<" ">>
  IN {SubSeq(t, i, i + 2) : i \in 1..(Len(t) - 2)}

(* _calculate_trigram_similarity(), the Jaccard coefficient. *)
TrigramSimilarity(s, t) ==
  LET a == ExtractTrigrams(s)  b == ExtractTrigrams(t) IN
    Ratio(Cardinality(a \cap b), Cardinality(a \cup b))

(* The text of a sequence of words. *)
Joined(words) ==
  FoldLeft(LAMBDA text, w : IF text = <<>> THEN w ELSE text \o <<" ">> \o w, <<>>, words)

(* _calculate_composite_similarity(): the whole text, or the average of    *)
(* each query word's best match.                                           *)
CompositeSimilarity(query, target) ==
  LET long(words) == SelectSeq(words, LAMBDA w : Len(w) >= 2)
      qs == long(query)  ts == long(target)
      whole == TrigramSimilarity(Joined(query), Joined(target))
      best(w) == Max({TrigramSimilarity(w, ts[k]) : k \in DOMAIN ts})
  IN IF qs = <<>> \/ ts = <<>> THEN whole
     ELSE Max({whole,
               Ratio(FoldLeft(LAMBDA n, w : n + best(w), 0, qs), 10000 * Len(qs))})

(* The score of a product in search_products_full_text(): 1.0 for every    *)
(* query stem in the title, 0.4 for every one in the description.          *)
FullTextScore(p, query) ==
  LET title == Stems(p.title)  description == Stems(p.description)
      of(stem) == (IF stem \in title THEN 10 ELSE 0) + (IF stem \in description THEN 4 ELSE 0)
  IN Ratio(FoldLeft(LAMBDA n, w : n + of(StemWord(w)), 0, query), 14 * Len(query))

(* Every query stem is in the title or the description. *)
FullTextMatch(p, query) ==
  Stems(query) \subseteq Stems(p.title) \cup Stems(p.description)

(* search_products_full_text(): the best by score, then by price. *)
SearchFullText(query) ==
  LET ids == {i \in DOMAIN searchRows : FullTextMatch(searchRows[i], query)}
      score == [i \in ids |-> FullTextScore(searchRows[i], query)]
      before(i, k) == \/ score[i] > score[k]
                      \/ score[i] = score[k] /\ searchRows[i].price > searchRows[k].price
                      \/ /\ score[i] = score[k] /\ i < k
                         /\ searchRows[i].price = searchRows[k].price
  IN SubSeq(SetToSortSeq(ids, before), 1, Min({SearchLimit, Cardinality(ids)}))

(* The best of title, brand, and both. *)
FuzzyScore(p, query) ==
  Max({CompositeSimilarity(query, p.title), CompositeSimilarity(query, <<p.brand>>),
       CompositeSimilarity(query, <<p.brand>> \o p.title)})

(* search_products_fuzzy_trigram(). *)
SearchFuzzyTrigram(query) ==
  LET score == [i \in DOMAIN searchRows |-> FuzzyScore(searchRows[i], query)]
      ids == {i \in DOMAIN searchRows : score[i] >= SimilarityThreshold}
      before(i, k) == score[i] > score[k] \/ (score[i] = score[k] /\ i < k)
  IN SubSeq(SetToSortSeq(ids, before), 1, Min({SearchLimit, Cardinality(ids)}))

(* create_product(), committed at once. *)
CreateProduct(p) ==
  /\ Len(searchRows) < MaxSearchRows
  /\ searchRows' = Append(searchRows, p)
  /\ UNCHANGED <<scPc, scQuery, scStrategy, scFound, seenRows>>

Answer(c, how, ids) ==
  /\ scStrategy' = [scStrategy EXCEPT ![c] = how]
  /\ scFound' = [scFound EXCEPT ![c] = ids]
  /\ scPc' = [scPc EXCEPT ![c] = "done"]

(* search_products_endpoint(): a blank query is answered, a fuzzy one goes *)
(* to the trigrams.                                                        *)
SearchProducts(c, query, fuzzy) ==
  /\ scPc[c] = "idle"
  /\ scQuery' = [scQuery EXCEPT ![c] = [words |-> query, fuzzy |-> fuzzy]]
  /\ seenRows' = [seenRows EXCEPT ![c] = Len(searchRows)]
  /\ IF query = <<>> THEN Answer(c, "EMPTY", <<>>)
     ELSE /\ scPc' = [scPc EXCEPT ![c] = IF fuzzy THEN "trigram" ELSE "fullText"]
          /\ UNCHANGED <<scStrategy, scFound>>
  /\ UNCHANGED searchRows

(* The first attempt of search_products_hybrid(). *)
HybridFullText(c) ==
  /\ scPc[c] = "fullText"
  /\ LET ids == SearchFullText(scQuery[c].words) IN
       IF ids # <<>> THEN Answer(c, "FULL_TEXT", ids)
       ELSE scPc' = [scPc EXCEPT ![c] = "trigram"] /\ UNCHANGED <<scStrategy, scFound>>
  /\ UNCHANGED <<searchRows, scQuery, seenRows>>

(* Mutation of HybridFuzzy: the degraded search answers nothing. *)
MutHybridFuzzy(c) ==
  /\ scPc[c] = "trigram"
  /\ Answer(c, "EMPTY", <<>>)
  /\ UNCHANGED <<searchRows, scQuery, seenRows>>

(* The trigram search of search_products_hybrid(), asked for or degraded   *)
(* to; only the latter calls an empty answer EMPTY.                        *)
HybridFuzzy(c) ==
  /\ scPc[c] = "trigram"
  /\ LET ids == SearchFuzzyTrigram(scQuery[c].words) IN
       Answer(c, IF ids = <<>> /\ ~scQuery[c].fuzzy THEN "EMPTY" ELSE "FUZZY_TRIGRAM",
              ids)
  /\ UNCHANGED <<searchRows, scQuery, seenRows>>

Within(text, part) ==
  \E i \in 0..(Len(text) - Len(part)) : SubSeq(text, i + 1, i + Len(part)) = part

(* The score of a candidate in suggest_autocomplete(). *)
SuggestScore(prefix, text) ==
  IF IsPrefix(prefix, text) THEN 10000
  ELSE IF Len(prefix) <= Len(text) /\ Within(text, prefix) THEN 7000
  ELSE TrigramSimilarity(prefix, text)

Candidates(upto) ==
  {Joined(searchRows[i].title) : i \in upto} \cup {searchRows[i].brand : i \in upto}

(* suggest_autocomplete(): titles and brands by score, the shorter first;  *)
(* equals come in the order of a set.                                      *)
SuggestAutocomplete(c, prefix) ==
  /\ scPc[c] = "idle"
  /\ LET texts == {t \in Candidates(DOMAIN searchRows) : SuggestScore(prefix, t) >= 2000}
         notAfter(s, t) == \/ SuggestScore(prefix, s) > SuggestScore(prefix, t)
                           \/ /\ SuggestScore(prefix, s) = SuggestScore(prefix, t)
                              /\ Len(s) <= Len(t)
     IN \E order \in SetToSeqs(texts) :
          /\ \A i \in 1..(Len(order) - 1) : notAfter(order[i], order[i + 1])
          /\ Answer(c, "SUGGEST", SubSeq(order, 1, Min({SearchLimit, Len(order)})))
  /\ scQuery' = [scQuery EXCEPT ![c] = [words |-> <<prefix>>, fuzzy |-> FALSE]]
  /\ seenRows' = [seenRows EXCEPT ![c] = Len(searchRows)]
  /\ UNCHANGED searchRows

SearchNext ==
  \/ \E p \in NewProducts : CreateProduct(p)
  \/ \E c \in SearchCalls :
       \/ \E q \in SearchQueries, fuzzy \in BOOLEAN : SearchProducts(c, q, fuzzy)
       \/ HybridFullText(c) \/ HybridFuzzy(c)
       \/ \E prefix \in SuggestPrefixes : SuggestAutocomplete(c, prefix)

SearchSpec == SearchInit /\ [][SearchNext]_searchVars

Searched(c) ==
  scStrategy[c] \in {"FULL_TEXT", "FUZZY_TRIGRAM", "EMPTY"} /\ scQuery[c].words # <<>>

(* The title of a product that was there when the search arrived finds the *)
(* product, asked for as fuzzy or not, however many are created meanwhile; *)
(* it can only be crowded out by a full page.                              *)
ExactTitleFound ==
  \A c \in SearchCalls : Searched(c) =>
    \A i \in 1..seenRows[c] : searchRows[i].title = scQuery[c].words =>
      i \in ToSet(scFound[c]) \/ Len(scFound[c]) = SearchLimit

(* A regular plural finds the singular by full text: an s after a word of  *)
(* three letters or more that ends in none of s, e and i (the plural       *)
(* phones stems to phon and misses phone).                                 *)
PluralFindsSingular ==
  LET regular(w) == Len(w) >= 3 /\ FromEnd(w, 1) \notin {"s", "e", "i"}
      plural(words) == [k \in DOMAIN words |-> Append(words[k], "s")]
  IN \A c \in SearchCalls : Searched(c) /\ ~scQuery[c].fuzzy =>
       \A i \in 1..seenRows[c] :
         (\A k \in DOMAIN searchRows[i].title : regular(searchRows[i].title[k]))
           /\ plural(searchRows[i].title) = scQuery[c].words =>
               /\ scStrategy[c] = "FULL_TEXT"
               /\ i \in ToSet(scFound[c]) \/ Len(scFound[c]) = SearchLimit

(* Suggestions that start with what was typed come before all others,      *)
(* except one made of the very same trigrams.                              *)
PrefixMatchesFirst ==
  \A c \in SearchCalls : scStrategy[c] = "SUGGEST" =>
    \A s \in Candidates(1..seenRows[c]), k \in DOMAIN scFound[c] :
      LET prefix == scQuery[c].words[1]  t == scFound[c][k] IN
        IsPrefix(prefix, s) /\ ~IsPrefix(prefix, t)
            /\ ExtractTrigrams(t) # ExtractTrigrams(prefix) =>
          \E n \in 1..(k - 1) : scFound[c][n] = s

(* What a shopper may rely on: a title finds its product, a regular plural *)
(* its singular, and suggestions begin with what was typed.                *)
SearchAnswersHold ==
  /\ ExactTitleFound
  /\ PluralFindsSingular
  /\ PrefixMatchesFirst
=============================================================================

------------------------------ MODULE CodecProofs ------------------------------
(***************************************************************************)
(* What the parsers of Codec and Services make of a message as it was      *)
(* encoded, whatever values it carries: they count opening and closing     *)
(* tags, and find every value where it was put, although tags inside it    *)
(* repeat the numbers of the tags around it.                               *)
(***************************************************************************)
EXTENDS Services, Counting, SequenceTheorems, FiniteSetTheorems, TLAPS

-----------------------------------------------------------------------------
\* Depths

Opened(tags) == {i \in DOMAIN tags : tags[i].kind = "open"}
Closed(tags) == {i \in DOMAIN tags : tags[i].kind = "close"}

LEMMA Counted ==
  ASSUME NEW T, NEW tags \in Seq(T)
  PROVE  /\ IsFiniteSet(Opened(tags)) /\ Cardinality(Opened(tags)) \in Nat
         /\ IsFiniteSet(Closed(tags)) /\ Cardinality(Closed(tags)) \in Nat
<1>1. IsFiniteSet(1..Len(tags))
  BY FS_Interval
<1>2. Opened(tags) \subseteq 1..Len(tags) /\ Closed(tags) \subseteq 1..Len(tags)
  BY DEF Opened, Closed
<1>3. IsFiniteSet(Opened(tags)) /\ IsFiniteSet(Closed(tags))
  BY <1>1, <1>2, FS_Subset
<1>4. QED
  BY <1>3, FS_CardinalityType

\* A closing tag behind a list is one level up.
LEMMA DepthOfClosed ==
  ASSUME NEW T, NEW tags \in Seq(T), NEW tag \in T, tag.kind = "close"
  PROVE  Depth(Append(tags, tag)) = Depth(tags) - 1
<1> DEFINE n == Len(tags)
           more == Append(tags, tag)
<1>1. n \in Nat /\ DOMAIN tags = 1..n
  OBVIOUS
<1>2. DOMAIN more = 1..(n + 1) /\ more[n + 1] = tag /\ \A i \in 1..n : more[i] = tags[i]
  BY AppendProperties
<1> HIDE DEF more
<1>3. Opened(more) = Opened(tags)
  BY <1>1, <1>2 DEF Opened
<1>4. Closed(more) = Closed(tags) \union {n + 1} /\ n + 1 \notin Closed(tags)
  BY <1>1, <1>2 DEF Closed
<1>5. Cardinality(Closed(more)) = Cardinality(Closed(tags)) + 1
  BY <1>4, Counted, FS_AddElement
<1>6. Depth(more) = Cardinality(Opened(more)) - Cardinality(Closed(more))
       /\ Depth(tags) = Cardinality(Opened(tags)) - Cardinality(Closed(tags))
  BY DEF Depth, Opened, Closed
<1>7. QED
  BY <1>3, <1>5, <1>6, Counted DEF more

\* The least member of a set is the one that no other is below.
LEMMA LeastIs ==
  ASSUME NEW S, S \subseteq Int, NEW e \in S, \A i \in S : e <= i
  PROVE  Min(S) = e
<1>1. Min(S) \in S /\ \A i \in S : Min(S) <= i
  BY DEF Min
<1>2. e \in Int /\ Min(S) \in Int
  BY <1>1
<1>3. e <= Min(S) /\ Min(S) <= e
  BY <1>1
<1>4. QED
  BY <1>2, <1>3

\* A value between its opening and its closing tag is found whole.
LEMMA InsideIsWhole ==
  ASSUME NEW T, NEW list \in Seq(T), NEW tags \in Seq(T), NEW start \in Nat \ {0},
         \A i \in 1..Len(list) : Depth(SubSeq(list, 1, i)) >= 0, Depth(list) = 0,
         start + Len(list) <= Len(tags),
         \A i \in 1..Len(list) : tags[start + i - 1] = list[i],
         tags[start + Len(list)].kind = "close"
  PROVE  /\ Ends(tags, start) # {}
         /\ Min(Ends(tags, start)) = start + Len(list)
         /\ inside(tags, start) = list
<1>a. PICK n \in Nat : n = Len(list)
  OBVIOUS
<1>b. PICK e \in Nat : e = start + n
  OBVIOUS
<1>1. n = Len(list) /\ e = start + n /\ e \in 1..Len(tags)
  BY <1>a, <1>b
<1>2. ASSUME NEW i \in start..(e - 1)
      PROVE  SubSeq(tags, start, i) = SubSeq(list, 1, i - start + 1)
  <2>1. /\ i - start + 1 \in 1..n /\ i \in start..Len(tags)
        /\ start \in 1..(Len(tags) + 1) /\ i \in (start - 1)..Len(tags)
    BY <1>1
  <2>2. /\ SubSeq(tags, start, i) \in Seq(T)
        /\ Len(SubSeq(tags, start, i)) = i - start + 1
        /\ \A j \in 1..(i - start + 1) : SubSeq(tags, start, i)[j] = tags[start + j - 1]
    BY <1>1, <2>1, SubSeqProperties
  <2>3. /\ SubSeq(list, 1, i - start + 1) \in Seq(T)
        /\ Len(SubSeq(list, 1, i - start + 1)) = i - start + 1
        /\ \A j \in 1..(i - start + 1) : SubSeq(list, 1, i - start + 1)[j] = list[j]
    BY <1>1, <2>1, SubSeqProperties
  <2>4. ASSUME NEW j \in 1..(i - start + 1) PROVE tags[start + j - 1] = list[j]
    <3>1. j \in 1..Len(list)
      BY <1>1, <2>1
    <3>2. QED
      BY <3>1
  <2>5. QED
    BY <2>2, <2>3, <2>4, SeqEqual
<1>3. SubSeq(tags, start, e) = Append(list, tags[e])
  <2>1. /\ SubSeq(tags, start, e) \in Seq(T)
        /\ Len(SubSeq(tags, start, e)) = n + 1
        /\ \A j \in 1..(n + 1) : SubSeq(tags, start, e)[j] = tags[start + j - 1]
    BY <1>1, SubSeqProperties
  <2>2. tags[e] \in T
    BY <1>1
  <2>3. /\ Append(list, tags[e]) \in Seq(T)
        /\ Len(Append(list, tags[e])) = n + 1
        /\ \A j \in 1..n : Append(list, tags[e])[j] = list[j]
        /\ Append(list, tags[e])[n + 1] = tags[e]
    BY <1>1, <2>2, AppendProperties
  <2>4. \A j \in 1..(n + 1) : SubSeq(tags, start, e)[j] = Append(list, tags[e])[j]
    BY <1>1, <2>1, <2>3
  <2>5. QED
    BY <2>1, <2>3, <2>4, SeqEqual
<1>4. Depth(SubSeq(tags, start, e)) < 0
  <2>1. tags[e] \in T /\ tags[e].kind = "close"
    BY <1>1
  <2>2. Depth(Append(list, tags[e])) = -1
    BY <2>1, DepthOfClosed
  <2>3. QED
    BY <1>3, <2>2
<1>5. e \in Ends(tags, start)
  BY <1>1, <1>4 DEF Ends
<1>6. ASSUME NEW i \in Ends(tags, start)
      PROVE  e <= i
  <2>1. i \in start..Len(tags) /\ Depth(SubSeq(tags, start, i)) < 0
    BY DEF Ends
  <2>2. SUFFICES ASSUME i \in start..(e - 1) PROVE FALSE
    BY <1>1, <2>1
  <2>3. Depth(SubSeq(list, 1, i - start + 1)) >= 0
    BY <1>1, <2>2
  <2>4. SubSeq(tags, start, i) = SubSeq(list, 1, i - start + 1)
    BY <1>2, <2>2
  <2>5. SubSeq(list, 1, i - start + 1) \in Seq(T)
    BY <1>1, <2>2, SubSeqProperties
  <2> DEFINE part == SubSeq(list, 1, i - start + 1)
  <2>6. Depth(part) \in Int
    <3>1. Depth(part) = Cardinality(Opened(part)) - Cardinality(Closed(part))
      BY DEF Depth, Opened, Closed
    <3>2. part \in Seq(T)
      BY <2>5
    <3> HIDE DEF part
    <3>3. QED
      BY <3>1, <3>2, Counted
  <2>7. QED
    BY <2>1, <2>3, <2>4, <2>6
<1>7. Min(Ends(tags, start)) = e
  <2>1. Ends(tags, start) \subseteq Int
    BY DEF Ends
  <2>2. QED
    BY <1>5, <1>6, <2>1, LeastIs
<1>8. inside(tags, start) = list
  <2>1. inside(tags, start) = SubSeq(tags, start, e - 1)
    BY <1>7 DEF inside
  <2>2. CASE n = 0
    <3>1. list = <<>>
      BY <1>1, <2>2, EmptySeq
    <3>2. SubSeq(tags, start, e - 1) = <<>>
      BY <1>1, <2>2, SubSeqEmpty
    <3>3. QED
      BY <2>1, <3>1, <3>2
  <2>3. CASE n > 0
    <3>1. e - 1 \in start..(e - 1) /\ (e - 1) - start + 1 = n
      BY <1>1, <2>3
    <3>2. SubSeq(tags, start, e - 1) = SubSeq(list, 1, n)
      BY <1>2, <3>1
    <3>3. SubSeq(list, 1, n) = list
      BY <1>1, SubSeqFull
    <3>4. QED
      BY <2>1, <3>2, <3>3
  <2>4. QED
    BY <1>1, <2>2, <2>3
<1>9. QED
  BY <1>1, <1>5, <1>7, <1>8

-----------------------------------------------------------------------------
\* What is read of a request as it was encoded

\* The tags of a write: fields in front, the value between its tags, a priority
\* behind it or nothing.
LEMMA WriteTags ==
  ASSUME NEW T, NEW front \in Seq(T), NEW open \in T, NEW list \in Seq(T), NEW close \in T,
         NEW behind \in Seq(T), NEW tags,
         tags = (front \o (<<open>> \o list \o <<close>>)) \o behind
  PROVE  /\ tags \in Seq(T)
         /\ Len(tags) = Len(front) + Len(list) + 2 + Len(behind)
         /\ \A i \in 1..Len(front) : tags[i] = front[i]
         /\ tags[Len(front) + 1] = open
         /\ \A i \in 1..Len(list) : tags[Len(front) + 1 + i] = list[i]
         /\ tags[Len(front) + Len(list) + 2] = close
         /\ \A i \in 1..Len(behind) : tags[Len(front) + Len(list) + 2 + i] = behind[i]
<1>1. PICK f \in Nat, n \in Nat, b \in Nat : f = Len(front) /\ n = Len(list) /\ b = Len(behind)
  OBVIOUS
<1> DEFINE one == <<open>> \o list
           two == one \o <<close>>
           three == front \o two
<1>2. <<open>> \in Seq(T) /\ Len(<<open>>) = 1 /\ <<open>>[1] = open
  OBVIOUS
<1>3. <<close>> \in Seq(T) /\ Len(<<close>>) = 1 /\ <<close>>[1] = close
  OBVIOUS
<1>4. /\ one \in Seq(T) /\ Len(one) = n + 1 /\ one[1] = open
      /\ \A i \in 1..n : one[1 + i] = list[i]
  BY <1>1, <1>2, ConcatProperties
<1> HIDE DEF one
<1>5. /\ two \in Seq(T) /\ Len(two) = n + 2 /\ two[1] = open /\ two[n + 2] = close
      /\ \A i \in 1..n : two[1 + i] = list[i]
  BY <1>1, <1>3, <1>4, ConcatProperties
<1> HIDE DEF two
<1>6. /\ three \in Seq(T) /\ Len(three) = f + n + 2
      /\ \A i \in 1..f : three[i] = front[i]
      /\ \A i \in 1..(n + 2) : three[f + i] = two[i]
  <2>1. /\ three \in Seq(T) /\ Len(three) = Len(front) + Len(two)
        /\ \A i \in 1..(Len(front) + Len(two)) :
             three[i] = IF i <= Len(front) THEN front[i] ELSE two[i - Len(front)]
    BY <1>5, ConcatProperties
  <2> HIDE DEF three
  <2>2. ASSUME NEW i \in 1..f PROVE three[i] = front[i]
    BY <1>1, <1>5, <2>1
  <2>3. ASSUME NEW i \in 1..(n + 2) PROVE three[f + i] = two[i]
    <3>1. f + i \in 1..(f + (n + 2)) /\ ~(f + i <= f) /\ (f + i) - f = i
      BY <1>1
    <3>2. QED
      BY <1>1, <1>5, <2>1, <3>1
  <2>4. QED
    BY <1>1, <1>5, <2>1, <2>2, <2>3
<1>7. /\ three[f + 1] = open /\ three[f + n + 2] = close
      /\ \A i \in 1..n : three[f + 1 + i] = list[i]
  <2>1. 1 \in 1..(n + 2) /\ n + 2 \in 1..(n + 2) /\ f + (n + 2) = f + n + 2
    BY <1>1
  <2>2. \A i \in 1..n : 1 + i \in 1..(n + 2) /\ f + (1 + i) = f + 1 + i
    BY <1>1
  <2> HIDE DEF three
  <2>3. QED
    BY <1>5, <1>6, <2>1, <2>2
<1> HIDE DEF three
<1>8. tags = three \o behind
  BY DEF three, two, one
<1>9. /\ tags \in Seq(T) /\ Len(tags) = f + n + 2 + b
      /\ \A i \in 1..(f + n + 2) : tags[i] = three[i]
      /\ \A i \in 1..b : tags[f + n + 2 + i] = behind[i]
  <2>1. /\ tags \in Seq(T) /\ Len(tags) = Len(three) + Len(behind)
        /\ \A i \in 1..(Len(three) + Len(behind)) :
             tags[i] = IF i <= Len(three) THEN three[i] ELSE behind[i - Len(three)]
    <3>1. /\ three \o behind \in Seq(T)
          /\ Len(three \o behind) = Len(three) + Len(behind)
          /\ \A i \in 1..(Len(three) + Len(behind)) :
               (three \o behind)[i]
                 = IF i <= Len(three) THEN three[i] ELSE behind[i - Len(three)]
      BY <1>6, ConcatProperties
    <3>2. QED
      BY <1>8, <3>1
  <2>2. ASSUME NEW i \in 1..(f + n + 2) PROVE tags[i] = three[i]
    BY <1>1, <1>6, <2>1
  <2>3. ASSUME NEW i \in 1..b PROVE tags[f + n + 2 + i] = behind[i]
    <3> DEFINE m == f + n + 2
    <3>1. m + i \in 1..(m + b) /\ ~(m + i <= m) /\ (m + i) - m = i
      BY <1>1
    <3>2. QED
      BY <1>1, <1>6, <2>1, <3>1
  <2>4. QED
    BY <1>1, <1>6, <2>1, <2>2, <2>3
<1>10. /\ \A i \in 1..f : i \in 1..(f + n + 2)
       /\ f + 1 \in 1..(f + n + 2) /\ f + n + 2 \in 1..(f + n + 2)
       /\ \A i \in 1..n : f + 1 + i \in 1..(f + n + 2)
  BY <1>1
<1>11. QED
  BY <1>1, <1>6, <1>7, <1>9, <1>10, SMTT(30)

\* A list of three is a list of two with another behind it.
LEMMA TwoAndOne ==
  ASSUME NEW a, NEW b, NEW c
  PROVE  <<a, b>> \o <<c>> = <<a, b, c>>
<1> DEFINE T == {a, b, c}
<1>1. <<a, b>> \in Seq(T) /\ <<c>> \in Seq(T) /\ <<a, b, c>> \in Seq(T)
  OBVIOUS
<1>2. Len(<<a, b>>) = 2 /\ Len(<<c>>) = 1 /\ Len(<<a, b, c>>) = 3
  OBVIOUS
<1>3. /\ <<a, b>> \o <<c>> \in Seq(T) /\ Len(<<a, b>> \o <<c>>) = 3
      /\ \A i \in 1..3 : (<<a, b>> \o <<c>>)[i] = IF i <= 2 THEN <<a, b>>[i] ELSE <<c>>[i - 2]
  BY <1>1, <1>2, ConcatProperties
<1>4. \A i \in 1..3 : (<<a, b>> \o <<c>>)[i] = <<a, b, c>>[i]
  BY <1>3
<1> HIDE DEF T
<1>5. QED
  BY <1>1, <1>2, <1>3, <1>4, SeqEqual

\* parse_write_property_request reads of a write what write_property_request
\* was given, whatever value it carries, with an index or without and with a
\* priority or without.
THEOREM WriteReadBack ==
  ASSUME NEW id, NEW object, NEW property, NEW list, NEW priority, NEW index, Complete(list)
  PROVE  parse_write_property_request(
           write_property_request(id, object, property, list, priority, index))
         = [object |-> object, property |-> property, array_index |-> index,
            value |-> list, priority |-> priority]
<1> DEFINE T == {list[i] : i \in DOMAIN list} \union
                {context(0, object), context(1, property), context(2, index), opening(3),
                 closing(3), context(4, priority)}
           first == <<context(0, object), context(1, property)>> \o optional(2, index)
           behind == optional(4, priority)
           tags == write_property_request(id, object, property, list, priority, index).parameters
           start == IF index = None THEN 4 ELSE 5
<1>1. PICK n \in Nat : n = Len(list) /\ DOMAIN list = 1..n /\ list \in Seq(T)
  <2>1. list \in Seq({list[i] : i \in DOMAIN list})
    BY DEF Complete
  <2>2. Len(list) \in Nat /\ DOMAIN list = 1..Len(list) /\ list \in Seq(T)
    BY <2>1
  <2>3. QED
    BY <2>2
<1>2. /\ first \in Seq(T) /\ Len(first) = start - 2
      /\ first[1] = context(0, object) /\ first[2] = context(1, property)
      /\ index # None => first[3] = context(2, index)
  <2>1. CASE index = None
    <3>1. first = <<context(0, object), context(1, property)>>
      BY <2>1 DEF optional
    <3>2. context(0, object) \in T /\ context(1, property) \in T /\ start = 4
      BY <2>1
    <3> HIDE DEF T, first, start
    <3>3. QED
      BY <2>1, <3>1, <3>2
  <2>2. CASE index # None
    <3>1. first = <<context(0, object), context(1, property), context(2, index)>>
      BY <2>2, TwoAndOne DEF optional
    <3>2. /\ context(0, object) \in T /\ context(1, property) \in T /\ context(2, index) \in T
          /\ start = 5
      BY <2>2
    <3> HIDE DEF T, first, start
    <3>3. QED
      BY <2>2, <3>1, <3>2
  <2>3. QED
    BY <2>1, <2>2
<1>3. /\ behind \in Seq(T)
      /\ priority = None => Len(behind) = 0
      /\ priority # None => Len(behind) = 1 /\ behind[1] = context(4, priority)
  <2>1. context(4, priority) \in T
    OBVIOUS
  <2> HIDE DEF T
  <2>2. QED
    BY <2>1 DEF optional
<1>4. tags = (first \o (<<opening(3)>> \o list \o <<closing(3)>>)) \o behind
  BY DEF write_property_request, confirmed_request, APDU, constructed
<1>5. opening(3) \in T /\ closing(3) \in T
  OBVIOUS
<1> HIDE DEF T, first, behind, tags
<1>6. /\ tags \in Seq(T)
      /\ Len(tags) = Len(first) + Len(list) + 2 + Len(behind)
      /\ \A i \in 1..Len(first) : tags[i] = first[i]
      /\ tags[Len(first) + 1] = opening(3)
      /\ \A i \in 1..Len(list) : tags[Len(first) + 1 + i] = list[i]
      /\ tags[Len(first) + Len(list) + 2] = closing(3)
      /\ \A i \in 1..Len(behind) : tags[Len(first) + Len(list) + 2 + i] = behind[i]
  <2>1. PICK open \in T, close \in T : open = opening(3) /\ close = closing(3)
    BY <1>5
  <2>2. tags = (first \o (<<open>> \o list \o <<close>>)) \o behind
    BY <1>4, <2>1
  <2>3. list \in Seq(T) /\ first \in Seq(T) /\ behind \in Seq(T)
    BY <1>1, <1>2, <1>3
  <2>4. /\ tags \in Seq(T)
        /\ Len(tags) = Len(first) + Len(list) + 2 + Len(behind)
        /\ \A i \in 1..Len(first) : tags[i] = first[i]
        /\ tags[Len(first) + 1] = open
        /\ \A i \in 1..Len(list) : tags[Len(first) + 1 + i] = list[i]
        /\ tags[Len(first) + Len(list) + 2] = close
        /\ \A i \in 1..Len(behind) : tags[Len(first) + Len(list) + 2 + i] = behind[i]
    BY <2>2, <2>3, WriteTags, SMTT(30)
  <2>5. QED
    BY <2>1, <2>4
<1>7. /\ Len(tags) = start + n + Len(behind)
      /\ tags[1] = context(0, object) /\ tags[2] = context(1, property)
      /\ index = None => tags[3] = opening(3)
      /\ index # None => tags[3] = context(2, index)
      /\ \A i \in 1..n : tags[start + i - 1] = list[i]
      /\ tags[start + n] = closing(3)
      /\ Len(behind) = 1 => tags[start + n + 1] = behind[1]
  <2>1. CASE index = None
    BY <1>1, <1>2, <1>3, <1>6, <2>1, SMTT(30)
  <2>2. CASE index # None
    BY <1>1, <1>2, <1>3, <1>6, <2>2, SMTT(30)
  <2>3. QED
    BY <2>1, <2>2
<1>8. (tags[3].number = 2 /\ tags[3].kind = "value") <=> index # None
  <2>1. CASE index = None
    BY <1>7, <2>1 DEF opening, Tag
  <2>2. CASE index # None
    BY <1>7, <2>2 DEF context, Tag
  <2>3. QED
    BY <2>1, <2>2
<1>9. /\ Ends(tags, start) # {}
      /\ Min(Ends(tags, start)) = start + n
      /\ inside(tags, start) = list
  <2>1. start \in Nat \ {0} /\ start + n <= Len(tags)
    BY <1>3, <1>7
  <2>2. \A i \in 1..n : Depth(SubSeq(list, 1, i)) >= 0
    BY <1>1 DEF Complete
  <2>3. Depth(list) = 0 /\ tags[start + n].kind = "close"
    BY <1>7 DEF Complete, closing, Tag
  <2> HIDE DEF start
  <2>4. QED
    BY <1>1, <1>6, <1>7, <2>1, <2>2, <2>3, InsideIsWhole, ZenonT(120)
<1>10. (IF start + n < Len(tags) THEN tags[start + n + 1].body ELSE None) = priority
  <2>1. CASE priority = None
    BY <1>3, <1>7, <2>1
  <2>2. CASE priority # None
    <3>1. start + n \in Nat /\ Len(behind) = 1 /\ behind[1].body = priority
      BY <1>3, <2>2 DEF context, Tag
    <3> HIDE DEF start
    <3>2. QED
      BY <1>7, <3>1
  <2>3. QED
    BY <2>1, <2>2
<1>11. (IF index # None THEN tags[3].body ELSE None) = index
  BY <1>7 DEF context, Tag
<1>12. tags[1].body = object /\ tags[2].body = property /\ ~(Len(tags) < 3)
  BY <1>3, <1>7 DEF context, Tag
<1>13. QED
  BY <1>8, <1>9, <1>10, <1>11, <1>12 DEF parse_write_property_request, tags

\* The same of a read.
THEOREM ReadReadBack ==
  ASSUME NEW id, NEW object, NEW property, NEW index
  PROVE  parse_read_property_request(read_property_request(id, object, property, index))
         = [object |-> object, property |-> property, array_index |-> index]
<1> DEFINE tags == read_property_request(id, object, property, index).parameters
<1>1. tags = <<context(0, object), context(1, property)>> \o optional(2, index)
  BY DEF read_property_request, confirmed_request, APDU
<1>2. CASE index = None
  <2>1. tags = <<context(0, object), context(1, property)>>
    BY <1>1, <1>2 DEF optional
  <2>2. QED
    BY <1>2, <2>1 DEF parse_read_property_request, context, Tag
<1>3. CASE index # None
  <2>1. tags = <<context(0, object), context(1, property), context(2, index)>>
    BY <1>1, <1>3, TwoAndOne DEF optional
  <2>2. QED
    BY <1>3, <2>1 DEF parse_read_property_request, context, Tag, IsValue
<1>4. QED
  BY <1>2, <1>3

-----------------------------------------------------------------------------
\* What a client reads of an answer

\* read_property_value finds the value read_property_ack was given, whatever
\* it is and with an index or without.
THEOREM AckReadBack ==
  ASSUME NEW id, NEW object, NEW property, NEW index, NEW list, Complete(list)
  PROVE  read_property_value(read_property_ack(id, object, property, index, list)) = list
<1> DEFINE T == {list[i] : i \in DOMAIN list} \union
                {context(0, object), context(1, property), context(2, index), opening(3),
                 closing(3)}
           first == <<context(0, object), context(1, property)>> \o optional(2, index)
           tags == read_property_ack(id, object, property, index, list).parameters
           start == IF index = None THEN 4 ELSE 5
           opened == {i \in DOMAIN tags : IsOpening(tags[i], 3)}
<1>1. PICK n \in Nat : n = Len(list) /\ DOMAIN list = 1..n /\ list \in Seq(T)
  <2>1. list \in Seq({list[i] : i \in DOMAIN list})
    BY DEF Complete
  <2>2. Len(list) \in Nat /\ DOMAIN list = 1..Len(list) /\ list \in Seq(T)
    BY <2>1
  <2>3. QED
    BY <2>2
<1>2. /\ first \in Seq(T) /\ Len(first) = start - 2
      /\ first[1] = context(0, object) /\ first[2] = context(1, property)
      /\ index # None => first[3] = context(2, index)
  <2>1. CASE index = None
    <3>1. first = <<context(0, object), context(1, property)>>
      BY <2>1 DEF optional
    <3>2. context(0, object) \in T /\ context(1, property) \in T /\ start = 4
      BY <2>1
    <3> HIDE DEF T, first, start
    <3>3. QED
      BY <2>1, <3>1, <3>2
  <2>2. CASE index # None
    <3>1. first = <<context(0, object), context(1, property), context(2, index)>>
      BY <2>2, TwoAndOne DEF optional
    <3>2. /\ context(0, object) \in T /\ context(1, property) \in T /\ context(2, index) \in T
          /\ start = 5
      BY <2>2
    <3> HIDE DEF T, first, start
    <3>3. QED
      BY <2>2, <3>1, <3>2
  <2>3. QED
    BY <2>1, <2>2
<1>3. tags = (first \o (<<opening(3)>> \o list \o <<closing(3)>>)) \o <<>>
  <2>1. tags = first \o (<<opening(3)>> \o list \o <<closing(3)>>)
    BY DEF read_property_ack, APDU, constructed
  <2>2. opening(3) \in T /\ closing(3) \in T
    OBVIOUS
  <2> HIDE DEF T, first, tags
  <2>3. first \o (<<opening(3)>> \o list \o <<closing(3)>>) \in Seq(T)
    BY <1>1, <1>2, <2>2
  <2>4. QED
    BY <2>1, <2>3, ConcatEmptySeq
<1>4. opening(3) \in T /\ closing(3) \in T
  OBVIOUS
<1> HIDE DEF T, first, tags
<1>5. /\ tags \in Seq(T)
      /\ Len(tags) = Len(first) + Len(list) + 2
      /\ \A i \in 1..Len(first) : tags[i] = first[i]
      /\ tags[Len(first) + 1] = opening(3)
      /\ \A i \in 1..Len(list) : tags[Len(first) + 1 + i] = list[i]
      /\ tags[Len(first) + Len(list) + 2] = closing(3)
  <2>1. PICK open \in T, close \in T : open = opening(3) /\ close = closing(3)
    BY <1>4
  <2>2. PICK behind \in Seq(T) : behind = <<>> /\ Len(behind) = 0
    <3>1. <<>> \in Seq(T) /\ Len(<<>>) = 0
      OBVIOUS
    <3>2. QED
      BY <3>1
  <2>3. tags = (first \o (<<open>> \o list \o <<close>>)) \o behind
    BY <1>3, <2>1, <2>2
  <2>4. list \in Seq(T) /\ first \in Seq(T)
    BY <1>1, <1>2
  <2>5. /\ tags \in Seq(T)
        /\ Len(tags) = Len(first) + Len(list) + 2 + Len(behind)
        /\ \A i \in 1..Len(first) : tags[i] = first[i]
        /\ tags[Len(first) + 1] = open
        /\ \A i \in 1..Len(list) : tags[Len(first) + 1 + i] = list[i]
        /\ tags[Len(first) + Len(list) + 2] = close
    BY <2>3, <2>4, WriteTags, SMTT(30)
  <2>6. QED
    BY <2>1, <2>2, <2>4, <2>5
<1>6. /\ Len(tags) = start + n
      /\ tags[1] = context(0, object) /\ tags[2] = context(1, property)
      /\ index # None => tags[3] = context(2, index)
      /\ tags[start - 1] = opening(3)
      /\ \A i \in 1..n : tags[start + i - 1] = list[i]
      /\ tags[start + n] = closing(3)
  <2>1. CASE index = None
    <3>1. Len(first) = 2 /\ start = 4
      BY <1>2, <2>1
    <3>2. /\ Len(tags) = 2 + n + 2 /\ tags[3] = opening(3)
          /\ \A i \in 1..2 : tags[i] = first[i]
          /\ \A i \in 1..n : tags[3 + i] = list[i]
          /\ tags[2 + n + 2] = closing(3)
      BY <1>1, <1>5, <3>1
    <3>3. /\ 2 + n + 2 = 4 + n /\ 4 - 1 = 3
          /\ \A i \in 1..n : 4 + i - 1 = 3 + i
      BY <1>1
    <3> HIDE DEF start
    <3>4. /\ Len(tags) = 4 + n /\ tags[4 - 1] = opening(3) /\ tags[4 + n] = closing(3)
          /\ \A i \in 1..n : tags[4 + i - 1] = list[i]
      BY <3>2, <3>3
    <3>5. tags[1] = first[1] /\ tags[2] = first[2]
      BY <3>2
    <3>6. QED
      BY <1>2, <2>1, <3>1, <3>4, <3>5
  <2>2. CASE index # None
    <3>1. Len(first) = 3 /\ start = 5 /\ first[3] = context(2, index)
      BY <1>2, <2>2
    <3>2. /\ Len(tags) = 3 + n + 2 /\ tags[4] = opening(3)
          /\ \A i \in 1..3 : tags[i] = first[i]
          /\ \A i \in 1..n : tags[4 + i] = list[i]
          /\ tags[3 + n + 2] = closing(3)
      BY <1>1, <1>5, <3>1
    <3>3. /\ 3 + n + 2 = 5 + n /\ 5 - 1 = 4
          /\ \A i \in 1..n : 5 + i - 1 = 4 + i
      BY <1>1
    <3> HIDE DEF start
    <3>4. /\ Len(tags) = 5 + n /\ tags[5 - 1] = opening(3) /\ tags[5 + n] = closing(3)
          /\ \A i \in 1..n : tags[5 + i - 1] = list[i]
      BY <3>2, <3>3
    <3>5. tags[1] = first[1] /\ tags[2] = first[2] /\ tags[3] = first[3]
      BY <3>2
    <3>6. QED
      BY <1>2, <3>1, <3>4, <3>5
  <2>3. QED
    BY <2>1, <2>2
<1>7. inside(tags, start) = list
  <2>1. start \in Nat \ {0} /\ start + n <= Len(tags)
    BY <1>6
  <2>2. \A i \in 1..n : Depth(SubSeq(list, 1, i)) >= 0
    BY <1>1 DEF Complete
  <2>3. Depth(list) = 0 /\ tags[start + n].kind = "close"
    BY <1>6 DEF Complete, closing, Tag
  <2> HIDE DEF start
  <2>4. QED
    BY <1>1, <1>5, <1>6, <2>1, <2>2, <2>3, InsideIsWhole, ZenonT(30)
<1>8. opened # {} /\ Min(opened) + 1 = start
  <2>1. start - 1 \in opened
    <3>1. start - 1 \in DOMAIN tags
      BY <1>5, <1>6
    <3>2. IsOpening(tags[start - 1], 3)
      BY <1>6 DEF IsOpening, opening, Tag
    <3>3. QED
      BY <3>1, <3>2
  <2>2. \A i \in opened : start - 1 <= i
    <3>1. \A i \in 1..(start - 2) : ~IsOpening(tags[i], 3)
      BY <1>6 DEF IsOpening, context, Tag
    <3>2. DOMAIN tags = 1..Len(tags) /\ Len(tags) \in Nat
      BY <1>5
    <3>3. QED
      BY <3>1, <3>2
  <2>3. opened \subseteq Int
    BY <1>5
  <2>4. start \in Int
    OBVIOUS
  <2> HIDE DEF opened, start
  <2>5. Min(opened) = start - 1
    BY <2>1, <2>2, <2>3, <2>4, LeastIs
  <2>6. QED
    BY <2>1, <2>4, <2>5
<1> HIDE DEF start
<1>9. QED
  BY <1>7, <1>8 DEF read_property_value, tags

\* An error is read as the class and code it was made of.
LEMMA ErrorReadBack ==
  ASSUME NEW class, NEW code
  PROVE  error_class_and_code(error_parameters(class, code)) = <<class, code>>
<1> DEFINE tags == error_parameters(class, code)
           values == application_values(tags)
<1>1. /\ tags = <<application(TAG_ENUMERATED, class), application(TAG_ENUMERATED, code)>>
      /\ DOMAIN tags = {1, 2} /\ tags[1].body = class /\ tags[2].body = code
  BY DEF error_parameters, application, Tag
<1>2. values = {1, 2}
  BY <1>1 DEF application_values, application, Tag
<1> HIDE DEF tags, values
<1>3. Cardinality({1, 2}) = 2
  <2>1. IsFiniteSet({1}) /\ Cardinality({1}) = 1
    BY FS_Singleton
  <2>2. {1, 2} = {1} \union {2} /\ 2 \notin {1}
    OBVIOUS
  <2>3. QED
    BY <2>1, <2>2, FS_AddElement
<1>4. Min({1, 2}) = 1
  <2>1. 1 \in {1, 2} /\ {1, 2} \subseteq Int /\ \A i \in {1, 2} : 1 <= i
    OBVIOUS
  <2>2. QED
    BY <2>1, LeastIs
<1>5. {1, 2} \ {1} = {2} /\ Min({2}) = 2
  <2>1. 2 \in {2} /\ {2} \subseteq Int /\ \A i \in {2} : 2 <= i
    OBVIOUS
  <2>2. QED
    BY <2>1, LeastIs
<1>6. QED
  BY <1>1, <1>2, <1>3, <1>4, <1>5 DEF error_class_and_code, values, tags

-----------------------------------------------------------------------------
\* Lists one behind the other

LEMMA Shifted ==
  ASSUME NEW S, IsFiniteSet(S), S \subseteq Nat, NEW k \in Nat
  PROVE  /\ IsFiniteSet({k + i : i \in S})
         /\ Cardinality({k + i : i \in S}) = Cardinality(S)
<1> DEFINE T == {k + i : i \in S}
           f == [i \in S |-> k + i]
<1>1. f \in Bijection(S, T)
  <2>1. f \in [S -> T] /\ \A t \in T : \E i \in S : f[i] = t
    OBVIOUS
  <2>2. \A i, j \in S : f[i] = f[j] => i = j
    OBVIOUS
  <2>3. QED
    BY <2>1, <2>2 DEF Bijection, Injection, Surjection, IsInjective
<1>2. ExistsBijection(S, T)
  BY <1>1 DEF ExistsBijection
<1>3. QED
  BY <1>2, FS_Bijection

\* A list is read position by position.
LEMMA OneBehindOther ==
  ASSUME NEW T, NEW a \in Seq(T), NEW b \in Seq(T)
  PROVE  /\ a \o b \in Seq(T)
         /\ Len(a) \in Nat /\ Len(b) \in Nat /\ Len(a \o b) = Len(a) + Len(b)
         /\ DOMAIN a = 1..Len(a) /\ DOMAIN b = 1..Len(b)
         /\ DOMAIN (a \o b) = 1..(Len(a) + Len(b))
         /\ \A i \in 1..Len(a) : (a \o b)[i] = a[i]
         /\ \A i \in 1..Len(b) : (a \o b)[Len(a) + i] = b[i]
<1>1. PICK p \in Nat, q \in Nat : p = Len(a) /\ q = Len(b)
  OBVIOUS
<1> DEFINE t == a \o b
<1>2. /\ t \in Seq(T) /\ Len(t) = p + q
      /\ \A i \in 1..(p + q) : t[i] = IF i <= p THEN a[i] ELSE b[i - p]
  BY <1>1, ConcatProperties
<1> HIDE DEF t
<1>3. \A i \in 1..p : i \in 1..(p + q) /\ i <= p
  BY <1>1
<1>4. \A i \in 1..q : p + i \in 1..(p + q) /\ ~(p + i <= p) /\ (p + i) - p = i
  BY <1>1
<1>5. /\ \A i \in 1..p : t[i] = a[i]
      /\ \A i \in 1..q : t[p + i] = b[i]
  BY <1>2, <1>3, <1>4
<1>6. DOMAIN a = 1..p /\ DOMAIN b = 1..q /\ DOMAIN t = 1..(p + q)
  BY <1>1, <1>2
<1>7. QED
  BY <1>1, <1>2, <1>5, <1>6 DEF t

\* The positions of a set among the first p and among the q behind them.
Before(p, C)    == {i \in 1..p : i \in C}
Behind(p, q, C) == {i \in 1..q : p + i \in C}

LEMMA CountedInBoth ==
  ASSUME NEW p \in Nat, NEW q \in Nat, NEW C, C \subseteq 1..(p + q)
  PROVE  Cardinality(C) = Cardinality(Before(p, C)) + Cardinality(Behind(p, q, C))
<1> DEFINE A == {i \in 1..p : i \in C}
           B == {i \in 1..q : p + i \in C}
           D == {p + i : i \in B}
<1>1. IsFiniteSet(A) /\ IsFiniteSet(B)
  <2>1. IsFiniteSet(1..p) /\ IsFiniteSet(1..q)
    BY FS_Interval
  <2>2. QED
    BY <2>1, FS_Subset
<1>2. IsFiniteSet(D) /\ Cardinality(D) = Cardinality(B)
  <2>1. B \subseteq Nat
    OBVIOUS
  <2>2. QED
    BY <1>1, <2>1, Shifted
<1>3. C = A \union D
  <2>1. ASSUME NEW i \in C PROVE i \in A \union D
    <3>1. CASE i \in 1..p
      BY <2>1, <3>1
    <3>2. CASE i \notin 1..p
      <4>1. i - p \in 1..q /\ i = p + (i - p)
        BY <3>2
      <4>2. i - p \in B
        BY <2>1, <4>1
      <4>3. QED
        BY <4>1, <4>2
    <3>3. QED
      BY <3>1, <3>2
  <2>2. ASSUME NEW i \in A PROVE i \in C
    OBVIOUS
  <2>3. ASSUME NEW i \in D PROVE i \in C
    <3>1. PICK j \in B : i = p + j
      OBVIOUS
    <3>2. j \in 1..q
      OBVIOUS
    <3>3. QED
      BY <3>1, <3>2
  <2> HIDE DEF D
  <2>4. QED
    BY <2>1, <2>2, <2>3
<1>4. A \intersect D = {}
  OBVIOUS
<1> HIDE DEF A, B, D
<1>5. Cardinality(A) \in Nat /\ Cardinality(D) \in Nat
  BY <1>1, <1>2, FS_CardinalityType
<1>6. Cardinality(A \union D) = Cardinality(A) + Cardinality(D) - Cardinality(A \intersect D)
  BY <1>1, <1>2, FS_Union
<1>7. Cardinality(A \intersect D) = 0
  BY <1>4, FS_EmptySet
<1>8. Cardinality(C) = Cardinality(A) + Cardinality(B)
  BY <1>2, <1>3, <1>5, <1>6, <1>7
<1>9. QED
  BY <1>8 DEF A, B, Before, Behind

LEMMA DepthOfBoth ==
  ASSUME NEW T, NEW a \in Seq(T), NEW b \in Seq(T)
  PROVE  Depth(a \o b) = Depth(a) + Depth(b) /\ Depth(a) \in Int /\ Depth(b) \in Int
<1>1. PICK p \in Nat, q \in Nat : p = Len(a) /\ q = Len(b)
  OBVIOUS
<1> DEFINE t == a \o b
<1>2. /\ t \in Seq(T) /\ DOMAIN a = 1..p /\ DOMAIN b = 1..q /\ DOMAIN t = 1..(p + q)
      /\ \A i \in 1..p : t[i] = a[i]
      /\ \A i \in 1..q : t[p + i] = b[i]
  BY <1>1, OneBehindOther
<1> HIDE DEF t
<1>3. /\ \A i \in 1..p : i \in 1..(p + q)
      /\ \A i \in 1..q : p + i \in 1..(p + q)
  OBVIOUS
<1>9. /\ IsFiniteSet(Opened(a)) /\ Cardinality(Opened(a)) \in Nat
      /\ IsFiniteSet(Closed(a)) /\ Cardinality(Closed(a)) \in Nat
      /\ IsFiniteSet(Opened(b)) /\ Cardinality(Opened(b)) \in Nat
      /\ IsFiniteSet(Closed(b)) /\ Cardinality(Closed(b)) \in Nat
  BY Counted
<1>11. Cardinality(Opened(t)) = Cardinality(Opened(a)) + Cardinality(Opened(b))
  <2>1. /\ Opened(t) \subseteq 1..(p + q)
        /\ Opened(a) = Before(p, Opened(t)) /\ Opened(b) = Behind(p, q, Opened(t))
    BY <1>2, <1>3 DEF Opened, Before, Behind
  <2>2. QED
    BY <2>1, CountedInBoth
<1>12. Cardinality(Closed(t)) = Cardinality(Closed(a)) + Cardinality(Closed(b))
  <2>1. /\ Closed(t) \subseteq 1..(p + q)
        /\ Closed(a) = Before(p, Closed(t)) /\ Closed(b) = Behind(p, q, Closed(t))
    BY <1>2, <1>3 DEF Closed, Before, Behind
  <2>2. QED
    BY <2>1, CountedInBoth
<1>13. /\ Depth(t) = Cardinality(Opened(t)) - Cardinality(Closed(t))
       /\ Depth(a) = Cardinality(Opened(a)) - Cardinality(Closed(a))
       /\ Depth(b) = Cardinality(Opened(b)) - Cardinality(Closed(b))
  BY DEF Depth, Opened, Closed
<1>14. QED
  BY <1>9, <1>11, <1>12, <1>13 DEF t

\* How deep it is behind the i-th tag.
At(tags, i) == Depth(SubSeq(tags, 1, i))

LEMMA DepthsOfBoth ==
  ASSUME NEW T, NEW a \in Seq(T), NEW b \in Seq(T)
  PROVE  /\ \A i \in 1..Len(a) : At(a \o b, i) = At(a, i)
         /\ \A i \in 1..Len(b) : At(a \o b, Len(a) + i) = Depth(a) + At(b, i)
<1>1. PICK p \in Nat, q \in Nat : p = Len(a) /\ q = Len(b)
  OBVIOUS
<1>2. PICK t \in Seq(T) : t = a \o b
  BY ConcatProperties
<1>3. /\ Len(t) = p + q /\ DOMAIN a = 1..p /\ DOMAIN b = 1..q /\ DOMAIN t = 1..(p + q)
      /\ \A i \in 1..p : t[i] = a[i]
      /\ \A i \in 1..q : t[p + i] = b[i]
  BY <1>1, <1>2, OneBehindOther
<1>4. ASSUME NEW i \in 1..p PROVE At(t, i) = At(a, i)
  <2>1. /\ SubSeq(a, 1, i) \in Seq(T) /\ Len(SubSeq(a, 1, i)) = i
        /\ \A j \in 1..i : SubSeq(a, 1, i)[j] = a[j]
    BY <1>1, SubSeqProperties
  <2>2. /\ SubSeq(t, 1, i) \in Seq(T) /\ Len(SubSeq(t, 1, i)) = i
        /\ \A j \in 1..i : SubSeq(t, 1, i)[j] = t[j]
    BY <1>3, SubSeqProperties
  <2>3. \A j \in 1..i : t[j] = a[j]
    BY <1>3
  <2>4. SubSeq(t, 1, i) = SubSeq(a, 1, i)
    BY <2>1, <2>2, <2>3, SeqEqual
  <2>5. QED
    BY <2>4 DEF At
<1>5. ASSUME NEW i \in 1..q PROVE At(t, p + i) = Depth(a) + At(b, i)
  <2>1. /\ SubSeq(b, 1, i) \in Seq(T) /\ Len(SubSeq(b, 1, i)) = i
        /\ \A j \in 1..i : SubSeq(b, 1, i)[j] = b[j]
    BY <1>1, SubSeqProperties
  <2>2. PICK s \in Seq(T) : s = SubSeq(b, 1, i) /\ Len(s) = i /\ \A j \in 1..i : s[j] = b[j]
    BY <2>1
  <2>3. /\ SubSeq(t, 1, p + i) \in Seq(T) /\ Len(SubSeq(t, 1, p + i)) = p + i
        /\ \A j \in 1..(p + i) : SubSeq(t, 1, p + i)[j] = t[j]
    <3>1. p + i \in 1..(p + q) /\ 1 <= p + i /\ (p + i) - 1 + 1 = p + i
      OBVIOUS
    <3>2. \A j \in 1..(p + i) : t[j] \in T /\ 1 + j - 1 = j
      BY <1>3, <3>1
    <3>3. QED
      BY <3>1, <3>2, SubSeqProperties
  <2>4. /\ a \o s \in Seq(T) /\ Len(a \o s) = p + i
        /\ \A j \in 1..p : (a \o s)[j] = a[j]
        /\ \A j \in 1..i : (a \o s)[p + j] = s[j]
    BY <1>1, <2>2, OneBehindOther
  <2>5. ASSUME NEW j \in 1..(p + i) PROVE SubSeq(t, 1, p + i)[j] = (a \o s)[j]
    <3>1. CASE j \in 1..p
      BY <1>3, <2>3, <2>4, <3>1
    <3>2. CASE j \notin 1..p
      <4>1. PICK k \in 1..i : j = p + k
        <5>1. j - p \in 1..i /\ j = p + (j - p)
          BY <3>2
        <5>2. QED
          BY <5>1
      <4>2. k \in 1..q
        OBVIOUS
      <4>3. QED
        BY <1>3, <2>2, <2>3, <2>4, <4>1, <4>2
    <3>3. QED
      BY <3>1, <3>2
  <2>6. SubSeq(t, 1, p + i) = a \o s
    BY <2>3, <2>4, <2>5, SeqEqual
  <2>7. QED
    BY <2>2, <2>6, DepthOfBoth DEF At
<1>6. QED
  BY <1>1, <1>2, <1>4, <1>5

LEMMA OwnTags ==
  ASSUME NEW T, NEW tags \in Seq(T)
  PROVE  /\ tags \in Seq({tags[i] : i \in DOMAIN tags})
         /\ Len(tags) \in Nat /\ DOMAIN tags = 1..Len(tags)
<1> DEFINE S == {tags[i] : i \in DOMAIN tags}
<1>1. Len(tags) \in Nat /\ DOMAIN tags = 1..Len(tags)
  OBVIOUS
<1>2. \A i \in 1..Len(tags) : tags[i] \in S
  BY <1>1
<1>3. tags = [i \in 1..Len(tags) |-> tags[i]]
  BY <1>1
<1>4. tags \in [1..Len(tags) -> S]
  BY <1>2, <1>3
<1>5. tags \in Seq(S)
  BY <1>1, <1>4, SeqDef
<1>6. QED
  BY <1>1, <1>5

\* The tags of a value whose tags are all values.
LEMMA Flat ==
  ASSUME NEW T, NEW tags \in Seq(T), \A i \in DOMAIN tags : tags[i].kind = "value"
  PROVE  Complete(tags) /\ \A i \in DOMAIN tags : At(tags, i) = 0
<1>1. ASSUME NEW list \in Seq(T), \A i \in DOMAIN list : list[i].kind = "value"
      PROVE  Depth(list) = 0
  <2>1. Opened(list) = {} /\ Closed(list) = {}
    BY <1>1 DEF Opened, Closed
  <2>2. Depth(list) = Cardinality(Opened(list)) - Cardinality(Closed(list))
    BY DEF Depth, Opened, Closed
  <2>3. QED
    BY <2>1, <2>2, FS_EmptySet
<1>2. Depth(tags) = 0
  BY <1>1
<1>3. ASSUME NEW i \in DOMAIN tags PROVE At(tags, i) = 0
  <2>1. PICK list : list = SubSeq(tags, 1, i)
    OBVIOUS
  <2>2. list \in Seq(T) /\ Len(list) = i /\ \A j \in 1..i : list[j] = tags[j]
    BY <2>1, SubSeqProperties
  <2>3. \A j \in DOMAIN list : list[j].kind = "value"
    BY <2>2
  <2>4. QED
    BY <1>1, <2>1, <2>2, <2>3 DEF At
<1>4. \A i \in DOMAIN tags : Depth(SubSeq(tags, 1, i)) >= 0
  BY <1>3 DEF At
<1>5. QED
  BY <1>2, <1>3, <1>4, OwnTags DEF Complete

-----------------------------------------------------------------------------
\* The fields of a message

\* The context tags that are not inside others, by number and content.
Fields(tags) == {<<tags[i].number, tags[i].body>> : i \in TopLevel(tags)}

\* The numbers of what is opened.
OpenNumbers(tags) == {tags[i].number : i \in Opened(tags)}

LEMMA FlatFields ==
  ASSUME NEW T, NEW tags \in Seq(T),
         \A i \in DOMAIN tags : tags[i].kind = "value" /\ tags[i].context
  PROVE  /\ Fields(tags) = {<<tags[i].number, tags[i].body>> : i \in DOMAIN tags}
         /\ OpenNumbers(tags) = {}
<1>1. TopLevel(tags) = DOMAIN tags
  BY Flat DEF TopLevel, At
<1>2. QED
  BY <1>1 DEF Fields, OpenNumbers, Opened

LEMMA FieldsOfBoth ==
  ASSUME NEW a, NEW b, Complete(a), Complete(b)
  PROVE  /\ Complete(a \o b)
         /\ Fields(a \o b) = Fields(a) \union Fields(b)
         /\ OpenNumbers(a \o b) = OpenNumbers(a) \union OpenNumbers(b)
<1>1. PICK T : a \in Seq(T) /\ b \in Seq(T)
  <2> DEFINE T == {a[i] : i \in DOMAIN a} \union {b[i] : i \in DOMAIN b}
  <2>1. a \in Seq({a[i] : i \in DOMAIN a}) /\ b \in Seq({b[i] : i \in DOMAIN b})
    BY DEF Complete
  <2>2. a \in Seq(T) /\ b \in Seq(T)
    BY <2>1
  <2>3. QED
    BY <2>2
<1>2. PICK p \in Nat, q \in Nat : p = Len(a) /\ q = Len(b)
  BY <1>1
<1>3. PICK t : t = a \o b
  OBVIOUS
<1>4. /\ t \in Seq(T) /\ DOMAIN a = 1..p /\ DOMAIN b = 1..q /\ DOMAIN t = 1..(p + q)
      /\ \A i \in 1..p : t[i] = a[i]
      /\ \A i \in 1..q : t[p + i] = b[i]
  BY <1>1, <1>2, <1>3, OneBehindOther
<1>5. /\ \A i \in 1..p : At(t, i) = At(a, i) /\ At(t, i) >= 0
      /\ \A i \in 1..q : At(t, p + i) = At(b, i) /\ At(t, p + i) >= 0
      /\ Depth(t) = 0
  <2>1. Depth(a) = 0 /\ Depth(b) = 0
    BY DEF Complete
  <2>2. \A i \in 1..p : At(t, i) = At(a, i)
    BY <1>1, <1>2, <1>3, DepthsOfBoth
  <2>3. \A i \in 1..q : At(t, p + i) = Depth(a) + At(b, i)
    BY <1>1, <1>2, <1>3, DepthsOfBoth
  <2>4. Depth(t) = 0
    BY <1>1, <1>3, <2>1, DepthOfBoth
  <2>5. \A i \in 1..p : At(a, i) >= 0
    BY <1>4 DEF Complete, At
  <2>6. \A i \in 1..q : At(b, i) >= 0
    BY <1>4 DEF Complete, At
  <2>7. \A i \in 1..q : At(b, i) \in Int
    <3>1. ASSUME NEW i \in 1..q PROVE SubSeq(b, 1, i) \in Seq(T)
      BY <1>1, <1>4, SubSeqProperties
    <3>2. QED
      BY <1>1, <3>1, DepthOfBoth DEF At
  <2>8. QED
    BY <2>1, <2>2, <2>3, <2>4, <2>5, <2>6, <2>7
<1>6. \A i \in 1..(p + q) : i \in 1..p \/ \E j \in 1..q : i = p + j
  <2>1. ASSUME NEW i \in 1..(p + q), i \notin 1..p PROVE \E j \in 1..q : i = p + j
    <3>1. i - p \in 1..q /\ i = p + (i - p)
      BY <2>1
    <3>2. QED
      BY <3>1
  <2>2. QED
    BY <2>1
<1>7. /\ \A i \in 1..p : i \in 1..(p + q)
      /\ \A i \in 1..q : p + i \in 1..(p + q)
  OBVIOUS
<1>8. Complete(t)
  <2>1. \A i \in DOMAIN t : At(t, i) >= 0
    BY <1>4, <1>5, <1>6
  <2>2. QED
    BY <1>4, <1>5, <2>1, OwnTags DEF Complete, At
<1>9. /\ \A i \in 1..p : i \in TopLevel(t) <=> i \in TopLevel(a)
      /\ \A i \in 1..q : p + i \in TopLevel(t) <=> i \in TopLevel(b)
      /\ TopLevel(t) \subseteq 1..(p + q) /\ TopLevel(a) \subseteq 1..p
      /\ TopLevel(b) \subseteq 1..q
  <2>1. \A i \in 1..p : i \in TopLevel(t) <=> i \in TopLevel(a)
    BY <1>4, <1>5, <1>7 DEF TopLevel, At
  <2>2. \A i \in 1..q : p + i \in TopLevel(t) <=> i \in TopLevel(b)
    BY <1>4, <1>5, <1>7 DEF TopLevel, At
  <2>3. QED
    BY <1>4, <2>1, <2>2 DEF TopLevel
<1>10. Fields(t) = Fields(a) \union Fields(b)
  <2>1. ASSUME NEW i \in TopLevel(t)
        PROVE  <<t[i].number, t[i].body>> \in Fields(a) \union Fields(b)
    <3>1. CASE i \in 1..p
      BY <1>4, <1>9, <3>1 DEF Fields
    <3>2. CASE \E j \in 1..q : i = p + j
      BY <1>4, <1>9, <3>2 DEF Fields
    <3>3. QED
      BY <1>6, <1>9, <3>1, <3>2
  <2>2. ASSUME NEW i \in TopLevel(a) PROVE <<a[i].number, a[i].body>> \in Fields(t)
    BY <1>4, <1>9 DEF Fields
  <2>3. ASSUME NEW i \in TopLevel(b) PROVE <<b[i].number, b[i].body>> \in Fields(t)
    <3>1. p + i \in TopLevel(t) /\ t[p + i] = b[i]
      BY <1>4, <1>9
    <3>2. QED
      BY <3>1 DEF Fields
  <2>4. Fields(t) \subseteq Fields(a) \union Fields(b)
    BY <2>1 DEF Fields
  <2>5. Fields(a) \subseteq Fields(t) /\ Fields(b) \subseteq Fields(t)
    BY <2>2, <2>3 DEF Fields
  <2>6. QED
    BY <2>4, <2>5
<1>11. /\ \A i \in 1..p : i \in Opened(t) <=> i \in Opened(a)
       /\ \A i \in 1..q : p + i \in Opened(t) <=> i \in Opened(b)
       /\ Opened(t) \subseteq 1..(p + q) /\ Opened(a) \subseteq 1..p
       /\ Opened(b) \subseteq 1..q
  BY <1>4, <1>7 DEF Opened
<1>12. OpenNumbers(t) = OpenNumbers(a) \union OpenNumbers(b)
  <2>1. ASSUME NEW i \in Opened(t)
        PROVE  t[i].number \in OpenNumbers(a) \union OpenNumbers(b)
    <3>1. CASE i \in 1..p
      BY <1>4, <1>11, <3>1 DEF OpenNumbers
    <3>2. CASE \E j \in 1..q : i = p + j
      BY <1>4, <1>11, <3>2 DEF OpenNumbers
    <3>3. QED
      BY <1>6, <1>11, <3>1, <3>2
  <2>2. ASSUME NEW i \in Opened(a) PROVE a[i].number \in OpenNumbers(t)
    BY <1>4, <1>11 DEF OpenNumbers
  <2>3. ASSUME NEW i \in Opened(b) PROVE b[i].number \in OpenNumbers(t)
    <3>1. p + i \in Opened(t) /\ t[p + i] = b[i]
      BY <1>4, <1>11
    <3>2. QED
      BY <3>1 DEF OpenNumbers
  <2>4. OpenNumbers(t) \subseteq OpenNumbers(a) \union OpenNumbers(b)
    BY <2>1 DEF OpenNumbers
  <2>5. OpenNumbers(a) \subseteq OpenNumbers(t) /\ OpenNumbers(b) \subseteq OpenNumbers(t)
    BY <2>2, <2>3 DEF OpenNumbers
  <2>6. QED
    BY <2>4, <2>5
<1>13. QED
  BY <1>3, <1>8, <1>10, <1>12

\* The tags of a constructed value, which has no fields of its own.
LEMMA ConstructedTags ==
  ASSUME NEW T, NEW n, NEW list \in Seq(T), opening(n) \in T, closing(n) \in T
  PROVE  LET tags == constructed(n, list)
         IN  /\ tags \in Seq(T) /\ Len(tags) = Len(list) + 2 /\ Len(list) \in Nat
             /\ DOMAIN tags = 1..(Len(list) + 2)
             /\ tags[1] = opening(n) /\ At(tags, 1) = 1
             /\ \A i \in 1..Len(list) : /\ tags[1 + i] = list[i]
                                        /\ At(tags, 1 + i) = 1 + At(list, i)
             /\ tags[Len(list) + 2] = closing(n)
             /\ At(tags, Len(list) + 2) = Depth(list) /\ Depth(tags) = Depth(list)
<1>1. PICK m \in Nat : m = Len(list)
  OBVIOUS
<1>2. PICK open \in T, close \in T : open = opening(n) /\ close = closing(n)
  OBVIOUS
<1>3. open.kind = "open" /\ close.kind = "close"
  BY <1>2 DEF opening, closing, Tag
<1>4. PICK one \in Seq(T) : one = <<open>> /\ Len(one) = 1 /\ one[1] = open
  <2>1. <<open>> \in Seq(T) /\ Len(<<open>>) = 1 /\ <<open>>[1] = open
    OBVIOUS
  <2>2. QED
    BY <2>1
<1>5. PICK last \in Seq(T) : last = <<close>> /\ Len(last) = 1 /\ last[1] = close
  <2>1. <<close>> \in Seq(T) /\ Len(<<close>>) = 1 /\ <<close>>[1] = close
    OBVIOUS
  <2>2. QED
    BY <2>1
<1>6. Depth(one) = 1 /\ SubSeq(one, 1, 1) = one
  <2>1. DOMAIN one = {1}
    BY <1>4
  <2>2. Opened(one) = {1} /\ Closed(one) = {}
    BY <1>3, <1>4, <2>1 DEF Opened, Closed
  <2>3. Depth(one) = Cardinality(Opened(one)) - Cardinality(Closed(one))
    BY DEF Depth, Opened, Closed
  <2>4. Cardinality({}) = 0 /\ Cardinality({1}) = 1
    BY FS_EmptySet, FS_Singleton
  <2>5. Depth(one) = 1
    BY <2>2, <2>3, <2>4
  <2>6. SubSeq(one, 1, 1) = one
    <3>1. /\ SubSeq(one, 1, 1) \in Seq(T) /\ Len(SubSeq(one, 1, 1)) = 1
          /\ SubSeq(one, 1, 1)[1] = one[1]
      BY <1>4, SubSeqProperties
    <3>2. ASSUME NEW j \in 1..1 PROVE SubSeq(one, 1, 1)[j] = one[j]
      <4>1. j = 1
        OBVIOUS
      <4>2. QED
        BY <3>1, <4>1
    <3>3. one \in Seq(T) /\ Len(one) = 1
      BY <1>4
    <3>4. QED
      BY <3>1, <3>2, <3>3, SeqEqual
  <2>7. QED
    BY <2>5, <2>6
<1>7. Depth(last) = -1 /\ SubSeq(last, 1, 1) = last
  <2>1. DOMAIN last = {1}
    BY <1>5
  <2>2. Opened(last) = {} /\ Closed(last) = {1}
    BY <1>3, <1>5, <2>1 DEF Opened, Closed
  <2>3. Depth(last) = Cardinality(Opened(last)) - Cardinality(Closed(last))
    BY DEF Depth, Opened, Closed
  <2>4. Cardinality({}) = 0 /\ Cardinality({1}) = 1
    BY FS_EmptySet, FS_Singleton
  <2>5. Depth(last) = -1
    BY <2>2, <2>3, <2>4
  <2>6. SubSeq(last, 1, 1) = last
    <3>1. /\ SubSeq(last, 1, 1) \in Seq(T) /\ Len(SubSeq(last, 1, 1)) = 1
          /\ SubSeq(last, 1, 1)[1] = last[1]
      BY <1>5, SubSeqProperties
    <3>2. ASSUME NEW j \in 1..1 PROVE SubSeq(last, 1, 1)[j] = last[j]
      <4>1. j = 1
        OBVIOUS
      <4>2. QED
        BY <3>1, <4>1
    <3>3. last \in Seq(T) /\ Len(last) = 1
      BY <1>5
    <3>4. QED
      BY <3>1, <3>2, <3>3, SeqEqual
  <2>7. QED
    BY <2>5, <2>6
<1>8. PICK front : front = one \o list
  OBVIOUS
<1>9. /\ front \in Seq(T) /\ Len(front) = 1 + m /\ front[1] = open
      /\ \A i \in 1..m : front[1 + i] = list[i]
      /\ At(front, 1) = 1
      /\ \A i \in 1..m : At(front, 1 + i) = 1 + At(list, i)
      /\ Depth(front) = 1 + Depth(list) /\ Depth(list) \in Int
  <2>1. /\ front \in Seq(T) /\ Len(front) = 1 + m
        /\ \A i \in 1..1 : front[i] = one[i]
        /\ \A i \in 1..m : front[1 + i] = list[i]
    BY <1>1, <1>4, <1>8, OneBehindOther
  <2>2. /\ \A i \in 1..1 : At(front, i) = At(one, i)
        /\ \A i \in 1..m : At(front, 1 + i) = Depth(one) + At(list, i)
    <3>1. /\ \A i \in 1..Len(one) : At(one \o list, i) = At(one, i)
          /\ \A i \in 1..Len(list) : At(one \o list, Len(one) + i) = Depth(one) + At(list, i)
      BY DepthsOfBoth
    <3>2. QED
      BY <1>1, <1>4, <1>8, <3>1
  <2>3. Depth(front) = Depth(one) + Depth(list) /\ Depth(list) \in Int
    BY <1>4, <1>8, DepthOfBoth
  <2>4. At(one, 1) = 1
    BY <1>6 DEF At
  <2>5. QED
    BY <1>4, <1>6, <2>1, <2>2, <2>3, <2>4
<1>10. PICK tags : tags = front \o last
  OBVIOUS
<1>11. /\ tags \in Seq(T) /\ Len(tags) = m + 2 /\ DOMAIN tags = 1..(m + 2)
       /\ tags[1] = open /\ At(tags, 1) = 1
       /\ \A i \in 1..m : tags[1 + i] = list[i] /\ At(tags, 1 + i) = 1 + At(list, i)
       /\ tags[m + 2] = close /\ At(tags, m + 2) = Depth(list)
       /\ Depth(tags) = Depth(list)
  <2>1. /\ tags \in Seq(T) /\ Len(tags) = m + 2 /\ DOMAIN tags = 1..(m + 2)
        /\ \A i \in 1..(1 + m) : tags[i] = front[i]
        /\ \A i \in 1..1 : tags[1 + m + i] = last[i]
    BY <1>5, <1>9, <1>10, OneBehindOther
  <2>2. /\ \A i \in 1..(1 + m) : At(tags, i) = At(front, i)
        /\ \A i \in 1..1 : At(tags, 1 + m + i) = Depth(front) + At(last, i)
    <3>1. /\ \A i \in 1..Len(front) : At(front \o last, i) = At(front, i)
          /\ \A i \in 1..Len(last) : At(front \o last, Len(front) + i) = Depth(front) + At(last, i)
      <4>1. front \in Seq(T) /\ last \in Seq(T)
        BY <1>5, <1>9
      <4>2. QED
        BY <4>1, DepthsOfBoth
    <3>2. QED
      BY <1>5, <1>9, <1>10, <3>1
  <2>3. Depth(tags) = Depth(list)
    <3>1. Depth(front \o last) = Depth(front) + Depth(last)
      BY <1>9, DepthOfBoth
    <3>2. QED
      BY <1>7, <1>9, <1>10, <3>1
  <2>4. At(last, 1) = -1
    BY <1>7 DEF At
  <2>5. 1 \in 1..(1 + m) /\ (\A i \in 1..m : 1 + i \in 1..(1 + m)) /\ 1 + m + 1 = m + 2
    OBVIOUS
  <2>6. tags[m + 2] = close /\ At(tags, m + 2) = Depth(list)
    BY <1>5, <1>9, <2>1, <2>2, <2>4, <2>5
  <2>7. QED
    BY <1>9, <2>1, <2>2, <2>3, <2>5, <2>6
<1>12. tags = constructed(n, list)
  BY <1>2, <1>4, <1>5, <1>8, <1>10 DEF constructed
<1>13. QED
  BY <1>1, <1>2, <1>11, <1>12

LEMMA NestedFields ==
  ASSUME NEW n, NEW list, Complete(list)
  PROVE  /\ Complete(constructed(n, list))
         /\ Fields(constructed(n, list)) = {}
         /\ OpenNumbers(constructed(n, list)) = {n} \union OpenNumbers(list)
<1>1. PICK T : list \in Seq(T) /\ opening(n) \in T /\ closing(n) \in T
  <2> DEFINE T == {list[i] : i \in DOMAIN list} \union {opening(n), closing(n)}
  <2>1. list \in Seq({list[i] : i \in DOMAIN list})
    BY DEF Complete
  <2>2. list \in Seq(T)
    BY <2>1
  <2>3. QED
    BY <2>2
<1>2. PICK m \in Nat : m = Len(list)
  BY <1>1
<1>3. PICK tags : tags = constructed(n, list)
  OBVIOUS
<1>4. /\ tags \in Seq(T) /\ DOMAIN tags = 1..(m + 2)
      /\ tags[1] = opening(n) /\ At(tags, 1) = 1
      /\ \A i \in 1..m : tags[1 + i] = list[i] /\ At(tags, 1 + i) = 1 + At(list, i)
      /\ tags[m + 2] = closing(n) /\ At(tags, m + 2) = Depth(list) /\ Depth(tags) = Depth(list)
  BY <1>1, <1>2, <1>3, ConstructedTags
<1>5. DOMAIN list = 1..m /\ Depth(list) = 0
  BY <1>1, <1>2 DEF Complete
<1>6. \A i \in 1..m : At(list, i) >= 0 /\ At(list, i) \in Int
  <2>1. \A i \in 1..m : At(list, i) >= 0
    BY <1>5 DEF Complete, At
  <2>2. ASSUME NEW i \in 1..m PROVE SubSeq(list, 1, i) \in Seq(T)
    BY <1>1, <1>2, SubSeqProperties
  <2>3. QED
    BY <1>1, <2>1, <2>2, DepthOfBoth DEF At
<1>7. \A i \in 1..(m + 2) : i = 1 \/ i = m + 2 \/ \E j \in 1..m : i = 1 + j
  <2>1. ASSUME NEW i \in 1..(m + 2), i # 1, i # m + 2 PROVE \E j \in 1..m : i = 1 + j
    <3>1. i - 1 \in 1..m /\ i = 1 + (i - 1)
      BY <2>1
    <3>2. QED
      BY <3>1
  <2>2. QED
    BY <2>1
<1>8. /\ tags[1].kind = "open" /\ tags[1].number = n /\ tags[m + 2].kind = "close"
      /\ 1 \in 1..(m + 2) /\ m + 2 \in 1..(m + 2) /\ \A j \in 1..m : 1 + j \in 1..(m + 2)
  BY <1>4 DEF opening, closing, Tag
<1>9. ASSUME NEW j \in 1..m PROVE At(tags, 1 + j) >= 1
  <2>1. At(tags, 1 + j) = 1 + At(list, j) /\ At(list, j) >= 0 /\ At(list, j) \in Int
    BY <1>4, <1>6
  <2>2. \A x \in Int : x >= 0 => 1 + x >= 1
    OBVIOUS
  <2>3. QED
    BY <2>1, <2>2
<1>10. Complete(tags)
  <2>1. \A i \in DOMAIN tags : At(tags, i) >= 0
    <3>1. At(tags, 1) >= 0 /\ At(tags, m + 2) >= 0
      BY <1>4, <1>5
    <3>2. ASSUME NEW j \in 1..m PROVE At(tags, 1 + j) >= 0
      <4>1. At(tags, 1 + j) = 1 + At(list, j) /\ At(list, j) >= 0 /\ At(list, j) \in Int
        BY <1>4, <1>6
      <4>2. \A x \in Int : x >= 0 => 1 + x >= 0
        OBVIOUS
      <4>3. QED
        BY <4>1, <4>2
    <3>3. QED
      BY <1>4, <1>7, <3>1, <3>2
  <2>2. QED
    BY <1>4, <1>5, <2>1, OwnTags DEF Complete, At
<1>11. Fields(tags) = {}
  <2>1. ASSUME NEW i \in DOMAIN tags PROVE ~(tags[i].kind = "value" /\ At(tags, i) = 0)
    <3>1. CASE i = 1 \/ i = m + 2
      BY <1>8, <3>1
    <3>2. CASE \E j \in 1..m : i = 1 + j
      <4>1. PICK j \in 1..m : i = 1 + j
        BY <3>2
      <4>2. PICK y : y = At(tags, i) /\ y >= 1
        BY <1>9, <4>1
      <4>3. y # 0
        BY <4>2
      <4>4. QED
        BY <4>2, <4>3
    <3>3. QED
      BY <1>4, <1>7, <3>1, <3>2
  <2>2. TopLevel(tags) = {}
    BY <2>1 DEF TopLevel, At
  <2>3. QED
    BY <2>2 DEF Fields
<1>12. OpenNumbers(tags) = {n} \union OpenNumbers(list)
  <2>1. 1 \in Opened(tags)
    BY <1>4, <1>8 DEF Opened
  <2>2. \A j \in 1..m : 1 + j \in Opened(tags) <=> j \in Opened(list)
    BY <1>4, <1>5, <1>8 DEF Opened
  <2>3. m + 2 \notin Opened(tags) /\ Opened(tags) \subseteq 1..(m + 2) /\ Opened(list) \subseteq 1..m
    BY <1>4, <1>5, <1>8 DEF Opened
  <2>4. ASSUME NEW i \in Opened(tags) PROVE tags[i].number \in {n} \union OpenNumbers(list)
    <3>1. CASE i = 1
      BY <1>8, <3>1
    <3>2. CASE \E j \in 1..m : i = 1 + j
      BY <1>4, <2>2, <3>2 DEF OpenNumbers
    <3>3. QED
      BY <1>7, <2>3, <3>1, <3>2
  <2>5. ASSUME NEW j \in Opened(list) PROVE list[j].number \in OpenNumbers(tags)
    <3>1. 1 + j \in Opened(tags) /\ tags[1 + j] = list[j]
      BY <1>4, <2>2, <2>3
    <3>2. QED
      BY <3>1 DEF OpenNumbers
  <2>6. n \in OpenNumbers(tags)
    BY <1>8, <2>1 DEF OpenNumbers
  <2>7. OpenNumbers(tags) \subseteq {n} \union OpenNumbers(list)
    BY <2>4 DEF OpenNumbers
  <2>8. OpenNumbers(list) \subseteq OpenNumbers(tags)
    BY <2>5 DEF OpenNumbers
  <2>9. QED
    BY <2>6, <2>7, <2>8
<1>13. QED
  BY <1>3, <1>10, <1>11, <1>12

LEMMA GreatestMember ==
  ASSUME NEW m \in Nat, NEW S, S \subseteq 1..m, S # {}
  PROVE  \E x \in S : \A y \in S : x >= y
<1> DEFINE D == {m - i : i \in S}
<1>1. D \subseteq Nat /\ D # {}
  <2>1. ASSUME NEW i \in S PROVE m - i \in Nat
    OBVIOUS
  <2>2. QED
    BY <2>1
<1>2. PICK d \in D : \A e \in D : d <= e
  <2> HIDE DEF D
  <2>1. QED
    BY <1>1, LeastMember
<1>3. PICK x \in S : d = m - x
  OBVIOUS
<1>4. ASSUME NEW y \in S PROVE x >= y
  <2>1. PICK e \in D : e = m - y
    OBVIOUS
  <2>2. x \in 1..m /\ y \in 1..m
    OBVIOUS
  <2> HIDE DEF D
  <2>3. d <= e
    BY <1>2
  <2>4. QED
    BY <1>3, <2>1, <2>2, <2>3
<1>5. QED
  BY <1>4

\* A field that stands in a message once is read with what it holds, one that
\* does not is missing.
LEMMA FieldRead ==
  ASSUME NEW tags, Complete(tags), NEW n
  PROVE  /\ \A v : <<n, v>> \in Fields(tags) /\ (\A w : <<n, w>> \in Fields(tags) => w = v)
              => field(notification_fields(tags), n) = v
         /\ (\A w : <<n, w>> \notin Fields(tags)) => field(notification_fields(tags), n) = None
<1> DEFINE S == {i \in TopLevel(tags) : tags[i].number = n}
           numbers == {tags[i].number : i \in TopLevel(tags)}
<1>1. DOMAIN notification_fields(tags) = numbers
  BY DEF notification_fields, fields_at
<1>2. ASSUME NEW v, <<n, v>> \in Fields(tags), \A w : <<n, w>> \in Fields(tags) => w = v
      PROVE  field(notification_fields(tags), n) = v
  <2>1. PICK i \in TopLevel(tags) : tags[i].number = n
    BY <1>2 DEF Fields
  <2>2. n \in numbers /\ i \in S
    BY <2>1
  <2>3. notification_fields(tags)[n] = tags[Max(S)].body
    BY <2>2 DEF notification_fields, fields_at
  <2>4. Max(S) \in S
    <3>1. PICK m \in Nat : m = Len(tags) /\ DOMAIN tags = 1..m
      BY OwnTags DEF Complete
    <3>2. S \subseteq 1..m
      BY <3>1 DEF TopLevel
    <3> HIDE DEF S
    <3>3. \E x \in S : \A y \in S : x >= y
      BY <2>2, <3>2, GreatestMember
    <3>4. QED
      BY <3>3 DEF Max
  <2>5. <<n, tags[Max(S)].body>> \in Fields(tags)
    <3>1. Max(S) \in TopLevel(tags) /\ tags[Max(S)].number = n
      BY <2>4
    <3> HIDE DEF S
    <3>2. QED
      BY <3>1 DEF Fields
  <2>6. tags[Max(S)].body = v
    BY <1>2, <2>5
  <2> HIDE DEF S
  <2>7. QED
    BY <1>1, <2>2, <2>3, <2>6 DEF field
<1>3. ASSUME \A w : <<n, w>> \notin Fields(tags)
      PROVE  field(notification_fields(tags), n) = None
  <2>1. n \notin numbers
    <3>1. ASSUME NEW i \in TopLevel(tags), tags[i].number = n PROVE FALSE
      <4>1. <<n, tags[i].body>> \in Fields(tags)
        BY <3>1 DEF Fields
      <4>2. QED
        BY <1>3, <4>1
    <3>2. QED
      BY <3>1
  <2> HIDE DEF numbers
  <2>2. QED
    BY <1>1, <2>1 DEF field
<1>4. QED
  BY <1>2, <1>3

LEMMA OneField ==
  ASSUME NEW k, NEW v
  PROVE  /\ Complete(<<context(k, v)>>)
         /\ Fields(<<context(k, v)>>) = {<<k, v>>}
         /\ OpenNumbers(<<context(k, v)>>) = {}
<1>1. PICK a : a = context(k, v)
  OBVIOUS
<1>2. a.kind = "value" /\ a.context /\ a.number = k /\ a.body = v
  BY <1>1 DEF context, Tag
<1>3. PICK one \in Seq({a}) : one = <<a>> /\ DOMAIN one = {1} /\ one[1] = a
  <2>1. <<a>> \in Seq({a}) /\ DOMAIN <<a>> = {1} /\ <<a>>[1] = a
    OBVIOUS
  <2>2. QED
    BY <2>1
<1>4. \A i \in DOMAIN one : one[i].kind = "value" /\ one[i].context
  BY <1>2, <1>3
<1>5. /\ Complete(one) /\ OpenNumbers(one) = {}
      /\ Fields(one) = {<<one[i].number, one[i].body>> : i \in DOMAIN one}
  BY <1>4, Flat, FlatFields
<1>6. {<<one[i].number, one[i].body>> : i \in DOMAIN one} = {<<k, v>>}
  BY <1>2, <1>3
<1>7. QED
  BY <1>1, <1>3, <1>5, <1>6

LEMMA ThreeFields ==
  ASSUME NEW k, NEW v, NEW k2, NEW v2, NEW k3, NEW v3
  PROVE  LET tags == <<context(k, v), context(k2, v2), context(k3, v3)>>
         IN  /\ Complete(tags) /\ OpenNumbers(tags) = {}
             /\ Fields(tags) = {<<k, v>>, <<k2, v2>>, <<k3, v3>>}
<1>1. PICK a, b, c : a = context(k, v) /\ b = context(k2, v2) /\ c = context(k3, v3)
  OBVIOUS
<1>2. /\ a.kind = "value" /\ a.context /\ a.number = k /\ a.body = v
      /\ b.kind = "value" /\ b.context /\ b.number = k2 /\ b.body = v2
      /\ c.kind = "value" /\ c.context /\ c.number = k3 /\ c.body = v3
  BY <1>1 DEF context, Tag
<1>3. PICK tags : tags = <<a, b, c>>
  OBVIOUS
<1>4. /\ tags \in Seq({a, b, c}) /\ DOMAIN tags = {1, 2, 3}
      /\ tags[1] = a /\ tags[2] = b /\ tags[3] = c
  BY <1>3
<1>5. \A i \in DOMAIN tags : tags[i].kind = "value" /\ tags[i].context
  BY <1>2, <1>4
<1>6. /\ Complete(tags) /\ OpenNumbers(tags) = {}
      /\ Fields(tags) = {<<tags[i].number, tags[i].body>> : i \in DOMAIN tags}
  BY <1>4, <1>5, Flat, FlatFields
<1>7. {<<tags[i].number, tags[i].body>> : i \in DOMAIN tags}
         = {<<k, v>>, <<k2, v2>>, <<k3, v3>>}
  BY <1>2, <1>4
<1>8. QED
  BY <1>1, <1>3, <1>6, <1>7

LEMMA FourTags ==
  ASSUME NEW k, NEW v, NEW k2, NEW v2, NEW k3, NEW v3, NEW k4, NEW v4
  PROVE  LET tags == <<context(k, v), context(k2, v2), context(k3, v3), context(k4, v4)>>
         IN  Complete(tags) /\ OpenNumbers(tags) = {}
<1>1. PICK a, b, c, d : /\ a = context(k, v) /\ b = context(k2, v2)
                        /\ c = context(k3, v3) /\ d = context(k4, v4)
  OBVIOUS
<1>2. /\ a.kind = "value" /\ a.context /\ b.kind = "value" /\ b.context
      /\ c.kind = "value" /\ c.context /\ d.kind = "value" /\ d.context
  BY <1>1 DEF context, Tag
<1>3. PICK tags : tags = <<a, b, c, d>>
  OBVIOUS
<1>4. /\ tags \in Seq({a, b, c, d}) /\ DOMAIN tags = {1, 2, 3, 4}
      /\ tags[1] = a /\ tags[2] = b /\ tags[3] = c /\ tags[4] = d
  BY <1>3
<1>5. \A i \in DOMAIN tags : tags[i].kind = "value" /\ tags[i].context
  BY <1>2, <1>4
<1>6. Complete(tags) /\ OpenNumbers(tags) = {}
  BY <1>4, <1>5, Flat, FlatFields
<1>7. QED
  BY <1>1, <1>3, <1>6

LEMMA OptionalFields ==
  ASSUME NEW k, NEW v
  PROVE  /\ Complete(optional(k, v)) /\ OpenNumbers(optional(k, v)) = {}
         /\ Fields(optional(k, v)) \subseteq {<<k, v>>}
<1>1. CASE v = None
  <2>1. optional(k, v) = <<>>
    BY <1>1 DEF optional
  <2>2. <<>> \in Seq({}) /\ DOMAIN <<>> = {}
    OBVIOUS
  <2>3. PICK tags \in Seq({}) : tags = <<>> /\ DOMAIN tags = {}
    BY <2>2
  <2>4. Complete(tags)
    BY <2>3, Flat
  <2>5. Fields(tags) = {} /\ OpenNumbers(tags) = {}
    BY <2>3 DEF Fields, TopLevel, OpenNumbers, Opened
  <2>6. QED
    BY <2>1, <2>3, <2>4, <2>5
<1>2. CASE v # None
  <2>1. optional(k, v) = <<context(k, v)>>
    BY <1>2 DEF optional
  <2>2. QED
    BY <2>1, OneField
<1>3. QED
  BY <1>1, <1>2

-----------------------------------------------------------------------------
\* The time stamp of a notification

\* The positions at which a time stamp is opened, as EventNotification looks
\* for them.
Stamps(tags) == {i \in DOMAIN tags : tags[i].kind = "open" /\ tags[i].number = 3
                                     /\ Depth(SubSeq(tags, 1, i)) = 1}

\* The stamp, and no other, is opened at the fourth tag.
Stamped(tags, stamp) ==
  /\ Complete(tags)
  /\ 1..7 \subseteq DOMAIN tags
  /\ tags[5] = opening(2) /\ tags[6].body = stamp.date /\ tags[7].body = stamp.time
  /\ Stamps(tags) = {4}

LEMMA StampKept ==
  ASSUME NEW stamp, NEW a, Stamped(a, stamp), NEW b, Complete(b), 3 \notin OpenNumbers(b)
  PROVE  Stamped(a \o b, stamp)
<1>1. Complete(a)
  BY DEF Stamped
<1>2. PICK T : a \in Seq(T) /\ b \in Seq(T)
  <2> DEFINE T == {a[i] : i \in DOMAIN a} \union {b[i] : i \in DOMAIN b}
  <2>1. a \in Seq({a[i] : i \in DOMAIN a}) /\ b \in Seq({b[i] : i \in DOMAIN b})
    BY <1>1 DEF Complete
  <2>2. a \in Seq(T) /\ b \in Seq(T)
    BY <2>1
  <2>3. QED
    BY <2>2
<1>3. PICK p \in Nat, q \in Nat : p = Len(a) /\ q = Len(b)
  BY <1>2
<1>4. PICK t : t = a \o b
  OBVIOUS
<1>5. /\ DOMAIN a = 1..p /\ DOMAIN b = 1..q /\ DOMAIN t = 1..(p + q)
      /\ \A i \in 1..p : t[i] = a[i]
      /\ \A i \in 1..q : t[p + i] = b[i]
  BY <1>2, <1>3, <1>4, OneBehindOther
<1>6. \A i \in 1..p : At(t, i) = At(a, i)
  <2>1. \A i \in 1..Len(a) : At(a \o b, i) = At(a, i)
    BY <1>2, DepthsOfBoth
  <2>2. QED
    BY <1>3, <1>4, <2>1
<1>7. Complete(t)
  BY <1>1, <1>4, FieldsOfBoth
<1>8. \A i \in 1..p : i \in 1..(p + q)
  OBVIOUS
<1>9. \A i \in 1..p : i \in Stamps(t) <=> i \in Stamps(a)
  BY <1>5, <1>6, <1>8 DEF Stamps, At
<1>10. ASSUME NEW i \in 1..q PROVE p + i \notin Stamps(t)
  <2>1. SUFFICES ASSUME p + i \in Stamps(t) PROVE FALSE
    OBVIOUS
  <2>2. b[i].kind = "open" /\ b[i].number = 3
    BY <1>5, <2>1 DEF Stamps
  <2>3. 3 \in OpenNumbers(b)
    BY <1>5, <2>2 DEF OpenNumbers, Opened
  <2>4. QED
    BY <2>3
<1>11. \A i \in 1..(p + q) : i \in 1..p \/ \E j \in 1..q : i = p + j
  <2>1. ASSUME NEW i \in 1..(p + q), i \notin 1..p PROVE \E j \in 1..q : i = p + j
    <3>1. i - p \in 1..q /\ i = p + (i - p)
      BY <2>1
    <3>2. QED
      BY <3>1
  <2>2. QED
    BY <2>1
<1>12. Stamps(t) \subseteq 1..(p + q) /\ Stamps(a) \subseteq 1..p
  BY <1>5 DEF Stamps
<1>13. Stamps(t) = Stamps(a)
  BY <1>8, <1>9, <1>10, <1>11, <1>12
<1>14. 1..7 \subseteq 1..p
  BY <1>5 DEF Stamped
<1>15. 1..7 \subseteq 1..(p + q) /\ 5 \in 1..p /\ 6 \in 1..p /\ 7 \in 1..p
  <2>1. 5 \in 1..7 /\ 6 \in 1..7 /\ 7 \in 1..7
    OBVIOUS
  <2>2. QED
    BY <1>8, <1>14, <2>1
<1>16. t[5] = a[5] /\ t[6] = a[6] /\ t[7] = a[7]
  BY <1>5, <1>15
<1>17. QED
  BY <1>4, <1>5, <1>7, <1>13, <1>15, <1>16 DEF Stamped

LEMMA StampPut ==
  ASSUME NEW stamp, NEW a, NEW b, NEW c
  PROVE  Stamped(<<context(0, a), context(1, b), context(2, c)>> \o context_date_time(3, stamp),
                 stamp)
<1>1. PICK head, list : /\ head = <<context(0, a), context(1, b), context(2, c)>>
                        /\ list = <<application(TAG_DATE, stamp.date),
                                    application(TAG_TIME, stamp.time)>>
  OBVIOUS
<1>2. PICK inner, outer : inner = constructed(2, list) /\ outer = constructed(3, inner)
  OBVIOUS
<1>3. outer = context_date_time(3, stamp)
  BY <1>1, <1>2 DEF context_date_time
<1> DEFINE T == {context(0, a), context(1, b), context(2, c),
                 application(TAG_DATE, stamp.date), application(TAG_TIME, stamp.time),
                 opening(2), closing(2), opening(3), closing(3)}
<1>4. /\ head \in Seq(T) /\ Len(head) = 3
      /\ head[1] = context(0, a) /\ head[2] = context(1, b) /\ head[3] = context(2, c)
  BY <1>1
<1>5. /\ list \in Seq(T) /\ Len(list) = 2 /\ DOMAIN list = {1, 2}
      /\ list[1] = application(TAG_DATE, stamp.date)
      /\ list[2] = application(TAG_TIME, stamp.time)
  BY <1>1
<1>6. /\ opening(2) \in T /\ closing(2) \in T /\ opening(3) \in T /\ closing(3) \in T
  OBVIOUS
<1> HIDE DEF T
<1>7. /\ head[1].kind = "value" /\ head[2].kind = "value" /\ head[3].kind = "value"
  BY <1>4 DEF context, Tag
<1>8. /\ list[1].kind = "value" /\ list[1].body = stamp.date
      /\ list[2].kind = "value" /\ list[2].body = stamp.time
  BY <1>5 DEF application, Tag
<1>9. Complete(list)
  BY <1>5, <1>8, Flat
<1>10. Complete(head)
  <2>1. \A i \in DOMAIN head : head[i].kind = "value"
    <3>1. DOMAIN head = {1, 2, 3}
      BY <1>1
    <3>2. QED
      BY <1>7, <3>1
  <2>2. QED
    BY <1>4, <2>1, Flat
<1>11. /\ inner \in Seq(T) /\ Len(inner) = 4
       /\ inner[1] = opening(2) /\ inner[2] = list[1] /\ inner[3] = list[2]
       /\ inner[4] = closing(2)
  <2>1. /\ inner \in Seq(T) /\ Len(inner) = Len(list) + 2
        /\ inner[1] = opening(2)
        /\ \A i \in 1..Len(list) : inner[1 + i] = list[i]
        /\ inner[Len(list) + 2] = closing(2)
    <3>1. LET tags == constructed(2, list)
          IN  /\ tags \in Seq(T) /\ Len(tags) = Len(list) + 2
              /\ tags[1] = opening(2)
              /\ \A i \in 1..Len(list) : tags[1 + i] = list[i]
              /\ tags[Len(list) + 2] = closing(2)
      <4>1. list \in Seq(T) /\ opening(2) \in T /\ closing(2) \in T
        BY <1>5, <1>6
      <4>2. QED
        BY <4>1, ConstructedTags
    <3>2. QED
      BY <1>2, <3>1
  <2>2. \A i \in 1..2 : inner[1 + i] = list[i]
    BY <1>5, <2>1
  <2>3. inner[1 + 1] = list[1] /\ inner[1 + 2] = list[2]
    BY <2>2
  <2>4. QED
    BY <1>5, <2>1, <2>3
<1>12. /\ outer \in Seq(T) /\ Len(outer) = 6
       /\ outer[1] = opening(3) /\ At(outer, 1) = 1
       /\ outer[2] = inner[1] /\ outer[3] = inner[2] /\ outer[4] = inner[3]
       /\ outer[5] = inner[4] /\ outer[6] = closing(3)
  <2>1. /\ outer \in Seq(T) /\ Len(outer) = Len(inner) + 2
        /\ outer[1] = opening(3) /\ At(outer, 1) = 1
        /\ \A i \in 1..Len(inner) : outer[1 + i] = inner[i]
        /\ outer[Len(inner) + 2] = closing(3)
    BY <1>2, <1>6, <1>11, ConstructedTags
  <2>2. \A i \in 1..4 : outer[1 + i] = inner[i]
    BY <1>11, <2>1
  <2>3. /\ outer[1 + 1] = inner[1] /\ outer[1 + 2] = inner[2] /\ outer[1 + 3] = inner[3]
        /\ outer[1 + 4] = inner[4]
    BY <2>2
  <2>4. QED
    BY <1>11, <2>1, <2>3
<1>13. Complete(outer)
  BY <1>2, <1>9, NestedFields
<1>14. PICK t : t = head \o outer
  OBVIOUS
<1>15. Complete(t)
  BY <1>10, <1>13, <1>14, FieldsOfBoth
<1>16. /\ DOMAIN t = 1..9
       /\ t[1] = head[1] /\ t[2] = head[2] /\ t[3] = head[3]
       /\ t[4] = outer[1] /\ t[5] = outer[2] /\ t[6] = outer[3] /\ t[7] = outer[4]
       /\ t[8] = outer[5] /\ t[9] = outer[6]
  <2>1. /\ DOMAIN t = 1..(3 + 6)
        /\ \A i \in 1..3 : t[i] = head[i]
        /\ \A i \in 1..6 : t[3 + i] = outer[i]
    <3>1. /\ DOMAIN (head \o outer) = 1..(Len(head) + Len(outer))
          /\ \A i \in 1..Len(head) : (head \o outer)[i] = head[i]
          /\ \A i \in 1..Len(outer) : (head \o outer)[Len(head) + i] = outer[i]
      <4>1. head \in Seq(T) /\ outer \in Seq(T)
        BY <1>4, <1>12
      <4>2. QED
        BY <4>1, OneBehindOther
    <3>2. QED
      BY <1>4, <1>12, <1>14, <3>1
  <2>2. t[1] = head[1] /\ t[2] = head[2] /\ t[3] = head[3]
    BY <2>1
  <2>3. /\ t[3 + 1] = outer[1] /\ t[3 + 2] = outer[2] /\ t[3 + 3] = outer[3]
        /\ t[3 + 4] = outer[4] /\ t[3 + 5] = outer[5] /\ t[3 + 6] = outer[6]
    BY <2>1
  <2>4. QED
    BY <2>1, <2>2, <2>3
<1>17. At(t, 4) = 1
  <2>1. \A i \in 1..Len(outer) : At(head \o outer, Len(head) + i) = Depth(head) + At(outer, i)
    <3>1. head \in Seq(T) /\ outer \in Seq(T)
      BY <1>4, <1>12
    <3>2. QED
      BY <3>1, DepthsOfBoth
  <2>2. \A i \in 1..6 : At(t, 3 + i) = Depth(head) + At(outer, i)
    BY <1>4, <1>12, <1>14, <2>1
  <2>3. At(t, 3 + 1) = Depth(head) + At(outer, 1)
    BY <2>2
  <2>4. QED
    BY <1>10, <1>12, <2>3 DEF Complete
<1>18. Stamps(t) = {4}
  <2>1. /\ t[4].kind = "open" /\ t[4].number = 3 /\ t[5].kind = "open" /\ t[5].number = 2
        /\ t[8].kind = "close" /\ t[9].kind = "close"
    BY <1>11, <1>12, <1>16 DEF opening, closing, Tag
  <2>2. /\ t[1].kind = "value" /\ t[2].kind = "value" /\ t[3].kind = "value"
        /\ t[6].kind = "value" /\ t[7].kind = "value"
    BY <1>7, <1>8, <1>11, <1>12, <1>16
  <2>3. 4 \in Stamps(t)
    BY <1>16, <1>17, <2>1 DEF Stamps, At
  <2>4. ASSUME NEW i \in Stamps(t) PROVE i = 4
    <3>1. i \in 1..9 /\ t[i].kind = "open" /\ t[i].number = 3
      BY <1>16 DEF Stamps
    <3>2. i \in {1, 2, 3, 4, 5, 6, 7, 8, 9}
      BY <3>1
    <3>3. QED
      BY <2>1, <2>2, <3>1, <3>2
  <2>5. QED
    BY <2>3, <2>4
<1>19. t[5] = opening(2) /\ t[6].body = stamp.date /\ t[7].body = stamp.time
  BY <1>8, <1>11, <1>12, <1>16
<1>20. 1..7 \subseteq DOMAIN t
  BY <1>16
<1>21. Stamped(t, stamp)
  BY <1>15, <1>18, <1>19, <1>20 DEF Stamped
<1>22. QED
  BY <1>1, <1>3, <1>14, <1>21

-----------------------------------------------------------------------------
\* The notification

\* EventNotification reads of an event_notification the fields it was built
\* from, confirmed or not, with a message text or without: those of an
\* acknowledgement have no ack_required and no from_state, and the date and time
\* are found inside the time stamp, whatever else is constructed behind it.
THEOREM NotificationReadBack ==
  ASSUME NEW n, NEW wanted \in BOOLEAN, NEW id
  PROVE  LET ack == n.notify_type = "ACK_NOTIFICATION"
         IN  EventNotification(event_notification(n, wanted, id)) =
               [process_identifier |-> n.process_identifier,
                initiating_device  |-> <<"DEVICE", n.initiating_device>>,
                event_object       |-> n.event_object,
                time_stamp         |-> [date |-> n.time_stamp.date, time |-> n.time_stamp.time],
                notification_class |-> n.notification_class,
                priority           |-> n.priority,
                event_type         |-> "OUT_OF_RANGE",
                notify_type        |-> n.notify_type,
                ack_required       |-> IF ack THEN None ELSE n.ack_required,
                from_state         |-> IF ack THEN None ELSE n.from_state,
                to_state           |-> n.to_state]
<1> DEFINE ack == n.notify_type = "ACK_NOTIFICATION"
<1>1. PICK head, stamp, three, text, type, rest :
        /\ head = <<context(0, n.process_identifier),
                    context(1, <<"DEVICE", n.initiating_device>>), context(2, n.event_object)>>
        /\ stamp = context_date_time(3, n.time_stamp)
        /\ three = <<context(4, n.notification_class), context(5, n.priority),
                     context(6, "OUT_OF_RANGE")>>
        /\ text = optional(7, n.message_text)
        /\ type = <<context(8, n.notify_type)>>
        /\ rest = IF ack THEN <<context(11, n.to_state)>>
                  ELSE <<context(9, n.ack_required), context(10, n.from_state),
                         context(11, n.to_state)>> \o event_values(n)
  OBVIOUS
<1>2. PICK tags : tags = head \o stamp \o three \o text \o type \o rest
  OBVIOUS
<1>3. event_notification(n, wanted, id).parameters = tags
  BY <1>1, <1>2 DEF event_notification, confirmed_request, APDU
<1>4. /\ Complete(head)
      /\ Fields(head) = {<<0, n.process_identifier>>, <<1, <<"DEVICE", n.initiating_device>>>>,
                         <<2, n.event_object>>}
  <2>1. head = <<context(0, n.process_identifier),
                 context(1, <<"DEVICE", n.initiating_device>>), context(2, n.event_object)>>
    BY <1>1
  <2>2. QED
    BY <2>1, ThreeFields
<1>5. Complete(stamp) /\ Fields(stamp) = {}
  <2>1. PICK list : list = <<application(TAG_DATE, n.time_stamp.date),
                             application(TAG_TIME, n.time_stamp.time)>>
    OBVIOUS
  <2>2. Complete(list)
    <3>1. \A i \in DOMAIN list : list[i].kind = "value"
      <4>1. /\ DOMAIN list = {1, 2}
            /\ list[1] = application(TAG_DATE, n.time_stamp.date)
            /\ list[2] = application(TAG_TIME, n.time_stamp.time)
        BY <2>1
      <4>2. QED
        BY <4>1 DEF application, Tag
    <3>2. list \in Seq({application(TAG_DATE, n.time_stamp.date),
                        application(TAG_TIME, n.time_stamp.time)})
      BY <2>1
    <3>3. QED
      BY <3>1, <3>2, Flat
  <2>3. Complete(constructed(2, list))
    BY <2>2, NestedFields
  <2>4. Complete(constructed(3, constructed(2, list)))
        /\ Fields(constructed(3, constructed(2, list))) = {}
    BY <2>3, NestedFields
  <2>5. QED
    BY <1>1, <2>1, <2>4 DEF context_date_time
<1>6. /\ Complete(three) /\ OpenNumbers(three) = {}
      /\ Fields(three) = {<<4, n.notification_class>>, <<5, n.priority>>, <<6, "OUT_OF_RANGE">>}
  <2>1. three = <<context(4, n.notification_class), context(5, n.priority),
                  context(6, "OUT_OF_RANGE")>>
    BY <1>1
  <2>2. QED
    BY <2>1, ThreeFields
<1>7. Complete(text) /\ OpenNumbers(text) = {} /\ Fields(text) \subseteq {<<7, n.message_text>>}
  BY <1>1, OptionalFields
<1>8. Complete(type) /\ OpenNumbers(type) = {} /\ Fields(type) = {<<8, n.notify_type>>}
  BY <1>1, OneField
<1>9. /\ Complete(rest) /\ 3 \notin OpenNumbers(rest)
      /\ Fields(rest) = IF ack THEN {<<11, n.to_state>>}
                        ELSE {<<9, n.ack_required>>, <<10, n.from_state>>, <<11, n.to_state>>}
  <2>1. CASE ack
    <3>1. rest = <<context(11, n.to_state)>>
      BY <1>1, <2>1
    <3> HIDE DEF ack
    <3>2. QED
      BY <2>1, <3>1, OneField
  <2>2. CASE ~ack
    <3>1. PICK few, values :
            /\ few = <<context(9, n.ack_required), context(10, n.from_state),
                       context(11, n.to_state)>>
            /\ values = event_values(n)
      OBVIOUS
    <3>2. rest = few \o values
      BY <1>1, <2>2, <3>1
    <3>3. /\ Complete(few) /\ OpenNumbers(few) = {}
          /\ Fields(few) = {<<9, n.ack_required>>, <<10, n.from_state>>, <<11, n.to_state>>}
      BY <3>1, ThreeFields
    <3>4. Complete(values) /\ OpenNumbers(values) = {12, 5} /\ Fields(values) = {}
      <4>1. PICK four : four = <<context(0, n.exceeding_value), context(1, n.to_state # "NORMAL"),
                                 context(2, 1), context(3, n.exceeded_limit)>>
        OBVIOUS
      <4>2. Complete(four) /\ OpenNumbers(four) = {}
        BY <4>1, FourTags
      <4>3. /\ Complete(constructed(5, four))
            /\ OpenNumbers(constructed(5, four)) = {5} \union {}
        BY <4>2, NestedFields
      <4>4. /\ Complete(constructed(12, constructed(5, four)))
            /\ Fields(constructed(12, constructed(5, four))) = {}
            /\ OpenNumbers(constructed(12, constructed(5, four)))
                 = {12} \union OpenNumbers(constructed(5, four))
        BY <4>3, NestedFields
      <4>5. values = constructed(12, constructed(5, four))
        BY <3>1, <4>1 DEF event_values
      <4>6. QED
        BY <4>3, <4>4, <4>5
    <3>5. /\ Complete(few \o values)
          /\ Fields(few \o values) = Fields(few) \union Fields(values)
          /\ OpenNumbers(few \o values) = OpenNumbers(few) \union OpenNumbers(values)
      BY <3>3, <3>4, FieldsOfBoth
    <3> HIDE DEF ack
    <3>6. QED
      BY <2>2, <3>2, <3>3, <3>4, <3>5
  <2>3. QED
    BY <2>1, <2>2
<1> HIDE DEF ack
<1>10. PICK a, b, c, d : /\ a = head \o stamp /\ b = a \o three /\ c = b \o text
                         /\ d = c \o type /\ tags = d \o rest
  BY <1>2
<1>11. Stamped(tags, n.time_stamp)
  <2>1. Stamped(a, n.time_stamp)
    BY <1>1, <1>10, StampPut
  <2>2. Stamped(b, n.time_stamp)
    BY <1>6, <1>10, <2>1, StampKept
  <2>3. Stamped(c, n.time_stamp)
    BY <1>7, <1>10, <2>2, StampKept
  <2>4. Stamped(d, n.time_stamp)
    BY <1>8, <1>10, <2>3, StampKept
  <2>5. QED
    BY <1>9, <1>10, <2>4, StampKept
<1>12. /\ Complete(tags)
       /\ Fields(tags) = Fields(head) \union Fields(three) \union Fields(text)
                           \union Fields(type) \union Fields(rest)
  <2>1. Complete(a) /\ Fields(a) = Fields(head)
    <3>1. Complete(a) /\ Fields(a) = Fields(head) \union Fields(stamp)
      BY <1>4, <1>5, <1>10, FieldsOfBoth
    <3>2. QED
      BY <1>5, <3>1
  <2>2. Complete(b) /\ Fields(b) = Fields(a) \union Fields(three)
    BY <1>6, <1>10, <2>1, FieldsOfBoth
  <2>3. Complete(c) /\ Fields(c) = Fields(b) \union Fields(text)
    BY <1>7, <1>10, <2>2, FieldsOfBoth
  <2>4. Complete(d) /\ Fields(d) = Fields(c) \union Fields(type)
    BY <1>8, <1>10, <2>3, FieldsOfBoth
  <2>5. Complete(tags) /\ Fields(tags) = Fields(d) \union Fields(rest)
    BY <1>9, <1>10, <2>4, FieldsOfBoth
  <2>6. QED
    BY <2>1, <2>2, <2>3, <2>4, <2>5
<1>13. PICK fields : fields = notification_fields(tags)
  OBVIOUS
<1>14. PICK F : F = Fields(tags)
  OBVIOUS
<1>15. ASSUME NEW k, NEW v, <<k, v>> \in F, \A w : <<k, w>> \in F => w = v
       PROVE  field(fields, k) = v
  BY <1>12, <1>13, <1>14, <1>15, FieldRead
<1>16. ASSUME NEW k, \A w : <<k, w>> \notin F
       PROVE  field(fields, k) = None
  BY <1>12, <1>13, <1>14, <1>16, FieldRead
<1>17. \A k, w : <<k, w>> \in F <=>
         \/ k = 0 /\ w = n.process_identifier
         \/ k = 1 /\ w = <<"DEVICE", n.initiating_device>>
         \/ k = 2 /\ w = n.event_object
         \/ k = 4 /\ w = n.notification_class
         \/ k = 5 /\ w = n.priority
         \/ k = 6 /\ w = "OUT_OF_RANGE"
         \/ k = 7 /\ w = n.message_text /\ <<k, w>> \in Fields(text)
         \/ k = 8 /\ w = n.notify_type
         \/ k = 9 /\ w = n.ack_required /\ ~ack
         \/ k = 10 /\ w = n.from_state /\ ~ack
         \/ k = 11 /\ w = n.to_state
  <2>1. CASE ack
    BY <1>4, <1>6, <1>7, <1>8, <1>9, <1>12, <1>14, <2>1
  <2>2. CASE ~ack
    BY <1>4, <1>6, <1>7, <1>8, <1>9, <1>12, <1>14, <2>2
  <2>3. QED
    BY <2>1, <2>2
<1>18. /\ field(fields, 0) = n.process_identifier
       /\ field(fields, 1) = <<"DEVICE", n.initiating_device>>
       /\ field(fields, 2) = n.event_object
       /\ field(fields, 4) = n.notification_class
  <2>1. field(fields, 0) = n.process_identifier
    <3>1. <<0, n.process_identifier>> \in F /\ \A w : <<0, w>> \in F => w = n.process_identifier
      BY <1>17
    <3>2. QED
      BY <1>15, <3>1
  <2>2. field(fields, 1) = <<"DEVICE", n.initiating_device>>
    <3>1. <<1, <<"DEVICE", n.initiating_device>>>> \in F /\ \A w : <<1, w>> \in F => w = <<"DEVICE", n.initiating_device>>
      BY <1>17
    <3>2. QED
      BY <1>15, <3>1
  <2>3. field(fields, 2) = n.event_object
    <3>1. <<2, n.event_object>> \in F /\ \A w : <<2, w>> \in F => w = n.event_object
      BY <1>17
    <3>2. QED
      BY <1>15, <3>1
  <2>4. field(fields, 4) = n.notification_class
    <3>1. <<4, n.notification_class>> \in F /\ \A w : <<4, w>> \in F => w = n.notification_class
      BY <1>17
    <3>2. QED
      BY <1>15, <3>1
  <2>5. QED
    BY <2>1, <2>2, <2>3, <2>4
<1>19. /\ field(fields, 5) = n.priority
       /\ field(fields, 6) = "OUT_OF_RANGE"
       /\ field(fields, 8) = n.notify_type
       /\ field(fields, 11) = n.to_state
  <2>1. field(fields, 5) = n.priority
    <3>1. <<5, n.priority>> \in F /\ \A w : <<5, w>> \in F => w = n.priority
      BY <1>17
    <3>2. QED
      BY <1>15, <3>1
  <2>2. field(fields, 6) = "OUT_OF_RANGE"
    <3>1. <<6, "OUT_OF_RANGE">> \in F /\ \A w : <<6, w>> \in F => w = "OUT_OF_RANGE"
      BY <1>17
    <3>2. QED
      BY <1>15, <3>1
  <2>3. field(fields, 8) = n.notify_type
    <3>1. <<8, n.notify_type>> \in F /\ \A w : <<8, w>> \in F => w = n.notify_type
      BY <1>17
    <3>2. QED
      BY <1>15, <3>1
  <2>4. field(fields, 11) = n.to_state
    <3>1. <<11, n.to_state>> \in F /\ \A w : <<11, w>> \in F => w = n.to_state
      BY <1>17
    <3>2. QED
      BY <1>15, <3>1
  <2>5. QED
    BY <2>1, <2>2, <2>3, <2>4
<1>20. /\ field(fields, 9) = IF ack THEN None ELSE n.ack_required
       /\ field(fields, 10) = IF ack THEN None ELSE n.from_state
  <2>1. CASE ack
    <3>1. (\A w : <<9, w>> \notin F) /\ (\A w : <<10, w>> \notin F)
      BY <1>17, <2>1
    <3>2. field(fields, 9) = None /\ field(fields, 10) = None
      BY <1>16, <3>1
    <3>3. QED
      BY <2>1, <3>2
  <2>2. CASE ~ack
    <3>1. /\ <<9, n.ack_required>> \in F
          /\ \A w : <<9, w>> \in F => w = n.ack_required
          /\ <<10, n.from_state>> \in F
          /\ \A w : <<10, w>> \in F => w = n.from_state
      BY <1>17, <2>2
    <3>2. field(fields, 9) = n.ack_required /\ field(fields, 10) = n.from_state
      BY <1>15, <3>1
    <3>3. QED
      BY <2>2, <3>2
  <2>3. QED
    BY <2>1, <2>2
<1>21. PICK stamps : stamps = Stamps(tags)
  OBVIOUS
<1>22. /\ stamps = {4} /\ tags[5] = opening(2)
       /\ tags[6].body = n.time_stamp.date /\ tags[7].body = n.time_stamp.time
  BY <1>11, <1>21 DEF Stamped
<1>23. Max(stamps) = 4
  BY <1>22 DEF Max
<1>24. (IF stamps = {} THEN None ELSE read_time_stamp(tags, Max(stamps) + 1))
         = [date |-> n.time_stamp.date, time |-> n.time_stamp.time]
  <2>1. tags[5].context /\ tags[5].kind = "open" /\ tags[5].number = 2
    BY <1>22 DEF opening, Tag
  <2>2. read_time_stamp(tags, 5) = [date |-> tags[5 + 1].body, time |-> tags[5 + 2].body]
    BY <2>1 DEF read_time_stamp, IsOpening
  <2>3. Max(stamps) + 1 = 5 /\ stamps # {}
    BY <1>22, <1>23
  <2>4. QED
    BY <1>22, <2>2, <2>3
<1>25. PICK message : message = event_notification(n, wanted, id)
  OBVIOUS
<1>26. EventNotification(message) =
         [process_identifier |-> field(fields, 0), initiating_device |-> field(fields, 1),
          event_object |-> field(fields, 2),
          time_stamp |-> IF stamps = {} THEN None ELSE read_time_stamp(tags, Max(stamps) + 1),
          notification_class |-> field(fields, 4), priority |-> field(fields, 5),
          event_type |-> field(fields, 6), notify_type |-> field(fields, 8),
          ack_required |-> field(fields, 9), from_state |-> field(fields, 10),
          to_state |-> field(fields, 11)]
  <2>1. message.parameters = tags
    BY <1>3, <1>25
  <2>2. QED
    BY <1>13, <1>21, <2>1 DEF EventNotification, Stamps
<1>27. QED
  BY <1>18, <1>19, <1>20, <1>24, <1>25, <1>26 DEF ack

-----------------------------------------------------------------------------
\* Any number of lists, one behind the other

LEMMA TypeOfBoth ==
  ASSUME NEW a, NEW b, Complete(a), Complete(b)
  PROVE  \E T : a \in Seq(T) /\ b \in Seq(T)
<1> DEFINE T == {a[i] : i \in DOMAIN a} \union {b[i] : i \in DOMAIN b}
<1>1. a \in Seq({a[i] : i \in DOMAIN a}) /\ b \in Seq({b[i] : i \in DOMAIN b})
  BY DEF Complete
<1>2. a \in Seq(T) /\ b \in Seq(T)
  BY <1>1
<1>3. QED
  BY <1>2

\* How deep it is within a complete list: never below it, and within what a tag
\* opens.
LEMMA DepthsWithin ==
  ASSUME NEW list, Complete(list)
  PROVE  /\ Len(list) \in Nat /\ DOMAIN list = 1..Len(list) /\ Depth(list) = 0
         /\ \A i \in 1..Len(list) : At(list, i) \in Nat
         /\ \A i \in 1..Len(list) : list[i].kind = "open" => At(list, i) >= 1
<1>1. PICK T : list \in Seq(T)
  BY DEF Complete
<1>2. PICK n \in Nat : n = Len(list) /\ DOMAIN list = 1..n
  BY <1>1
<1>3. ASSUME NEW i \in 1..n PROVE At(list, i) \in Nat
  <2>1. SubSeq(list, 1, i) \in Seq(T)
    BY <1>1, <1>2, SubSeqProperties
  <2>2. At(list, i) \in Int
    BY <2>1, DepthOfBoth DEF At
  <2>3. At(list, i) >= 0
    BY <1>2 DEF Complete, At
  <2>4. QED
    BY <2>2, <2>3
<1>4. ASSUME NEW i \in 1..n, list[i].kind = "open" PROVE At(list, i) >= 1
  <2>1. PICK front : front = SubSeq(list, 1, i - 1)
    OBVIOUS
  <2>2. PICK one : one = <<list[i]>>
    OBVIOUS
  <2>3. list[i] \in T
    BY <1>1, <1>2
  <2>4. front \in Seq(T) /\ Len(front) = i - 1 /\ \A j \in 1..(i - 1) : front[j] = list[j]
    <3>1. CASE i = 1
      <4>1. front = <<>>
        BY <1>1, <2>1, <3>1, SubSeqEmpty
      <4>2. QED
        BY <3>1, <4>1
    <3>2. CASE i # 1
      <4>1. i - 1 \in 1..n
        BY <3>2
      <4>2. QED
        BY <1>1, <1>2, <2>1, <4>1, SubSeqProperties
    <3>3. QED
      BY <3>1, <3>2
  <2>5. one \in Seq(T) /\ Len(one) = 1 /\ one[1] = list[i] /\ DOMAIN one = {1}
    BY <2>2, <2>3
  <2>6. /\ front \o one \in Seq(T) /\ Len(front \o one) = i
        /\ \A j \in 1..(i - 1) : (front \o one)[j] = list[j]
        /\ (front \o one)[i] = list[i]
    <3>1. PICK m \in Nat : m = i - 1 /\ i = m + 1
      OBVIOUS
    <3>2. Len(front) = m
      BY <2>4, <3>1
    <3>3. /\ front \o one \in Seq(T) /\ Len(front \o one) = m + 1
          /\ \A j \in 1..m : (front \o one)[j] = front[j]
          /\ \A j \in 1..1 : (front \o one)[m + j] = one[j]
      BY <2>4, <2>5, <3>2, OneBehindOther
    <3>4. QED
      BY <2>4, <2>5, <3>1, <3>3
  <2>7. /\ SubSeq(list, 1, i) \in Seq(T) /\ Len(SubSeq(list, 1, i)) = i
        /\ \A j \in 1..i : SubSeq(list, 1, i)[j] = list[j]
    BY <1>1, <1>2, SubSeqProperties
  <2>8. SubSeq(list, 1, i) = front \o one
    <3>1. \A j \in 1..i : j \in 1..(i - 1) \/ j = i
      OBVIOUS
    <3>2. \A j \in 1..i : SubSeq(list, 1, i)[j] = (front \o one)[j]
      BY <2>6, <2>7, <3>1
    <3>3. QED
      BY <2>6, <2>7, <3>2, SeqEqual
  <2>9. Depth(one) = 1
    <3>1. Opened(one) = {1} /\ Closed(one) = {}
      BY <1>4, <2>5 DEF Opened, Closed
    <3>2. Depth(one) = Cardinality(Opened(one)) - Cardinality(Closed(one))
      BY DEF Depth, Opened, Closed
    <3>3. QED
      BY <3>1, <3>2, FS_EmptySet, FS_Singleton
  <2>10. Depth(front) \in Nat
    <3>1. CASE i = 1
      <4>1. Opened(front) = {} /\ Closed(front) = {}
        BY <2>4, <3>1 DEF Opened, Closed
      <4>2. Depth(front) = Cardinality(Opened(front)) - Cardinality(Closed(front))
        BY DEF Depth, Opened, Closed
      <4>3. QED
        BY <4>1, <4>2, FS_EmptySet
    <3>2. CASE i # 1
      <4>1. i - 1 \in 1..n
        BY <3>2
      <4>2. At(list, i - 1) \in Nat
        BY <1>3, <4>1
      <4>3. QED
        BY <2>1, <4>2 DEF At
    <3>3. QED
      BY <3>1, <3>2
  <2>11. At(list, i) = Depth(front) + 1
    BY <2>4, <2>5, <2>8, <2>9, DepthOfBoth DEF At
  <2>12. QED
    BY <2>10, <2>11
<1>5. QED
  BY <1>2, <1>3, <1>4 DEF Complete

\* The first n of some lists are laid in one: where each of them ends, and what
\* is found behind where the one before it ended.
Laid(flat, ss, n, E) ==
  /\ E[0] = 0 /\ \A k \in 0..n : E[k] \in Nat
  /\ \A k \in 1..n : Len(ss[k]) \in Nat /\ E[k] = E[k - 1] + Len(ss[k])
  /\ Complete(flat) /\ Len(flat) = E[n]
  /\ \A k \in 1..n : \A i \in 1..Len(ss[k]) :
       /\ E[k - 1] + i \in 1..E[n]
       /\ flat[E[k - 1] + i] = ss[k][i]
       /\ At(flat, E[k - 1] + i) = At(ss[k], i)
  /\ \A p \in 1..E[n] : \E k \in 1..n : \E i \in 1..Len(ss[k]) : p = E[k - 1] + i

LEMMA LaidOn ==
  ASSUME NEW ss, NEW m \in Nat, NEW E, NEW a, Laid(a, ss, m, E), NEW b, b = ss[m + 1],
         Complete(b), E[m + 1] = E[m] + Len(b)
  PROVE  Laid(a \o b, ss, m + 1, E)
<1>1. PICK T : a \in Seq(T) /\ b \in Seq(T)
  BY TypeOfBoth DEF Laid
<1>2. PICK p \in Nat, q \in Nat : p = Len(a) /\ q = Len(b)
  BY <1>1
<1>3. PICK flat : flat = a \o b
  OBVIOUS
<1>4. /\ E[m] = p /\ E[m + 1] = p + q /\ E[0] = 0
      /\ \A k \in 0..m : E[k] \in Nat
      /\ \A k \in 1..m : Len(ss[k]) \in Nat /\ E[k] = E[k - 1] + Len(ss[k])
  BY <1>2 DEF Laid
<1>5. \A k \in 0..(m + 1) : k \in 0..m \/ k = m + 1
  OBVIOUS
<1>6. \A k \in 1..(m + 1) : k \in 1..m \/ k = m + 1
  OBVIOUS
<1>7. (m + 1) - 1 = m
  OBVIOUS
<1>8. /\ \A k \in 0..(m + 1) : E[k] \in Nat
      /\ \A k \in 1..(m + 1) : Len(ss[k]) \in Nat /\ E[k] = E[k - 1] + Len(ss[k])
  <2>1. \A k \in 0..(m + 1) : E[k] \in Nat
    BY <1>4, <1>5
  <2>2. E[m + 1] = E[(m + 1) - 1] + Len(ss[m + 1]) /\ Len(ss[m + 1]) \in Nat
    BY <1>2, <1>4, <1>7
  <2>3. QED
    BY <1>4, <1>6, <2>1, <2>2
<1>9. /\ Complete(flat) /\ Len(flat) = p + q
      /\ \A i \in 1..p : flat[i] = a[i] /\ At(flat, i) = At(a, i)
      /\ \A i \in 1..q : flat[p + i] = b[i] /\ At(flat, p + i) = At(b, i)
  <2>1. Complete(flat)
    BY <1>3, FieldsOfBoth DEF Laid
  <2>2. /\ Len(flat) = p + q
        /\ \A i \in 1..p : flat[i] = a[i]
        /\ \A i \in 1..q : flat[p + i] = b[i]
    BY <1>1, <1>2, <1>3, OneBehindOther
  <2>3. /\ \A i \in 1..p : At(flat, i) = At(a, i)
        /\ \A i \in 1..q : At(flat, p + i) = Depth(a) + At(b, i)
    BY <1>1, <1>2, <1>3, DepthsOfBoth
  <2>4. Depth(a) = 0 /\ \A i \in 1..q : At(b, i) \in Nat
    BY <1>2, DepthsWithin DEF Laid
  <2>5. \A x \in Nat : 0 + x = x
    OBVIOUS
  <2>6. QED
    BY <2>1, <2>2, <2>3, <2>4, <2>5
<1>10. ASSUME NEW k \in 1..(m + 1), NEW i \in 1..Len(ss[k])
       PROVE  /\ E[k - 1] + i \in 1..E[m + 1]
              /\ flat[E[k - 1] + i] = ss[k][i]
              /\ At(flat, E[k - 1] + i) = At(ss[k], i)
  <2>1. CASE k \in 1..m
    <3>1. /\ E[k - 1] + i \in 1..p /\ a[E[k - 1] + i] = ss[k][i]
          /\ At(a, E[k - 1] + i) = At(ss[k], i)
      BY <1>4, <2>1 DEF Laid
    <3>2. 1..p \subseteq 1..(p + q)
      OBVIOUS
    <3>3. QED
      BY <1>4, <1>9, <3>1, <3>2
  <2>2. CASE k = m + 1
    <3>1. E[k - 1] = p /\ ss[k] = b /\ i \in 1..q
      BY <1>2, <1>4, <1>7, <2>2
    <3>2. p + i \in 1..(p + q)
      BY <3>1
    <3>3. QED
      BY <1>4, <1>9, <3>1, <3>2
  <2>3. QED
    BY <1>6, <2>1, <2>2
<1>11. ASSUME NEW x \in 1..E[m + 1]
       PROVE  \E k \in 1..(m + 1) : \E i \in 1..Len(ss[k]) : x = E[k - 1] + i
  <2>1. CASE x \in 1..p
    <3>1. \E k \in 1..m : \E i \in 1..Len(ss[k]) : x = E[k - 1] + i
      BY <1>4, <2>1 DEF Laid
    <3>2. 1..m \subseteq 1..(m + 1)
      OBVIOUS
    <3>3. QED
      BY <3>1, <3>2
  <2>2. CASE x \notin 1..p
    <3>1. x - p \in 1..q /\ x = p + (x - p)
      BY <1>4, <2>2
    <3>2. m + 1 \in 1..(m + 1) /\ E[(m + 1) - 1] = p /\ Len(ss[m + 1]) = q
      BY <1>2, <1>4, <1>7
    <3>3. QED
      BY <3>1, <3>2
  <2>3. QED
    BY <2>1, <2>2
<1>12. QED
  BY <1>3, <1>4, <1>8, <1>9, <1>10, <1>11 DEF Laid

\* The lists that FlattenSeq joins are laid in what it makes of them.
LEMMA Flattened ==
  ASSUME NEW n \in Nat, NEW ss, ss = [k \in 1..n |-> ss[k]], \A k \in 1..n : Complete(ss[k])
  PROVE  \E E : Laid(FlattenSeq(ss), ss, n, E)
<1> DEFINE IsFlat(f, k) == f = [i \in 1..k |-> IF i = 1 THEN ss[i] ELSE f[i - 1] \o ss[i]]
           S == {k \in 0..n : \E f : IsFlat(f, k)}
<1>1. DOMAIN ss = 1..n
  OBVIOUS
<1>2. Len(ss) = n /\ ss \in Seq({ss[k] : k \in 1..n})
  <2>1. ss \in [1..n -> {ss[k] : k \in 1..n}]
    OBVIOUS
  <2>2. QED
    BY <2>1, SeqDef, SMTT(30)
<1>3. \E f : IsFlat(f, n)
  <2>1. 0 \in S
    <3>1. IsFlat(<<>>, 0)
      OBVIOUS
    <3>2. 0 \in 0..n
      OBVIOUS
    <3> HIDE DEF IsFlat
    <3>3. QED
      BY <3>1, <3>2
  <2>2. ASSUME NEW k \in 1..n, k - 1 \in S PROVE k \in S
    <3>1. PICK f : IsFlat(f, k - 1)
      BY <2>2
    <3> DEFINE g == [i \in 1..k |-> IF i = k THEN (IF i = 1 THEN ss[i] ELSE f[i - 1] \o ss[i])
                                    ELSE f[i]]
    <3>2. ASSUME NEW i \in 1..k PROVE g[i] = IF i = 1 THEN ss[i] ELSE g[i - 1] \o ss[i]
      <4>1. CASE i = k
        <5>1. i = 1 \/ (i - 1 \in 1..k /\ i - 1 # k)
          BY <4>1
        <5>2. i # 1 => g[i - 1] = f[i - 1]
          BY <5>1
        <5>3. QED
          BY <4>1, <5>2
      <4>2. CASE i # k
        <5>1. i \in 1..(k - 1) /\ g[i] = f[i]
          BY <4>2
        <5>2. f[i] = IF i = 1 THEN ss[i] ELSE f[i - 1] \o ss[i]
          BY <3>1, <5>1
        <5>3. i # 1 => g[i - 1] = f[i - 1]
          <6>1. i # 1 => i - 1 \in 1..k /\ i - 1 # k
            BY <4>2
          <6>2. QED
            BY <6>1
        <5> HIDE DEF g
        <5>4. QED
          BY <5>1, <5>2, <5>3
      <4>3. QED
        BY <4>1, <4>2
    <3>3. g = [i \in 1..k |-> g[i]]
      OBVIOUS
    <3> HIDE DEF g
    <3>4. IsFlat(g, k)
      BY <3>2, <3>3
    <3> HIDE DEF IsFlat
    <3>5. QED
      BY <3>4
  <2> HIDE DEF IsFlat
  <2>3. 0..n \subseteq S
    <3> HIDE DEF S
    <3>1. QED
      BY <2>1, <2>2, UpTo
  <2>4. QED
    BY <2>3
<1>4. PICK f : IsFlat(f, n) /\ (n # 0 => FlattenSeq(ss) = f[n])
  <2> DEFINE f == CHOOSE f : IsFlat(f, n)
  <2>1. IsFlat(f, n)
    <3> HIDE DEF IsFlat
    <3>1. QED
      BY <1>3
  <2>2. n # 0 => FlattenSeq(ss) = f[n]
    BY <1>2 DEF FlattenSeq
  <2>3. QED
    BY <2>1, <2>2
<1>5. PICK g : /\ g = [k \in 0..n |-> IF k = 0 THEN <<>> ELSE f[k]]
               /\ g[n] = FlattenSeq(ss)
  <2> DEFINE g == [k \in 0..n |-> IF k = 0 THEN <<>> ELSE f[k]]
  <2>1. g[n] = FlattenSeq(ss)
    <3>1. CASE n = 0
      <4>1. ss = <<>>
        BY <1>2, <3>1, EmptySeq
      <4>2. FlattenSeq(ss) = ss
        BY <1>2, <3>1 DEF FlattenSeq
      <4>3. QED
        BY <3>1, <4>1, <4>2
    <3>2. CASE n # 0
      BY <1>4, <3>2
    <3>3. QED
      BY <3>1, <3>2
  <2>2. g = [k \in 0..n |-> IF k = 0 THEN <<>> ELSE f[k]]
    OBVIOUS
  <2> HIDE DEF g
  <2>3. QED
    BY <2>1, <2>2
<1>6. g[0] = <<>>
  BY <1>5
<1>7. ASSUME NEW k \in 1..n, Complete(g[k - 1]) PROVE g[k] = g[k - 1] \o ss[k]
  <2>a. f[k] = IF k = 1 THEN ss[k] ELSE f[k - 1] \o ss[k]
    <3>1. f = [i \in 1..n |-> IF i = 1 THEN ss[i] ELSE f[i - 1] \o ss[i]]
      BY <1>4
    <3>2. QED
      BY <3>1
  <2>b. k \in 0..n /\ k # 0
    OBVIOUS
  <2>c. g[k] = f[k]
    BY <1>5, <2>b
  <2>1. g[k] = f[k] /\ f[k] = IF k = 1 THEN ss[k] ELSE f[k - 1] \o ss[k]
    BY <2>a, <2>c
  <2>2. CASE k = 1
    <3>1. g[k - 1] = <<>>
      BY <1>6, <2>2
    <3>2. PICK T : ss[k] \in Seq(T)
      BY DEF Complete
    <3>3. <<>> \o ss[k] = ss[k]
      BY <3>2, ConcatEmptySeq
    <3>4. QED
      BY <2>1, <2>2, <3>1, <3>3
  <2>3. CASE k # 1
    <3>1. k - 1 \in 0..n /\ k - 1 # 0
      BY <2>3
    <3>2. g[k - 1] = f[k - 1]
      BY <1>5, <3>1
    <3>3. QED
      BY <2>1, <2>3, <3>2
  <2>4. QED
    BY <2>2, <2>3
<1> HIDE DEF IsFlat
<1> DEFINE E == [k \in 0..n |-> Len(g[k])]
           R == {k \in 0..n : Laid(g[k], ss, k, E)}
<1>8. 0 \in R
  <2>1. Complete(<<>>) /\ Len(<<>>) = 0
    <3>1. <<>> \in Seq({}) /\ DOMAIN <<>> = {} /\ Len(<<>>) = 0
      OBVIOUS
    <3>2. QED
      BY <3>1, Flat
  <2>2. E[0] = 0 /\ 0 \in 0..n
    BY <1>6, <2>1
  <2> HIDE DEF E
  <2>3. Laid(<<>>, ss, 0, E)
    BY <2>1, <2>2 DEF Laid
  <2>4. QED
    BY <1>6, <2>2, <2>3
<1>9. ASSUME NEW k \in 1..n, k - 1 \in R PROVE k \in R
  <2>1. Laid(g[k - 1], ss, k - 1, E) /\ Complete(g[k - 1]) /\ Complete(ss[k])
    BY <1>9 DEF Laid
  <2>2. g[k] = g[k - 1] \o ss[k]
    BY <1>7, <2>1
  <2>3. E[k] = Len(g[k]) /\ E[k - 1] = Len(g[k - 1])
    BY <1>9
  <2>4. E[k] = E[k - 1] + Len(ss[k])
    <3>1. PICK T : g[k - 1] \in Seq(T) /\ ss[k] \in Seq(T)
      BY <2>1, TypeOfBoth
    <3> HIDE DEF E
    <3>2. QED
      BY <2>2, <2>3, <3>1, OneBehindOther
  <2> HIDE DEF E, R
  <2>5. PICK a, b : a = g[k - 1] /\ b = ss[k]
    OBVIOUS
  <2>6. PICK m \in Nat : m = k - 1 /\ k = m + 1
    OBVIOUS
  <2>7. Laid(a \o b, ss, m + 1, E)
    BY <2>1, <2>4, <2>5, <2>6, LaidOn
  <2>8. Laid(g[k], ss, k, E)
    BY <2>2, <2>5, <2>6, <2>7
  <2>9. QED
    BY <2>8 DEF R
<1>10. Laid(g[n], ss, n, E)
  <2> HIDE DEF E
  <2>1. 0..n \subseteq R
    <3> HIDE DEF R
    <3>1. QED
      BY <1>8, <1>9, UpTo
  <2>2. QED
    BY <2>1
<1> HIDE DEF E
<1>11. QED
  BY <1>5, <1>10

-----------------------------------------------------------------------------
\* Positions in order

First(P, k) == {P[i] : i \in 1..k}
NotBehind(S, i) == {j \in S : j <= i}

LEMMA FirstCounted ==
  ASSUME NEW k \in Nat, NEW P, \A i \in 1..k : P[i] \in Nat,
         \A i \in 1..k : \A j \in 1..k : i < j => P[i] < P[j]
  PROVE  Cardinality(First(P, k)) = k
<1> DEFINE f == [i \in 1..k |-> P[i]]
<1>1. f \in Bijection(1..k, First(P, k))
  <2>1. f \in [1..k -> First(P, k)] /\ \A t \in First(P, k) : \E i \in 1..k : f[i] = t
    BY DEF First
  <2>2. ASSUME NEW i \in 1..k, NEW j \in 1..k, f[i] = f[j] PROVE i = j
    <3>1. P[i] = P[j] /\ P[i] \in Nat /\ ~(P[i] < P[i])
      BY <2>2
    <3>2. ~(i < j) /\ ~(j < i)
      BY <3>1
    <3>3. QED
      BY <3>2
  <2>3. QED
    BY <2>1, <2>2 DEF Bijection, Injection, Surjection, IsInjective
<1>2. IsFiniteSet(1..k) /\ Cardinality(1..k) = k
  BY FS_Interval
<1>3. ExistsBijection(1..k, First(P, k))
  BY <1>1 DEF ExistsBijection
<1>4. QED
  BY <1>2, <1>3, FS_Bijection

\* InOrder gives positions that were listed from the first to the last in that
\* order.
LEMMA InOrderIs ==
  ASSUME NEW n \in Nat, NEW P, P = [k \in 1..n |-> P[k]], \A i \in 1..n : P[i] \in Nat,
         \A i \in 1..n : \A j \in 1..n : i < j => P[i] < P[j]
  PROVE  InOrder(First(P, n)) = P
<1>1. PICK S : S = First(P, n) /\ Cardinality(S) = n
  BY FirstCounted
<1>2. ASSUME NEW k \in 1..n PROVE Cardinality(NotBehind(S, P[k])) = k
  <2>1. NotBehind(S, P[k]) = First(P, k)
    <3>1. ASSUME NEW i \in 1..n PROVE P[i] <= P[k] <=> i \in 1..k
      <4>1. CASE i <= k
        <5>1. i = k \/ i < k
          BY <4>1
        <5>2. P[i] \in Nat /\ P[k] \in Nat
          OBVIOUS
        <5>3. P[i] <= P[k]
          BY <5>1, <5>2
        <5>4. QED
          BY <4>1, <5>3
      <4>2. CASE k < i
        <5>1. P[k] < P[i] /\ P[i] \in Nat /\ P[k] \in Nat
          BY <4>2
        <5>2. QED
          BY <4>2, <5>1
      <4>3. QED
        BY <4>1, <4>2
    <3>2. 1..k \subseteq 1..n
      OBVIOUS
    <3>3. QED
      BY <1>1, <3>1, <3>2 DEF First, NotBehind
  <2>2. PICK m \in Nat : m = k /\ 1..m \subseteq 1..n
    OBVIOUS
  <2>3. /\ \A i \in 1..m : P[i] \in Nat
        /\ \A i \in 1..m : \A j \in 1..m : i < j => P[i] < P[j]
    BY <2>2
  <2>4. Cardinality(First(P, m)) = m
    BY <2>3, FirstCounted
  <2>5. QED
    BY <2>1, <2>2, <2>4
<1>3. ASSUME NEW k \in 1..n
      PROVE  (CHOOSE i \in S : Cardinality(NotBehind(S, i)) = k) = P[k]
  <2>1. P[k] \in S
    BY <1>1 DEF First
  <2>2. ASSUME NEW i \in S, Cardinality(NotBehind(S, i)) = k PROVE i = P[k]
    <3>1. PICK m \in 1..n : i = P[m]
      BY <1>1 DEF First
    <3>2. m = k
      BY <1>2, <2>2, <3>1
    <3>3. QED
      BY <3>1, <3>2
  <2>3. QED
    BY <1>2, <2>1, <2>2
<1>4. InOrder(S) = [k \in 1..n |-> CHOOSE i \in S : Cardinality(NotBehind(S, i)) = k]
  BY <1>1 DEF InOrder, NotBehind
<1>5. InOrder(S) = [k \in 1..n |-> P[k]]
  BY <1>3, <1>4
<1>6. QED
  BY <1>1, <1>5

\* Ends that do not go back are in order.
LEMMA EndsInOrder ==
  ASSUME NEW n \in Nat, NEW E, \A k \in 0..n : E[k] \in Nat, \A k \in 1..n : E[k - 1] <= E[k],
         NEW j \in 0..n, NEW k \in 0..n, j <= k
  PROVE  E[j] <= E[k]
<1> DEFINE S == {i \in 0..n : j <= i => E[j] <= E[i]}
<1>1. 0 \in S
  <2>1. j <= 0 => j = 0
    OBVIOUS
  <2>2. QED
    BY <2>1
<1>2. ASSUME NEW i \in 1..n, i - 1 \in S PROVE i \in S
  <2>1. i - 1 \in 0..n /\ i \in 0..n
    OBVIOUS
  <2>2. E[i - 1] \in Nat /\ E[i] \in Nat /\ E[j] \in Nat /\ E[i - 1] <= E[i]
    BY <2>1
  <2>3. ASSUME j <= i PROVE E[j] <= E[i]
    <3>1. CASE j = i
      BY <2>2, <3>1
    <3>2. CASE j <= i - 1
      <4>1. E[j] <= E[i - 1]
        BY <1>2, <3>2
      <4>2. QED
        BY <2>2, <4>1
    <3>3. QED
      BY <2>3, <3>1, <3>2
  <2>4. QED
    BY <2>1, <2>3
<1>3. 0..n \subseteq S
  <2> HIDE DEF S
  <2>1. QED
    BY <1>1, <1>2, UpTo
<1>4. QED
  BY <1>3

\* Where lists that are not empty start, in order, in the list they are laid in.
LEMMA StartsInOrder ==
  ASSUME NEW n \in Nat, NEW ss, NEW E, NEW flat, Laid(flat, ss, n, E),
         \A k \in 1..n : Len(ss[k]) >= 1
  PROVE  /\ \A j \in 1..n : \A k \in 1..n : j < k => E[j - 1] + 1 < E[k - 1] + 1
         /\ \A k \in 1..n : E[k - 1] + 1 \in Nat
         /\ \A j \in 1..n : \A k \in 1..n : E[j - 1] + 1 = E[k - 1] + 1 => j = k
<1>1. /\ \A k \in 0..n : E[k] \in Nat
      /\ \A k \in 1..n : Len(ss[k]) \in Nat /\ E[k] = E[k - 1] + Len(ss[k])
  BY DEF Laid
<1>2. ASSUME NEW k \in 1..n PROVE E[k - 1] + 1 <= E[k] /\ E[k - 1] <= E[k] /\ E[k - 1] + 1 \in Nat
  <2>1. k - 1 \in 0..n /\ k \in 0..n
    OBVIOUS
  <2>2. E[k - 1] \in Nat /\ Len(ss[k]) \in Nat /\ Len(ss[k]) >= 1 /\ E[k] = E[k - 1] + Len(ss[k])
    BY <1>1, <2>1
  <2>3. QED
    BY <2>2
<1>3. ASSUME NEW j \in 1..n, NEW k \in 1..n, j < k PROVE E[j - 1] + 1 < E[k - 1] + 1
  <2>1. j \in 0..n /\ k - 1 \in 0..n /\ j <= k - 1 /\ j - 1 \in 0..n
    BY <1>3
  <2>2. E[j] <= E[k - 1]
    <3>1. /\ \A i \in 0..n : E[i] \in Nat
          /\ \A i \in 1..n : E[i - 1] <= E[i]
      BY <1>1, <1>2
    <3>2. PICK m \in 0..n : m = k - 1
      BY <2>1
    <3>3. E[j] <= E[m]
      BY <2>1, <3>1, <3>2, EndsInOrder
    <3>4. QED
      BY <3>2, <3>3
  <2>3. E[j] \in Nat /\ E[k - 1] \in Nat /\ E[j - 1] \in Nat /\ E[j - 1] + 1 <= E[j]
    BY <1>1, <1>2, <2>1
  <2>4. QED
    BY <2>2, <2>3
<1>4. ASSUME NEW j \in 1..n, NEW k \in 1..n, E[j - 1] + 1 = E[k - 1] + 1 PROVE j = k
  <2>1. ~(E[j - 1] + 1 < E[k - 1] + 1) /\ ~(E[k - 1] + 1 < E[j - 1] + 1)
    <3>1. PICK x \in Nat : x = E[j - 1] + 1
      BY <1>2
    <3>2. x = E[k - 1] + 1 /\ ~(x < x)
      BY <1>4, <3>1
    <3>3. QED
      BY <3>1, <3>2
  <2>2. ~(j < k) /\ ~(k < j)
    BY <1>3, <2>1
  <2>3. QED
    BY <2>2
<1>5. QED
  BY <1>2, <1>3, <1>4

-----------------------------------------------------------------------------
\* What is read of a list of properties, or of many properties

\* A value with another one constructed behind it: an object and what is asked
\* or told of it, a property and what it is.
Entry(n, body, number, list) == <<context(n, body)>> \o constructed(number, list)

LEMMA EntryTags ==
  ASSUME NEW n, NEW body, NEW number, NEW list, Complete(list)
  PROVE  LET tags == Entry(n, body, number, list)
         IN  /\ Complete(tags) /\ Len(list) \in Nat /\ Len(tags) = Len(list) + 3
             /\ tags[1] = context(n, body) /\ At(tags, 1) = 0
             /\ tags[2] = opening(number) /\ At(tags, 2) = 1
             /\ \A i \in 1..Len(list) : /\ tags[2 + i] = list[i]
                                        /\ At(tags, 2 + i) = 1 + At(list, i)
             /\ tags[Len(list) + 3] = closing(number) /\ At(tags, Len(list) + 3) = 0
<1>1. PICK T : /\ list \in Seq(T) /\ opening(number) \in T /\ closing(number) \in T
               /\ context(n, body) \in T
  <2> DEFINE T == {list[i] : i \in DOMAIN list}
                     \union {opening(number), closing(number), context(n, body)}
  <2>1. list \in Seq({list[i] : i \in DOMAIN list})
    BY DEF Complete
  <2>2. list \in Seq(T)
    BY <2>1
  <2>3. QED
    BY <2>2
<1>2. PICK m \in Nat : m = Len(list)
  BY <1>1
<1>3. PICK back : back = constructed(number, list)
  OBVIOUS
<1>4. /\ back \in Seq(T) /\ Len(back) = m + 2 /\ Complete(back)
      /\ back[1] = opening(number) /\ At(back, 1) = 1
      /\ \A i \in 1..m : back[1 + i] = list[i] /\ At(back, 1 + i) = 1 + At(list, i)
      /\ back[m + 2] = closing(number) /\ At(back, m + 2) = 0
  <2>1. Depth(list) = 0
    BY DEF Complete
  <2>2. Complete(back)
    BY <1>3, NestedFields
  <2>3. QED
    BY <1>1, <1>2, <1>3, <2>1, <2>2, ConstructedTags
<1>5. PICK c \in T : c = context(n, body) /\ c.kind = "value"
  BY <1>1 DEF context, Tag
<1>6. PICK one \in Seq(T) : one = <<c>> /\ Len(one) = 1 /\ one[1] = c /\ DOMAIN one = {1}
  <2>1. <<c>> \in Seq(T) /\ Len(<<c>>) = 1 /\ <<c>>[1] = c /\ DOMAIN <<c>> = {1}
    OBVIOUS
  <2>2. QED
    BY <2>1
<1>7. Complete(one) /\ At(one, 1) = 0 /\ Depth(one) = 0
  <2>1. \A i \in DOMAIN one : one[i].kind = "value"
    BY <1>5, <1>6
  <2>2. Complete(one) /\ \A i \in DOMAIN one : At(one, i) = 0
    BY <2>1, Flat
  <2>3. QED
    BY <1>6, <2>2 DEF Complete
<1>8. PICK tags : tags = one \o back
  OBVIOUS
<1>9. /\ Complete(tags) /\ Len(tags) = 1 + (m + 2)
      /\ tags[1] = c /\ At(tags, 1) = 0
      /\ \A i \in 1..(m + 2) : tags[1 + i] = back[i] /\ At(tags, 1 + i) = At(back, i)
  <2>1. Complete(tags)
    BY <1>4, <1>7, <1>8, FieldsOfBoth
  <2>2. /\ Len(tags) = 1 + (m + 2)
        /\ \A i \in 1..1 : tags[i] = one[i]
        /\ \A i \in 1..(m + 2) : tags[1 + i] = back[i]
    BY <1>4, <1>6, <1>8, OneBehindOther
  <2>3. /\ \A i \in 1..1 : At(tags, i) = At(one, i)
        /\ \A i \in 1..(m + 2) : At(tags, 1 + i) = 0 + At(back, i)
    <3>1. /\ \A i \in 1..Len(one) : At(one \o back, i) = At(one, i)
          /\ \A i \in 1..Len(back) : At(one \o back, Len(one) + i) = Depth(one) + At(back, i)
      BY <1>4, DepthsOfBoth
    <3>2. QED
      BY <1>4, <1>6, <1>7, <1>8, <3>1
  <2>4. \A i \in 1..(m + 2) : At(back, i) \in Nat
    BY <1>4, DepthsWithin
  <2>5. \A x \in Nat : 0 + x = x
    OBVIOUS
  <2>6. QED
    BY <1>6, <1>7, <2>1, <2>2, <2>3, <2>4, <2>5
<1>10. /\ 1 \in 1..(m + 2) /\ m + 2 \in 1..(m + 2) /\ 1 + (m + 2) = m + 3 /\ 1 + 1 = 2
       /\ \A i \in 1..m : 1 + i \in 1..(m + 2) /\ 1 + (1 + i) = 2 + i
  OBVIOUS
<1>11. /\ tags[2] = opening(number) /\ At(tags, 2) = 1
       /\ tags[m + 3] = closing(number) /\ At(tags, m + 3) = 0
       /\ \A i \in 1..m : tags[2 + i] = list[i] /\ At(tags, 2 + i) = 1 + At(list, i)
  BY <1>4, <1>9, <1>10
<1>12. tags = Entry(n, body, number, list)
  BY <1>3, <1>5, <1>6, <1>8 DEF Entry
<1>13. QED
  BY <1>2, <1>5, <1>9, <1>10, <1>11, <1>12

\* One reference to a property, with an index or without.
Reference(property, index) == <<context(0, property)>> \o optional(1, index)

LEMMA ReferenceTags ==
  ASSUME NEW property, NEW index
  PROVE  LET tags == Reference(property, index)
         IN  /\ Complete(tags) /\ Len(tags) \in {1, 2} /\ tags[1] = context(0, property)
             /\ \A i \in 1..Len(tags) : i # 1 => tags[i] = context(1, index)
<1>1. PICK a, b : a = context(0, property) /\ b = context(1, index)
  OBVIOUS
<1>2. a.kind = "value" /\ b.kind = "value"
  BY <1>1 DEF context, Tag
<1>3. CASE index = None
  <2>1. PICK tags : tags = <<a>>
    OBVIOUS
  <2>2. tags \in Seq({a}) /\ Len(tags) = 1 /\ DOMAIN tags = {1} /\ tags[1] = a
    BY <2>1
  <2>3. Complete(tags)
    BY <1>2, <2>2, Flat
  <2>4. tags = Reference(property, index)
    <3>1. <<a>> \o <<>> = <<a>>
      <4>1. <<a>> \in Seq({a})
        OBVIOUS
      <4>2. QED
        BY <4>1, ConcatEmptySeq
    <3>2. QED
      BY <1>1, <1>3, <2>1, <3>1 DEF Reference, optional
  <2>5. /\ Len(tags) \in {1, 2} /\ tags[1] = context(0, property)
        /\ \A i \in 1..Len(tags) : i # 1 => tags[i] = context(1, index)
    BY <1>1, <2>2
  <2>6. QED
    BY <2>3, <2>4, <2>5
<1>4. CASE index # None
  <2>1. PICK one \in Seq({a, b}), two \in Seq({a, b}) :
          one = <<a>> /\ two = <<b>> /\ Len(one) = 1 /\ Len(two) = 1 /\ one[1] = a /\ two[1] = b
    <3>1. /\ <<a>> \in Seq({a, b}) /\ <<b>> \in Seq({a, b}) /\ Len(<<a>>) = 1 /\ Len(<<b>>) = 1
          /\ <<a>>[1] = a /\ <<b>>[1] = b
      OBVIOUS
    <3>2. QED
      BY <3>1
  <2>2. PICK tags : tags = one \o two
    OBVIOUS
  <2>3. tags \in Seq({a, b}) /\ Len(tags) = 2 /\ tags[1] = a /\ tags[2] = b
    <3>1. /\ tags \in Seq({a, b}) /\ Len(tags) = 1 + 1
          /\ \A i \in 1..1 : tags[i] = one[i]
          /\ \A i \in 1..1 : tags[1 + i] = two[i]
      BY <2>1, <2>2, OneBehindOther
    <3>2. QED
      BY <2>1, <3>1
  <2>4. DOMAIN tags = {1, 2}
    BY <2>3
  <2>5. Complete(tags)
    BY <1>2, <2>3, <2>4, Flat
  <2>6. tags = Reference(property, index)
    BY <1>1, <1>4, <2>1, <2>2 DEF Reference, optional
  <2>7. /\ Len(tags) \in {1, 2} /\ tags[1] = context(0, property)
        /\ \A i \in 1..Len(tags) : i # 1 => tags[i] = context(1, index)
    BY <1>1, <2>3
  <2>8. QED
    BY <2>5, <2>6, <2>7
<1>5. QED
  BY <1>3, <1>4

\* property_references reads of a list of references the properties.
References(references) ==
  FlattenSeq([i \in DOMAIN references |->
    Reference(references[i].property, references[i].array_index)])

LEMMA ReferencesRead ==
  ASSUME NEW n \in Nat, NEW references, DOMAIN references = 1..n
  PROVE  /\ Complete(References(references))
         /\ property_references(References(references)) = [j \in 1..n |-> references[j].property]
<1>1. PICK ss : ss = [i \in 1..n |-> Reference(references[i].property, references[i].array_index)]
  OBVIOUS
<1>2. PICK list : list = FlattenSeq(ss) /\ list = References(references)
  BY <1>1 DEF References
<1>3. ASSUME NEW k \in 1..n
      PROVE  /\ Complete(ss[k]) /\ Len(ss[k]) \in {1, 2}
             /\ ss[k][1].body = references[k].property /\ IsValue(ss[k][1], 0)
             /\ \A i \in 1..Len(ss[k]) : i # 1 => ~IsValue(ss[k][i], 0)
  <2>1. /\ Complete(ss[k]) /\ Len(ss[k]) \in {1, 2}
        /\ ss[k][1] = context(0, references[k].property)
        /\ \A i \in 1..Len(ss[k]) : i # 1 => ss[k][i] = context(1, references[k].array_index)
    BY <1>1, ReferenceTags
  <2>2. ~IsValue(context(1, references[k].array_index), 0)
    BY DEF IsValue, context, Tag
  <2>3. IsValue(context(0, references[k].property), 0)
        /\ context(0, references[k].property).body = references[k].property
    BY DEF IsValue, context, Tag
  <2>4. QED
    BY <2>1, <2>2, <2>3
<1>4. PICK E : Laid(list, ss, n, E)
  <2>1. ss = [k \in 1..n |-> ss[k]]
    BY <1>1
  <2>2. QED
    BY <1>2, <1>3, <2>1, Flattened
<1>5. PICK P : P = [k \in 1..n |-> E[k - 1] + 1]
  OBVIOUS
<1>6. /\ \A i \in 1..n : P[i] \in Nat
      /\ \A i \in 1..n : \A j \in 1..n : i < j => P[i] < P[j]
  <2>1. \A k \in 1..n : Len(ss[k]) >= 1
    BY <1>3
  <2>2. QED
    BY <1>4, <1>5, <2>1, StartsInOrder
<1>7. DOMAIN list = 1..E[n]
  BY <1>4, DepthsWithin DEF Laid
<1>8. {j \in DOMAIN list : IsValue(list[j], 0)} = First(P, n)
  <2>1. ASSUME NEW j \in DOMAIN list, IsValue(list[j], 0) PROVE j \in First(P, n)
    <3>1. PICK k \in 1..n : \E i \in 1..Len(ss[k]) : j = E[k - 1] + i
      BY <1>4, <1>7, ZenonT(60) DEF Laid
    <3>2. PICK i \in 1..Len(ss[k]) : j = E[k - 1] + i
      BY <3>1
    <3>3. list[j] = ss[k][i]
      BY <1>4, <3>2 DEF Laid
    <3>4. i = 1
      BY <1>3, <2>1, <3>3
    <3>5. QED
      BY <1>5, <3>2, <3>4 DEF First
  <2>2. ASSUME NEW k \in 1..n PROVE P[k] \in DOMAIN list /\ IsValue(list[P[k]], 0)
    <3>1. 1 \in 1..Len(ss[k])
      BY <1>3
    <3>2. E[k - 1] + 1 \in 1..E[n] /\ list[E[k - 1] + 1] = ss[k][1]
      BY <1>4, <3>1 DEF Laid
    <3>3. QED
      BY <1>3, <1>5, <1>7, <3>2
  <2>3. QED
    BY <2>1, <2>2 DEF First
<1>9. InOrder(First(P, n)) = P
  BY <1>5, <1>6, InOrderIs
<1>10. ASSUME NEW k \in 1..n PROVE list[P[k]].body = references[k].property
  <2>1. 1 \in 1..Len(ss[k])
    BY <1>3
  <2>2. list[E[k - 1] + 1] = ss[k][1]
    BY <1>4, <2>1 DEF Laid
  <2>3. QED
    BY <1>3, <1>5, <2>2
<1>11. property_references(list) = [j \in 1..n |-> references[j].property]
  <2>1. DOMAIN P = 1..n
    BY <1>5
  <2>2. property_references(list) = [j \in DOMAIN P |-> list[P[j]].body]
    BY <1>8, <1>9 DEF property_references
  <2>3. QED
    BY <1>10, <2>1, <2>2
<1>12. Complete(list)
  BY <1>4 DEF Laid
<1>13. QED
  BY <1>1, <1>2, <1>11, <1>12

\* The tags of an entry, at a position of a list.
EntryAt(flat, s, a, body, number, list) ==
  /\ s \in DOMAIN flat /\ flat[s] = context(a, body) /\ At(flat, s) = 0
  /\ s + 1 \in DOMAIN flat /\ flat[s + 1] = opening(number) /\ At(flat, s + 1) = 1
  /\ \A i \in 1..Len(list) : /\ s + 1 + i \in DOMAIN flat
                             /\ flat[s + 1 + i] = list[i]
                             /\ At(flat, s + 1 + i) = 1 + At(list, i)
  /\ s + Len(list) + 2 \in DOMAIN flat /\ flat[s + Len(list) + 2] = closing(number)
  /\ inside(flat, s + 2) = list

LEMMA LaidFrom ==
  ASSUME NEW flat, NEW ss, NEW n \in Nat, NEW E, Laid(flat, ss, n, E), NEW k \in 1..n
  PROVE  E[k - 1] \in Nat /\ E[k - 1] + 1 \in Nat /\ E[k - 1] + 1 >= 1
<1>1. k - 1 \in 0..n
  OBVIOUS
<1>2. PICK e \in Nat : e = E[k - 1]
  BY <1>1 DEF Laid
<1>3. QED
  BY <1>2

LEMMA EntryLaid ==
  ASSUME NEW flat, NEW ss, NEW n \in Nat, NEW E, Laid(flat, ss, n, E), NEW k \in 1..n,
         NEW a, NEW body, NEW number, NEW list, Complete(list),
         ss[k] = Entry(a, body, number, list)
  PROVE  EntryAt(flat, E[k - 1] + 1, a, body, number, list)
<1>1. PICK m \in Nat, x \in Nat : m = Len(list) /\ x = E[k - 1]
  <2>1. k - 1 \in 0..n
    OBVIOUS
  <2>2. QED
    BY <2>1, DepthsWithin DEF Laid
<1>2. PICK tags : tags = ss[k]
  OBVIOUS
<1>3. /\ Len(tags) = m + 3
      /\ tags[1] = context(a, body) /\ At(tags, 1) = 0
      /\ tags[2] = opening(number) /\ At(tags, 2) = 1
      /\ \A i \in 1..m : tags[2 + i] = list[i] /\ At(tags, 2 + i) = 1 + At(list, i)
      /\ tags[m + 3] = closing(number)
  BY <1>1, <1>2, EntryTags
<1>4. PICK N \in Nat : N = E[n] /\ DOMAIN flat = 1..N /\ N = Len(flat)
  BY DepthsWithin DEF Laid
<1>5. /\ \A i \in 1..(m + 3) : /\ x + i \in 1..N /\ flat[x + i] = tags[i]
                               /\ At(flat, x + i) = At(tags, i)
      /\ E[k] = x + (m + 3)
  BY <1>1, <1>2, <1>3, <1>4 DEF Laid
<1>6. PICK s \in Nat : s = x + 1
  OBVIOUS
<1>7. /\ 1 \in 1..(m + 3) /\ 2 \in 1..(m + 3) /\ m + 3 \in 1..(m + 3)
      /\ x + 1 = s /\ x + 2 = s + 1 /\ x + (m + 3) = s + m + 2 /\ x + (m + 3) = s + 2 + m
      /\ \A i \in 1..m : 2 + i \in 1..(m + 3) /\ x + (2 + i) = s + 1 + i
  BY <1>6
<1>8. /\ s \in DOMAIN flat /\ flat[s] = context(a, body) /\ At(flat, s) = 0
      /\ s + 1 \in DOMAIN flat /\ flat[s + 1] = opening(number) /\ At(flat, s + 1) = 1
      /\ \A i \in 1..m : /\ s + 1 + i \in DOMAIN flat
                         /\ flat[s + 1 + i] = list[i]
                         /\ At(flat, s + 1 + i) = 1 + At(list, i)
      /\ s + 2 + m \in 1..N /\ flat[s + 2 + m] = closing(number)
  <2>1. s \in DOMAIN flat /\ flat[s] = context(a, body) /\ At(flat, s) = 0
    BY <1>3, <1>4, <1>5, <1>7
  <2>2. s + 1 \in DOMAIN flat /\ flat[s + 1] = opening(number) /\ At(flat, s + 1) = 1
    BY <1>3, <1>4, <1>5, <1>7
  <2>3. s + 2 + m \in 1..N /\ flat[s + 2 + m] = closing(number)
    BY <1>3, <1>4, <1>5, <1>7
  <2>4. ASSUME NEW i \in 1..m
        PROVE  /\ s + 1 + i \in DOMAIN flat /\ flat[s + 1 + i] = list[i]
               /\ At(flat, s + 1 + i) = 1 + At(list, i)
    BY <1>3, <1>4, <1>5, <1>7, ZenonT(60)
  <2>5. QED
    BY <2>1, <2>2, <2>3, <2>4
<1>9. inside(flat, s + 2) = list
  <2>1. PICK T : list \in Seq(T) /\ flat \in Seq(T)
    BY TypeOfBoth DEF Laid
  <2>2. PICK t \in Nat \ {0} : t = s + 2
    OBVIOUS
  <2>3. ASSUME NEW i \in 1..m PROVE flat[t + i - 1] = list[i]
    <3>1. t + i - 1 = s + 1 + i
      BY <2>2
    <3>2. QED
      BY <1>8, <3>1
  <2>4. t + m <= Len(flat) /\ flat[t + m].kind = "close"
    BY <1>4, <1>8, <2>2 DEF closing, Tag
  <2>5. (\A i \in 1..Len(list) : Depth(SubSeq(list, 1, i)) >= 0) /\ Depth(list) = 0
    BY <2>1 DEF Complete
  <2>6. inside(flat, t) = list
    BY <1>1, <2>1, <2>3, <2>4, <2>5, InsideIsWhole, ZenonT(30)
  <2>7. QED
    BY <2>2, <2>6
<1>10. s = E[k - 1] + 1
  BY <1>1, <1>6
<1>11. EntryAt(flat, s, a, body, number, list)
  <2>1. s + m + 2 \in DOMAIN flat /\ flat[s + m + 2] = closing(number)
    <3>1. s + 2 + m = s + m + 2
      OBVIOUS
    <3>2. QED
      BY <1>4, <1>8, <3>1
  <2>2. QED
    BY <1>1, <1>8, <1>9, <2>1 DEF EntryAt
<1>12. QED
  BY <1>10, <1>11

\* A tag of one of many entries that is not its first is within what the second
\* opens, or closes it.
InEntry(flat, p, i, number, list) ==
  /\ p \in DOMAIN flat
  /\ i = Len(list) + 3 => flat[p].kind = "close"
  /\ i # Len(list) + 3 => At(flat, p) >= 1
  /\ i = 2 => flat[p] = opening(number) /\ At(flat, p) = 1
  /\ i \notin {2, Len(list) + 3} =>
       \E j \in 1..Len(list) : i = 2 + j /\ flat[p] = list[j] /\ At(flat, p) = 1 + At(list, j)

LEMMA BehindEntry ==
  ASSUME NEW flat, NEW ss, NEW n \in Nat, NEW E, Laid(flat, ss, n, E), NEW k \in 1..n,
         NEW a, NEW body, NEW number, NEW list, Complete(list),
         ss[k] = Entry(a, body, number, list), NEW i \in 1..Len(ss[k]), i # 1
  PROVE  InEntry(flat, E[k - 1] + i, i, number, list)
<1>1. PICK m \in Nat : m = Len(list)
  BY DepthsWithin
<1>2. PICK tags : tags = ss[k]
  OBVIOUS
<1>3. /\ Len(tags) = m + 3
      /\ tags[2] = opening(number) /\ At(tags, 2) = 1
      /\ \A j \in 1..m : tags[2 + j] = list[j] /\ At(tags, 2 + j) = 1 + At(list, j)
      /\ tags[m + 3] = closing(number)
  BY <1>1, <1>2, EntryTags
<1>4. i \in 1..(m + 3) /\ (i = 2 \/ i = m + 3 \/ \E j \in 1..m : i = 2 + j)
  <2>1. i \in 1..(m + 3)
    BY <1>2, <1>3
  <2>2. ASSUME i # 2, i # m + 3 PROVE \E j \in 1..m : i = 2 + j
    <3>1. i - 2 \in 1..m /\ i = 2 + (i - 2)
      BY <2>1, <2>2
    <3>2. QED
      BY <3>1
  <2>3. QED
    BY <2>1, <2>2
<1>5. PICK p : p = E[k - 1] + i /\ p \in DOMAIN flat /\ flat[p] = tags[i] /\ At(flat, p) = At(tags, i)
  <2>1. DOMAIN flat = 1..E[n]
    BY DepthsWithin DEF Laid
  <2>2. QED
    BY <1>2, <2>1 DEF Laid
<1>6. CASE i = m + 3
  <2>1. flat[p].kind = "close" /\ i # 2
    BY <1>3, <1>5, <1>6 DEF closing, Tag
  <2>2. QED
    BY <1>1, <1>5, <1>6, <2>1 DEF InEntry
<1>7. CASE i = 2
  <2>1. i # m + 3 /\ flat[p] = opening(number) /\ At(flat, p) = 1 /\ At(flat, p) >= 1
    BY <1>3, <1>5, <1>7
  <2>2. QED
    BY <1>1, <1>5, <1>7, <2>1 DEF InEntry
<1>8. CASE \E j \in 1..m : i = 2 + j
  <2>1. PICK j \in 1..m : i = 2 + j
    BY <1>8
  <2>2. i # 2 /\ i # m + 3
    BY <2>1
  <2>3. flat[p] = list[j] /\ At(flat, p) = 1 + At(list, j) /\ At(list, j) \in Nat
    BY <1>1, <1>3, <1>5, <2>1, DepthsWithin
  <2>4. At(flat, p) >= 1
    <3>1. \A x \in Nat : 1 + x >= 1
      OBVIOUS
    <3>2. QED
      BY <2>3, <3>1
  <2>5. QED
    BY <1>1, <1>5, <2>1, <2>2, <2>3, <2>4 DEF InEntry
<1>9. QED
  BY <1>4, <1>6, <1>7, <1>8

\* Where the objects of a request stand, those of them that no other with the
\* same object stands before, and all that are about the one at i.
Starts(tags) == {i \in DOMAIN tags : IsValue(tags[i], 0) /\ Depth(SubSeq(tags, 1, i)) = 0}
FirstAbout(tags, S) == {i \in S : \A j \in S : tags[j].body = tags[i].body => i <= j}
AllAbout(tags, S, i) == {j \in S : tags[j].body = tags[i].body}

\* A request as a list of entries.
Asked(specifications) ==
  [k \in DOMAIN specifications |->
     Entry(0, specifications[k].object, 1, References(specifications[k].references))]

\* What a request asks.
AskedFor(specifications) ==
  [k \in DOMAIN specifications |->
     [object |-> specifications[k].object,
      properties |-> [j \in DOMAIN specifications[k].references |->
                        specifications[k].references[j].property]]]

LEMMA SpecificationsRead ==
  ASSUME NEW n \in Nat, NEW specifications, DOMAIN specifications = 1..n,
         \A k \in 1..n : \E m \in Nat : DOMAIN specifications[k].references = 1..m,
         \A j, k \in 1..n : specifications[j].object = specifications[k].object => j = k
  PROVE  read_access_specifications(FlattenSeq(Asked(specifications)))
         = AskedFor(specifications)
<1>2. PICK R : R = [k \in 1..n |-> References(specifications[k].references)]
  OBVIOUS
<1>3. ASSUME NEW k \in 1..n
      PROVE  /\ Complete(R[k])
             /\ property_references(R[k])
                  = [j \in DOMAIN specifications[k].references |->
                       specifications[k].references[j].property]
  <2>1. PICK references : references = specifications[k].references
    OBVIOUS
  <2>2. PICK m \in Nat : DOMAIN references = 1..m
    BY <2>1
  <2>3. R[k] = References(references)
    BY <1>2, <2>1
  <2>4. /\ Complete(R[k])
        /\ property_references(R[k]) = [j \in 1..m |-> references[j].property]
    BY <2>2, <2>3, ReferencesRead
  <2>5. QED
    BY <2>1, <2>2, <2>4
<1>4. PICK ss : ss = [k \in 1..n |-> Entry(0, specifications[k].object, 1, R[k])]
  OBVIOUS
<1>5. PICK flat : flat = FlattenSeq(ss)
  OBVIOUS
<1>6. FlattenSeq(Asked(specifications)) = flat
  BY <1>2, <1>4, <1>5 DEF Asked
<1>7. /\ \A k \in 1..n : ss[k] = Entry(0, specifications[k].object, 1, R[k])
      /\ \A k \in 1..n : Complete(ss[k]) /\ Complete(R[k]) /\ Len(ss[k]) >= 1
  <2>1. ASSUME NEW k \in 1..n
        PROVE  /\ ss[k] = Entry(0, specifications[k].object, 1, R[k])
               /\ Complete(ss[k]) /\ Complete(R[k]) /\ Len(ss[k]) >= 1
    <3>1. ss[k] = Entry(0, specifications[k].object, 1, R[k])
      BY <1>4
    <3>2. Complete(R[k])
      BY <1>3
    <3>3. Complete(ss[k]) /\ Len(R[k]) \in Nat /\ Len(ss[k]) = Len(R[k]) + 3
      BY <3>1, <3>2, EntryTags
    <3>4. QED
      BY <3>1, <3>2, <3>3
  <2>2. QED
    BY <2>1
<1>8. PICK E : Laid(flat, ss, n, E)
  <2>1. ss = [k \in 1..n |-> ss[k]]
    BY <1>4
  <2>2. QED
    BY <1>5, <1>7, <2>1, Flattened
<1>9. PICK P : P = [k \in 1..n |-> E[k - 1] + 1]
  OBVIOUS
<1>10. /\ \A i \in 1..n : P[i] \in Nat
       /\ \A i \in 1..n : \A j \in 1..n : i < j => P[i] < P[j]
       /\ \A i \in 1..n : \A j \in 1..n : P[i] = P[j] => i = j
  <2>1. /\ \A j \in 1..n : \A k \in 1..n : j < k => E[j - 1] + 1 < E[k - 1] + 1
        /\ \A k \in 1..n : E[k - 1] + 1 \in Nat
        /\ \A j \in 1..n : \A k \in 1..n : E[j - 1] + 1 = E[k - 1] + 1 => j = k
    <3>1. \A k \in 1..n : Len(ss[k]) >= 1
      BY <1>7
    <3>2. QED
      BY <1>8, <3>1, StartsInOrder
  <2>2. QED
    BY <1>9, <2>1
<1>11. ASSUME NEW k \in 1..n
       PROVE  /\ P[k] \in DOMAIN flat /\ flat[P[k]] = context(0, specifications[k].object)
              /\ At(flat, P[k]) = 0 /\ inside(flat, P[k] + 2) = R[k]
  <2>1. ss[k] = Entry(0, specifications[k].object, 1, R[k]) /\ Complete(R[k])
    BY <1>7
  <2>2. EntryAt(flat, E[k - 1] + 1, 0, specifications[k].object, 1, R[k])
    BY <1>8, <2>1, EntryLaid
  <2>3. P[k] = E[k - 1] + 1
    BY <1>9
  <2>4. EntryAt(flat, P[k], 0, specifications[k].object, 1, R[k])
    BY <2>2, <2>3
  <2>5. QED
    BY <2>4 DEF EntryAt
<1>12. PICK starts : starts = Starts(flat)
  OBVIOUS
<1>13. starts = First(P, n)
  <2>1. ASSUME NEW p \in starts PROVE p \in First(P, n)
    <3>1. p \in DOMAIN flat /\ flat[p].kind = "value" /\ At(flat, p) = 0
      BY <1>12 DEF Starts, IsValue, At
    <3>2. p \in 1..E[n]
      BY <1>8, <3>1, DepthsWithin DEF Laid
    <3>3. PICK k \in 1..n : \E i \in 1..Len(ss[k]) : p = E[k - 1] + i
      BY <1>8, <3>2 DEF Laid
    <3>4. PICK i \in 1..Len(ss[k]) : p = E[k - 1] + i
      BY <3>3
    <3>5. CASE i = 1
      BY <1>9, <3>4, <3>5 DEF First
    <3>6. CASE i # 1
      <4>1. flat[p].kind = "close" \/ At(flat, p) >= 1
        <5>1. ss[k] = Entry(0, specifications[k].object, 1, R[k]) /\ Complete(R[k])
          BY <1>7
        <5>2. QED
          <6>1. InEntry(flat, p, i, 1, R[k])
            BY <1>8, <3>4, <3>6, <5>1, BehindEntry
          <6>2. QED
            BY <6>1 DEF InEntry
      <4>2. QED
        BY <3>1, <4>1
    <3>7. QED
      BY <3>5, <3>6
  <2>2. ASSUME NEW k \in 1..n PROVE P[k] \in starts
    <3>1. P[k] \in DOMAIN flat /\ flat[P[k]] = context(0, specifications[k].object)
          /\ Depth(SubSeq(flat, 1, P[k])) = 0
      BY <1>11 DEF At
    <3>2. IsValue(flat[P[k]], 0)
      BY <3>1 DEF IsValue, context, Tag
    <3>3. QED
      BY <1>12, <3>1, <3>2 DEF Starts
  <2>3. QED
    BY <2>1, <2>2 DEF First
<1>14. ASSUME NEW i \in 1..n, NEW j \in 1..n, flat[P[i]].body = flat[P[j]].body PROVE i = j
  <2>1. specifications[i].object = specifications[j].object
    <3>1. /\ flat[P[i]] = context(0, specifications[i].object)
          /\ flat[P[j]] = context(0, specifications[j].object)
      BY <1>11
    <3>2. /\ flat[P[i]].body = specifications[i].object
          /\ flat[P[j]].body = specifications[j].object
      BY <3>1 DEF context, Tag
    <3>3. QED
      BY <1>14, <3>2
  <2>2. QED
    BY <2>1
<1>15. FirstAbout(flat, starts) = starts
  <2>1. ASSUME NEW i \in starts, NEW j \in starts, flat[j].body = flat[i].body PROVE i <= j
    <3>1. PICK k \in 1..n : i = P[k]
      BY <1>13 DEF First
    <3>2. PICK m \in 1..n : j = P[m]
      BY <1>13 DEF First
    <3>3. k = m
      BY <1>14, <2>1, <3>1, <3>2
    <3>4. QED
      BY <1>10, <3>1, <3>2, <3>3
  <2>2. QED
    BY <2>1 DEF FirstAbout
<1>16. ASSUME NEW k \in 1..n PROVE Max(AllAbout(flat, starts, P[k])) = P[k]
  <2>1. P[k] \in starts /\ \A j \in starts : flat[j].body = flat[P[k]].body => j = P[k]
    BY <1>13, <1>14 DEF First
  <2>2. AllAbout(flat, starts, P[k]) = {P[k]}
    BY <2>1 DEF AllAbout
  <2>3. Max({P[k]}) = P[k]
    <3>1. P[k] <= P[k]
      BY <1>10
    <3>2. QED
      BY <3>1 DEF Max
  <2>4. QED
    BY <2>2, <2>3
<1>17. InOrder(starts) = P
  <2>1. P = [k \in 1..n |-> P[k]]
    BY <1>9
  <2>2. InOrder(First(P, n)) = P
    BY <1>10, <2>1, InOrderIs
  <2>3. QED
    BY <1>13, <2>2
<1>18. read_access_specifications(flat)
         = [k \in 1..n |-> [object |-> flat[P[k]].body,
                            properties |-> property_references(inside(flat, P[k] + 2))]]
  <2>1. DOMAIN P = 1..n
    BY <1>9
  <2>2. read_access_specifications(flat)
          = [k \in DOMAIN InOrder(FirstAbout(flat, Starts(flat))) |->
               LET i == InOrder(FirstAbout(flat, Starts(flat)))[k]
               IN  [object |-> flat[i].body,
                    properties |->
                      property_references(inside(flat, Max(AllAbout(flat, Starts(flat), i)) + 2))]]
    BY DEF read_access_specifications, FirstAbout, Starts, AllAbout
  <2>3. InOrder(FirstAbout(flat, Starts(flat))) = P
    BY <1>12, <1>15, <1>17
  <2>4. read_access_specifications(flat)
          = [k \in DOMAIN P |->
               [object |-> flat[P[k]].body,
                properties |->
                  property_references(inside(flat, Max(AllAbout(flat, starts, P[k])) + 2))]]
    BY <1>12, <2>2, <2>3
  <2>5. QED
    BY <1>16, <2>1, <2>4
<1>19. ASSUME NEW k \in 1..n
       PROVE  /\ flat[P[k]].body = specifications[k].object
              /\ property_references(inside(flat, P[k] + 2))
                   = [j \in DOMAIN specifications[k].references |->
                        specifications[k].references[j].property]
  <2>1. flat[P[k]] = context(0, specifications[k].object) /\ inside(flat, P[k] + 2) = R[k]
    BY <1>11
  <2>2. flat[P[k]].body = specifications[k].object
    BY <2>1 DEF context, Tag
  <2>3. QED
    BY <1>3, <2>1, <2>2
<1>20. read_access_specifications(flat)
         = [k \in 1..n |->
              [object |-> specifications[k].object,
               properties |-> [j \in DOMAIN specifications[k].references |->
                                 specifications[k].references[j].property]]]
  BY <1>18, <1>19
<1>21. QED
  BY <1>6, <1>20 DEF AskedFor

\* read_access_specifications reads of a ReadPropertyMultiple request which
\* objects it asks about, in their order, and which properties of each, with an
\* index or without: the numbers of the tags inside repeat those around them.
THEOREM MultipleReadBack ==
  ASSUME NEW id, NEW Object, NEW Property, NEW Index,
         NEW specifications \in
           Seq([object : Object,
                references : Seq([property : Property, array_index : Index])]),
         \A j, k \in DOMAIN specifications :
           specifications[j].object = specifications[k].object => j = k
  PROVE  read_access_specifications(
           read_property_multiple_request(id, specifications).parameters)
         = [k \in DOMAIN specifications |->
              [object |-> specifications[k].object,
               properties |-> [j \in DOMAIN specifications[k].references |->
                                 specifications[k].references[j].property]]]
<1> DEFINE R == [property : Property, array_index : Index]
           S == [object : Object, references : Seq(R)]
<1>1. \A x \in S : \E m \in Nat : DOMAIN x.references = 1..m
  <2>1. \A x \in S : x.references \in Seq(R)
    OBVIOUS
  <2> HIDE DEF R, S
  <2>2. \A r \in Seq(R) : \E m \in Nat : DOMAIN r = 1..m
    OBVIOUS
  <2>3. QED
    BY <2>1, <2>2
<1>2. specifications \in Seq(S)
  OBVIOUS
<1> HIDE DEF S
<1>3. PICK n \in Nat : DOMAIN specifications = 1..n /\ \A k \in 1..n : specifications[k] \in S
  BY <1>2
<1>4. \A k \in 1..n : \E m \in Nat : DOMAIN specifications[k].references = 1..m
  BY <1>1, <1>3
<1>5. read_property_multiple_request(id, specifications).parameters
        = FlattenSeq(Asked(specifications))
  BY DEF read_property_multiple_request, confirmed_request, APDU, Asked, Entry,
         read_access_specification, References, Reference
<1>6. \A j, k \in 1..n : specifications[j].object = specifications[k].object => j = k
  BY <1>3
<1>7. read_access_specifications(FlattenSeq(Asked(specifications)))
        = AskedFor(specifications)
  BY <1>3, <1>4, <1>6, SpecificationsRead
<1>8. QED
  BY <1>5, <1>7 DEF AskedFor

\* The greatest member of a set is the one that no other is above.
LEMMA GreatestIs ==
  ASSUME NEW S, S \subseteq Int, NEW e \in S, \A i \in S : i <= e
  PROVE  Max(S) = e
<1>1. Max(S) \in S /\ \A i \in S : Max(S) >= i
  BY DEF Max
<1>2. e \in Int /\ Max(S) \in Int
  BY <1>1
<1>3. e <= Max(S) /\ Max(S) <= e
  BY <1>1, <1>2
<1>4. QED
  BY <1>2, <1>3

\* What is told of one property stands behind its identifier, and that behind
\* the identifier of its object, with nothing in between that could be mistaken
\* for either.
LEMMA OutcomeRead ==
  ASSUME NEW flat, Complete(flat), NEW s \in Nat, s >= 1, NEW object, NEW list, Complete(list),
         EntryAt(flat, s, 0, object, 1, list),
         NEW r \in Nat, r >= 1, NEW property, NEW number \in {4, 5}, NEW content,
         Complete(content), EntryAt(list, r, 2, property, number, content)
  PROVE  LET p == s + 1 + (r + 1)
         IN  /\ p \in DOMAIN flat /\ flat[p] = opening(number) /\ At(flat, p) = 2
             /\ LastBefore(flat, p, 2, 1) + 1 = p
             /\ flat[LastBefore(flat, p, 2, 1)] = context(2, property)
             /\ flat[LastBefore(flat, p, 0, 0)] = context(0, object)
             /\ inside(flat, p + 1) = content
<1>1. PICK c \in Nat, m \in Nat, N \in Nat :
        /\ c = Len(content) /\ m = Len(list) /\ DOMAIN list = 1..m
        /\ N = Len(flat) /\ DOMAIN flat = 1..N
  BY DepthsWithin
<1>2. /\ \A i \in 1..m : /\ s + 1 + i \in 1..N /\ flat[s + 1 + i] = list[i]
                         /\ At(flat, s + 1 + i) = 1 + At(list, i)
      /\ s \in 1..N /\ flat[s] = context(0, object) /\ At(flat, s) = 0
      /\ s + 1 \in 1..N /\ At(flat, s + 1) = 1
  BY <1>1 DEF EntryAt
<1>3. /\ r \in 1..m /\ list[r] = context(2, property) /\ At(list, r) = 0
      /\ r + 1 \in 1..m /\ list[r + 1] = opening(number) /\ At(list, r + 1) = 1
      /\ \A i \in 1..c : r + 1 + i \in 1..m /\ list[r + 1 + i] = content[i]
      /\ r + c + 2 \in 1..m /\ list[r + c + 2] = closing(number)
  BY <1>1 DEF EntryAt
<1>4. PICK p \in Nat, q \in Nat : /\ p = s + 1 + (r + 1) /\ q = s + 1 + r /\ p = q + 1 /\ q = p - 1
                                  /\ s < q /\ q < p
  OBVIOUS
<1>5. p \in DOMAIN flat /\ flat[p] = opening(number) /\ At(flat, p) = 2
  BY <1>1, <1>2, <1>3, <1>4
<1>6. q \in DOMAIN flat /\ flat[q] = context(2, property) /\ At(flat, q) = 1
  BY <1>1, <1>2, <1>3, <1>4
<1>7. LastBefore(flat, p, 2, 1) = q
  <2> DEFINE S == {j \in 1..(p - 1) : IsValue(flat[j], 2) /\ Depth(SubSeq(flat, 1, j)) = 1}
  <2>1. IsValue(flat[q], 2) /\ Depth(SubSeq(flat, 1, q)) = 1
    BY <1>6 DEF IsValue, context, Tag, At
  <2>2. q \in 1..(p - 1)
    BY <1>4
  <2>3. q \in S /\ S \subseteq Int /\ \A j \in S : j <= q
    BY <1>4, <2>1, <2>2
  <2> HIDE DEF S
  <2>4. Max(S) = q
    BY <2>3, GreatestIs
  <2>5. QED
    BY <2>4 DEF LastBefore, S
<1>8. ASSUME NEW j \in 1..(p - 1), s < j PROVE At(flat, j) # 0
  <2>1. CASE j = s + 1
    BY <1>2, <2>1
  <2>2. CASE j # s + 1
    <3>1. PICK i \in Nat : i = j - (s + 1) /\ j = s + 1 + i /\ i >= 1 /\ i <= r
      <4>1. j - (s + 1) \in Nat /\ j = s + 1 + (j - (s + 1)) /\ j - (s + 1) >= 1
            /\ j - (s + 1) <= r
        BY <1>4, <1>8, <2>2
      <4>2. QED
        BY <4>1
    <3>2. i \in 1..m
      BY <1>3, <3>1
    <3>3. At(flat, j) = 1 + At(list, i) /\ At(list, i) \in Nat
      BY <1>1, <1>2, <3>1, <3>2, DepthsWithin
    <3>4. \A x \in Nat : 1 + x # 0
      OBVIOUS
    <3>5. QED
      BY <3>3, <3>4
  <2>3. QED
    BY <2>1, <2>2
<1>9. LastBefore(flat, p, 0, 0) = s
  <2> DEFINE S == {j \in 1..(p - 1) : IsValue(flat[j], 0) /\ Depth(SubSeq(flat, 1, j)) = 0}
  <2>1. IsValue(flat[s], 0) /\ Depth(SubSeq(flat, 1, s)) = 0
    BY <1>2 DEF IsValue, context, Tag, At
  <2>2. s \in 1..(p - 1)
    BY <1>4
  <2>3. ASSUME NEW j \in S PROVE j <= s
    <3>1. j \in 1..(p - 1) /\ At(flat, j) = 0
      BY DEF At
    <3>2. ~(s < j)
      BY <1>8, <3>1
    <3>3. QED
      BY <3>1, <3>2
  <2>4. s \in S /\ S \subseteq Int
    BY <2>1, <2>2
  <2> HIDE DEF S
  <2>5. Max(S) = s
    BY <2>3, <2>4, GreatestIs
  <2>6. QED
    BY <2>5 DEF LastBefore, S
<1>10. inside(flat, p + 1) = content
  <2>1. PICK T : content \in Seq(T) /\ flat \in Seq(T)
    BY TypeOfBoth
  <2>2. PICK t \in Nat \ {0} : t = p + 1
    OBVIOUS
  <2>3. ASSUME NEW i \in 1..c PROVE flat[t + i - 1] = content[i]
    <3>1. t + i - 1 = s + 1 + (r + 1 + i)
      BY <1>4, <2>2
    <3>2. QED
      BY <1>2, <1>3, <3>1
  <2>4. t + c = s + 1 + (r + c + 2)
    BY <1>4, <2>2
  <2>5. t + c <= N /\ flat[t + c] = closing(number)
    BY <1>2, <1>3, <2>4
  <2>6. flat[t + c].kind = "close"
    BY <2>5 DEF closing, Tag
  <2>7. (\A i \in 1..Len(content) : Depth(SubSeq(content, 1, i)) >= 0) /\ Depth(content) = 0
    BY <2>1 DEF Complete
  <2>8. inside(flat, t) = content
    BY <1>1, <2>1, <2>3, <2>5, <2>6, <2>7, InsideIsWhole, ZenonT(30)
  <2>9. QED
    BY <2>2, <2>8
<1>11. QED
  BY <1>2, <1>4, <1>5, <1>6, <1>7, <1>9, <1>10

\* What is opened first within a list of entries, and not within another, is what
\* an entry opens.
OnlySecond(flat, ss, E, k) ==
  \A i \in 1..Len(ss[k]) :
    flat[E[k - 1] + i].kind = "open" /\ At(flat, E[k - 1] + i) = 1 => i = 2

LEMMA OpenedInEntry ==
  ASSUME NEW flat, NEW ss, NEW n \in Nat, NEW E, Laid(flat, ss, n, E), NEW k \in 1..n,
         NEW a, NEW body, NEW number, NEW list, Complete(list),
         ss[k] = Entry(a, body, number, list)
  PROVE  OnlySecond(flat, ss, E, k)
<1> SUFFICES ASSUME NEW i \in 1..Len(ss[k]),
                    flat[E[k - 1] + i].kind = "open", At(flat, E[k - 1] + i) = 1
             PROVE  i = 2
  BY DEF OnlySecond
<1>1. PICK p : p = E[k - 1] + i
  OBVIOUS
<1>2. i # 1
  <2>1. EntryAt(flat, E[k - 1] + 1, a, body, number, list)
    BY EntryLaid
  <2>2. flat[E[k - 1] + 1].kind = "value"
    BY <2>1 DEF EntryAt, context, Tag
  <2>3. QED
    BY <2>2
<1>3. /\ i = Len(list) + 3 => flat[p].kind = "close"
      /\ i \notin {2, Len(list) + 3} =>
           \E j \in 1..Len(list) : /\ i = 2 + j /\ flat[p] = list[j]
                                   /\ At(flat, p) = 1 + At(list, j)
  <2>1. InEntry(flat, E[k - 1] + i, i, number, list)
    BY <1>2, BehindEntry
  <2>2. InEntry(flat, p, i, number, list)
    BY <1>1, <2>1
  <2>3. QED
    BY <2>2 DEF InEntry
<1>4. i # Len(list) + 3
  BY <1>1, <1>3
<1>5. SUFFICES ASSUME i # 2 PROVE FALSE
  OBVIOUS
<1>6. PICK j \in 1..Len(list) : flat[p] = list[j] /\ At(flat, p) = 1 + At(list, j)
  BY <1>3, <1>4, <1>5
<1>7. At(list, j) \in Nat /\ At(list, j) >= 1
  BY <1>1, <1>6, DepthsWithin
<1>8. \A x \in Nat : x >= 1 => 1 + x # 1
  OBVIOUS
<1>9. QED
  BY <1>1, <1>6, <1>7, <1>8

\* What read_property_multiple_ack writes of a value, or of one that is missing.
OutcomeNumber(value) == IF value = None THEN 5 ELSE 4
OutcomeContent(value) ==
  IF value = None THEN error_parameters("PROPERTY", "UNKNOWN_PROPERTY") ELSE value
Outcomes(values) ==
  [j \in DOMAIN values |->
     Entry(2, values[j].property, OutcomeNumber(values[j].value), OutcomeContent(values[j].value))]
Told(results) ==
  [k \in DOMAIN results |->
     Entry(0, results[k].object, 1, FlattenSeq(Outcomes(results[k].values)))]

\* What is read of it: where the outcomes stand, what one of them says, and what
\* it should say.
OutcomesOf(tags) ==
  {i \in DOMAIN tags : /\ tags[i].kind = "open" /\ tags[i].number \in {4, 5}
                       /\ Depth(SubSeq(tags, 1, i)) = 2}
OutcomeOf(tags, i) ==
  [object |-> tags[LastBefore(tags, i, 0, 0)].body,
   property |-> tags[LastBefore(tags, i, 2, 1)].body,
   array_index |-> IF IsValue(tags[LastBefore(tags, i, 2, 1) + 1], 3)
                   THEN tags[LastBefore(tags, i, 2, 1) + 1].body ELSE None,
   result |-> IF tags[i].number = 4 THEN <<"value", inside(tags, i + 1)>>
              ELSE <<"error", error_class_and_code(inside(tags, i + 1))>>]
ToldOf(object, entry) ==
  [object |-> object, property |-> entry.property, array_index |-> None,
   result |-> IF entry.value = None THEN <<"error", <<"PROPERTY", "UNKNOWN_PROPERTY">>>>
              ELSE <<"value", entry.value>>]

LEMMA ContentComplete ==
  ASSUME NEW value, value = None \/ Complete(value)
  PROVE  Complete(OutcomeContent(value)) /\ OutcomeNumber(value) \in {4, 5}
<1>1. PICK a, b : /\ a = application(TAG_ENUMERATED, "PROPERTY")
                  /\ b = application(TAG_ENUMERATED, "UNKNOWN_PROPERTY")
  OBVIOUS
<1>2. a.kind = "value" /\ b.kind = "value"
  BY <1>1 DEF application, Tag
<1>3. PICK tags \in Seq({a, b}) : tags = <<a, b>> /\ \A i \in DOMAIN tags : tags[i] \in {a, b}
  <2>1. <<a, b>> \in Seq({a, b})
    OBVIOUS
  <2>2. \A i \in DOMAIN <<a, b>> : <<a, b>>[i] \in {a, b}
    OBVIOUS
  <2>3. QED
    BY <2>1, <2>2
<1>4. Complete(tags)
  <2>1. \A i \in DOMAIN tags : tags[i].kind = "value"
    BY <1>2, <1>3
  <2>2. QED
    BY <2>1, Flat
<1>5. value = None => OutcomeContent(value) = tags
  BY <1>1, <1>3 DEF OutcomeContent, error_parameters
<1>6. QED
  BY <1>4, <1>5 DEF OutcomeContent, OutcomeNumber

\* An outcome found where it was put says what it was made of.
LEMMA OutcomeSays ==
  ASSUME NEW flat, Complete(flat), NEW s \in Nat, s >= 1, NEW object, NEW list, Complete(list),
         EntryAt(flat, s, 0, object, 1, list),
         NEW r \in Nat, r >= 1, NEW entry, entry.value = None \/ Complete(entry.value),
         EntryAt(list, r, 2, entry.property, OutcomeNumber(entry.value),
                 OutcomeContent(entry.value))
  PROVE  /\ s + 1 + (r + 1) \in OutcomesOf(flat)
         /\ OutcomeOf(flat, s + 1 + (r + 1)) = ToldOf(object, entry)
<1>1. PICK number, content : /\ number = OutcomeNumber(entry.value)
                             /\ content = OutcomeContent(entry.value)
  OBVIOUS
<1>2. number \in {4, 5} /\ Complete(content)
  BY <1>1, ContentComplete
<1>3. PICK p : p = s + 1 + (r + 1)
  OBVIOUS
<1>4. /\ p \in DOMAIN flat /\ flat[p] = opening(number) /\ At(flat, p) = 2
      /\ LastBefore(flat, p, 2, 1) + 1 = p
      /\ flat[LastBefore(flat, p, 2, 1)] = context(2, entry.property)
      /\ flat[LastBefore(flat, p, 0, 0)] = context(0, object)
      /\ inside(flat, p + 1) = content
  <2>1. PICK property : property = entry.property
    OBVIOUS
  <2>2. EntryAt(list, r, 2, property, number, content)
    BY <1>1, <2>1
  <2>3. LET q == s + 1 + (r + 1)
        IN  /\ q \in DOMAIN flat /\ flat[q] = opening(number) /\ At(flat, q) = 2
            /\ LastBefore(flat, q, 2, 1) + 1 = q
            /\ flat[LastBefore(flat, q, 2, 1)] = context(2, property)
            /\ flat[LastBefore(flat, q, 0, 0)] = context(0, object)
            /\ inside(flat, q + 1) = content
    BY <1>2, <2>2, OutcomeRead
  <2>4. QED
    BY <1>3, <2>1, <2>3
<1>5. flat[p].kind = "open" /\ flat[p].number = number /\ ~IsValue(flat[p], 3)
  BY <1>4 DEF opening, Tag, IsValue
<1>6. p \in OutcomesOf(flat)
  BY <1>2, <1>4, <1>5 DEF OutcomesOf, At
<1>7. context(2, entry.property).body = entry.property /\ context(0, object).body = object
  BY DEF context, Tag
<1>8. (IF flat[p].number = 4 THEN <<"value", inside(flat, p + 1)>>
       ELSE <<"error", error_class_and_code(inside(flat, p + 1))>>)
        = IF entry.value = None THEN <<"error", <<"PROPERTY", "UNKNOWN_PROPERTY">>>>
          ELSE <<"value", entry.value>>
  <2>1. CASE entry.value = None
    <3>1. number = 5 /\ content = error_parameters("PROPERTY", "UNKNOWN_PROPERTY")
      BY <1>1, <2>1 DEF OutcomeNumber, OutcomeContent
    <3>2. error_class_and_code(content) = <<"PROPERTY", "UNKNOWN_PROPERTY">>
      BY <3>1, ErrorReadBack
    <3>3. QED
      BY <1>4, <1>5, <2>1, <3>1, <3>2
  <2>2. CASE entry.value # None
    <3>1. number = 4 /\ content = entry.value
      BY <1>1, <2>2 DEF OutcomeNumber, OutcomeContent
    <3>2. QED
      BY <1>4, <1>5, <2>2, <3>1
  <2>3. QED
    BY <2>1, <2>2
<1>9. OutcomeOf(flat, p) = ToldOf(object, entry)
  BY <1>4, <1>5, <1>7, <1>8 DEF OutcomeOf, ToldOf
<1>10. QED
  BY <1>3, <1>6, <1>9

\* The outcomes of one object, laid in one list.
LEMMA OutcomesLaid ==
  ASSUME NEW m \in Nat, NEW values, DOMAIN values = 1..m,
         \A j \in 1..m : values[j].value = None \/ Complete(values[j].value)
  PROVE  /\ Complete(FlattenSeq(Outcomes(values)))
         /\ \E F : /\ Laid(FlattenSeq(Outcomes(values)), Outcomes(values), m, F)
                   /\ \A j \in 1..m : F[j - 1] + 1 \in Nat /\ F[j - 1] + 1 >= 1
                   /\ \A j \in 1..m :
                        EntryAt(FlattenSeq(Outcomes(values)), F[j - 1] + 1, 2, values[j].property,
                                OutcomeNumber(values[j].value), OutcomeContent(values[j].value))
<1>1. PICK vs : vs = Outcomes(values)
  OBVIOUS
<1>2. vs = [j \in 1..m |-> vs[j]]
  BY <1>1 DEF Outcomes
<1>3. ASSUME NEW j \in 1..m
      PROVE  /\ vs[j] = Entry(2, values[j].property, OutcomeNumber(values[j].value),
                              OutcomeContent(values[j].value))
             /\ Complete(OutcomeContent(values[j].value)) /\ Complete(vs[j])
  <2>1. vs[j] = Entry(2, values[j].property, OutcomeNumber(values[j].value),
                      OutcomeContent(values[j].value))
    BY <1>1 DEF Outcomes
  <2>2. Complete(OutcomeContent(values[j].value))
    BY ContentComplete
  <2>3. QED
    BY <2>1, <2>2, EntryTags
<1>4. PICK flat : flat = FlattenSeq(vs)
  OBVIOUS
<1>5. PICK F : Laid(flat, vs, m, F)
  BY <1>2, <1>3, <1>4, Flattened
<1>6. ASSUME NEW j \in 1..m
      PROVE  /\ F[j - 1] + 1 \in Nat /\ F[j - 1] + 1 >= 1
             /\ EntryAt(flat, F[j - 1] + 1, 2, values[j].property,
                        OutcomeNumber(values[j].value), OutcomeContent(values[j].value))
  <2>1. /\ vs[j] = Entry(2, values[j].property, OutcomeNumber(values[j].value),
                         OutcomeContent(values[j].value))
        /\ Complete(OutcomeContent(values[j].value))
    BY <1>3
  <2>2. PICK property, number, content :
          /\ property = values[j].property /\ number = OutcomeNumber(values[j].value)
          /\ content = OutcomeContent(values[j].value)
    OBVIOUS
  <2>3. vs[j] = Entry(2, property, number, content) /\ Complete(content)
    BY <2>1, <2>2
  <2>4. EntryAt(flat, F[j - 1] + 1, 2, property, number, content)
    BY <1>5, <2>3, EntryLaid
  <2>5. F[j - 1] + 1 \in Nat /\ F[j - 1] + 1 >= 1
    BY <1>5, LaidFrom
  <2>6. QED
    BY <2>2, <2>4, <2>5
<1>7. Complete(flat)
  BY <1>5 DEF Laid
<1>8. \E G : /\ Laid(flat, vs, m, G)
             /\ \A j \in 1..m : G[j - 1] + 1 \in Nat /\ G[j - 1] + 1 >= 1
             /\ \A j \in 1..m :
                  EntryAt(flat, G[j - 1] + 1, 2, values[j].property,
                          OutcomeNumber(values[j].value), OutcomeContent(values[j].value))
  BY <1>5, <1>6
<1>9. QED
  BY <1>1, <1>4, <1>7, <1>8

\* What parse_read_property_multiple_ack hears of a list of results.
LEMMA ToldRead ==
  ASSUME NEW n \in Nat, NEW results, DOMAIN results = 1..n,
         \A k \in 1..n : \E m \in Nat : DOMAIN results[k].values = 1..m,
         \A k \in 1..n : \A j \in DOMAIN results[k].values :
           results[k].values[j].value = None \/ Complete(results[k].values[j].value)
  PROVE  {OutcomeOf(FlattenSeq(Told(results)), i) : i \in OutcomesOf(FlattenSeq(Told(results)))}
         = UNION {{ToldOf(results[k].object, results[k].values[j]) :
                     j \in DOMAIN results[k].values} : k \in 1..n}
<1>1. PICK R : R = [k \in 1..n |-> FlattenSeq(Outcomes(results[k].values))]
  OBVIOUS
<1>2. PICK ss : ss = Told(results)
  OBVIOUS
<1>3. ASSUME NEW k \in 1..n
      PROVE  \E m \in Nat :
               /\ DOMAIN results[k].values = 1..m /\ Complete(R[k])
               /\ \E F : /\ Laid(R[k], Outcomes(results[k].values), m, F)
                         /\ \A j \in 1..m : F[j - 1] + 1 \in Nat /\ F[j - 1] + 1 >= 1
                         /\ \A j \in 1..m :
                              EntryAt(R[k], F[j - 1] + 1, 2, results[k].values[j].property,
                                      OutcomeNumber(results[k].values[j].value),
                                      OutcomeContent(results[k].values[j].value))
  <2>1. PICK values : values = results[k].values
    OBVIOUS
  <2>2. PICK m \in Nat : DOMAIN values = 1..m
    BY <2>1
  <2>3. \A j \in 1..m : values[j].value = None \/ Complete(values[j].value)
    BY <2>1, <2>2
  <2>4. R[k] = FlattenSeq(Outcomes(values))
    BY <1>1, <2>1
  <2>5. /\ Complete(FlattenSeq(Outcomes(values)))
        /\ \E F : /\ Laid(FlattenSeq(Outcomes(values)), Outcomes(values), m, F)
                  /\ \A j \in 1..m : F[j - 1] + 1 \in Nat /\ F[j - 1] + 1 >= 1
                  /\ \A j \in 1..m :
                       EntryAt(FlattenSeq(Outcomes(values)), F[j - 1] + 1, 2, values[j].property,
                               OutcomeNumber(values[j].value), OutcomeContent(values[j].value))
    BY <2>2, <2>3, OutcomesLaid
  <2>6. QED
    BY <2>1, <2>2, <2>4, <2>5
<1>4. ASSUME NEW k \in 1..n
      PROVE  /\ ss[k] = Entry(0, results[k].object, 1, R[k])
             /\ Complete(R[k]) /\ Complete(ss[k])
  <2>1. ss[k] = Entry(0, results[k].object, 1, R[k])
    BY <1>1, <1>2 DEF Told
  <2>2. Complete(R[k])
    BY <1>3
  <2>3. QED
    BY <2>1, <2>2, EntryTags
<1>5. PICK flat : flat = FlattenSeq(ss)
  OBVIOUS
<1>6. PICK E : Laid(flat, ss, n, E)
  <2>1. ss = [k \in 1..n |-> ss[k]]
    BY <1>2 DEF Told
  <2>2. QED
    BY <1>4, <1>5, <2>1, Flattened
<1>7. Complete(flat) /\ DOMAIN flat = 1..E[n]
  BY <1>6, DepthsWithin DEF Laid
<1>8. ASSUME NEW k \in 1..n
      PROVE  /\ E[k - 1] + 1 \in Nat /\ E[k - 1] + 1 >= 1 /\ E[k - 1] \in Nat
             /\ EntryAt(flat, E[k - 1] + 1, 0, results[k].object, 1, R[k])
  <2>1. PICK object, list : object = results[k].object /\ list = R[k]
    OBVIOUS
  <2>2. ss[k] = Entry(0, object, 1, list) /\ Complete(list)
    BY <1>4, <2>1
  <2>3. EntryAt(flat, E[k - 1] + 1, 0, object, 1, list)
    BY <1>6, <2>2, EntryLaid
  <2>4. E[k - 1] + 1 \in Nat /\ E[k - 1] + 1 >= 1 /\ E[k - 1] \in Nat
    BY <1>6, LaidFrom
  <2>5. QED
    BY <2>1, <2>3, <2>4
\* Every outcome that was written is heard ...
<1>9. ASSUME NEW k \in 1..n, NEW m \in Nat, DOMAIN results[k].values = 1..m,
             NEW j \in 1..m, NEW r \in Nat, r >= 1,
             EntryAt(R[k], r, 2, results[k].values[j].property,
                     OutcomeNumber(results[k].values[j].value),
                     OutcomeContent(results[k].values[j].value))
      PROVE  /\ (E[k - 1] + 1) + 1 + (r + 1) \in OutcomesOf(flat)
             /\ OutcomeOf(flat, (E[k - 1] + 1) + 1 + (r + 1))
                  = ToldOf(results[k].object, results[k].values[j])
  <2>a. PICK s \in Nat : s = E[k - 1] + 1
    BY <1>8
  <2>b. PICK entry, object, list :
          entry = results[k].values[j] /\ object = results[k].object /\ list = R[k]
    OBVIOUS
  <2>1. /\ s = E[k - 1] + 1 /\ entry = results[k].values[j] /\ object = results[k].object
        /\ list = R[k]
    BY <2>a, <2>b
  <2>2. s >= 1 /\ EntryAt(flat, s, 0, object, 1, list) /\ Complete(list)
    BY <1>4, <1>8, <2>1
  <2>3. EntryAt(list, r, 2, entry.property, OutcomeNumber(entry.value),
                OutcomeContent(entry.value))
    BY <1>9, <2>1
  <2>4. entry.value = None \/ Complete(entry.value)
    BY <1>9, <2>1
  <2>5. /\ s + 1 + (r + 1) \in OutcomesOf(flat)
        /\ OutcomeOf(flat, s + 1 + (r + 1)) = ToldOf(object, entry)
    BY <1>7, <1>9, <2>2, <2>3, <2>4, OutcomeSays
  <2>6. QED
    BY <2>1, <2>5
<1>10. ASSUME NEW k \in 1..n, NEW j \in DOMAIN results[k].values
       PROVE  \E i \in OutcomesOf(flat) :
                OutcomeOf(flat, i) = ToldOf(results[k].object, results[k].values[j])
  <2>1. PICK m \in Nat :
          /\ DOMAIN results[k].values = 1..m
          /\ \E F : /\ \A y \in 1..m : F[y - 1] + 1 \in Nat /\ F[y - 1] + 1 >= 1
                    /\ \A y \in 1..m :
                         EntryAt(R[k], F[y - 1] + 1, 2, results[k].values[y].property,
                                 OutcomeNumber(results[k].values[y].value),
                                 OutcomeContent(results[k].values[y].value))
    BY <1>3
  <2>2. PICK F : /\ \A y \in 1..m : F[y - 1] + 1 \in Nat /\ F[y - 1] + 1 >= 1
                 /\ \A y \in 1..m :
                      EntryAt(R[k], F[y - 1] + 1, 2, results[k].values[y].property,
                              OutcomeNumber(results[k].values[y].value),
                              OutcomeContent(results[k].values[y].value))
    BY <2>1
  <2>3. PICK r \in Nat :
          /\ r >= 1
          /\ EntryAt(R[k], r, 2, results[k].values[j].property,
                     OutcomeNumber(results[k].values[j].value),
                     OutcomeContent(results[k].values[j].value))
    BY <2>1, <2>2
  <2>4. j \in 1..m
    BY <2>1
  <2>5. QED
    BY <1>9, <2>1, <2>3, <2>4
\* ... and nothing else.
<1>11. ASSUME NEW p \in OutcomesOf(flat)
       PROVE  \E k \in 1..n : \E j \in DOMAIN results[k].values :
                OutcomeOf(flat, p) = ToldOf(results[k].object, results[k].values[j])
  <2>1. p \in 1..E[n] /\ flat[p].kind = "open" /\ flat[p].number \in {4, 5} /\ At(flat, p) = 2
    BY <1>7 DEF OutcomesOf, At
  <2>2. PICK k \in 1..n : \E i \in 1..Len(ss[k]) : p = E[k - 1] + i
    BY <1>6, <2>1 DEF Laid
  <2>3. PICK i \in 1..Len(ss[k]) : p = E[k - 1] + i
    BY <2>2
  <2>4. PICK object, list : /\ object = results[k].object /\ list = R[k]
                            /\ ss[k] = Entry(0, object, 1, list) /\ Complete(list)
    BY <1>4
  <2>5. i # 1
    <3>1. EntryAt(flat, E[k - 1] + 1, 0, object, 1, list)
      BY <1>8, <2>4
    <3>2. At(flat, E[k - 1] + 1) = 0
      BY <3>1 DEF EntryAt
    <3>3. QED
      BY <2>1, <2>3, <3>2
  <2>6. /\ i = Len(list) + 3 => flat[p].kind = "close"
        /\ i = 2 => At(flat, p) = 1
        /\ i \notin {2, Len(list) + 3} =>
             \E x \in 1..Len(list) : /\ i = 2 + x /\ flat[p] = list[x]
                                     /\ At(flat, p) = 1 + At(list, x)
    <3>1. InEntry(flat, p, i, 1, list)
      BY <1>6, <2>3, <2>4, <2>5, BehindEntry
    <3>2. QED
      BY <3>1 DEF InEntry
  <2>7. PICK x \in 1..Len(list) :
          i = 2 + x /\ flat[p] = list[x] /\ At(flat, p) = 1 + At(list, x)
    BY <2>1, <2>6
  <2>8. list[x].kind = "open" /\ At(list, x) = 1
    <3>1. At(list, x) \in Nat
      BY <2>4, DepthsWithin
    <3>2. QED
      BY <2>1, <2>7, <3>1
  <2>9. PICK m \in Nat :
          /\ DOMAIN results[k].values = 1..m
          /\ \E F : /\ Laid(list, Outcomes(results[k].values), m, F)
                    /\ \A y \in 1..m : F[y - 1] + 1 \in Nat /\ F[y - 1] + 1 >= 1
                    /\ \A y \in 1..m :
                         EntryAt(list, F[y - 1] + 1, 2, results[k].values[y].property,
                                 OutcomeNumber(results[k].values[y].value),
                                 OutcomeContent(results[k].values[y].value))
    BY <1>3, <2>4
  <2>10. PICK F : /\ Laid(list, Outcomes(results[k].values), m, F)
                  /\ \A y \in 1..m : F[y - 1] + 1 \in Nat /\ F[y - 1] + 1 >= 1
                  /\ \A y \in 1..m :
                       EntryAt(list, F[y - 1] + 1, 2, results[k].values[y].property,
                               OutcomeNumber(results[k].values[y].value),
                               OutcomeContent(results[k].values[y].value))
    BY <2>9
  <2>11. PICK vs : vs = Outcomes(results[k].values)
    OBVIOUS
  <2>12. x \in 1..F[m]
    BY <2>10, DepthsWithin DEF Laid
  <2>13. PICK j \in 1..m : \E y \in 1..Len(vs[j]) : x = F[j - 1] + y
    BY <2>10, <2>11, <2>12 DEF Laid
  <2>14. PICK y \in 1..Len(vs[j]) : x = F[j - 1] + y
    BY <2>13
  <2>15. PICK entry : entry = results[k].values[j]
    OBVIOUS
  <2>16. /\ vs[j] = Entry(2, entry.property, OutcomeNumber(entry.value),
                          OutcomeContent(entry.value))
         /\ Complete(OutcomeContent(entry.value))
    <3>1. entry.value = None \/ Complete(entry.value)
      BY <2>9, <2>15
    <3>2. Complete(OutcomeContent(entry.value))
      BY <3>1, ContentComplete
    <3>3. QED
      BY <2>9, <2>11, <2>15, <3>2 DEF Outcomes
  <2>17. y = 2
    <3>1. PICK property, number, content :
            /\ property = entry.property /\ number = OutcomeNumber(entry.value)
            /\ content = OutcomeContent(entry.value)
      OBVIOUS
    <3>2. vs[j] = Entry(2, property, number, content) /\ Complete(content)
      BY <2>16, <3>1
    <3>3. Laid(list, vs, m, F)
      BY <2>10, <2>11
    <3>4. list[F[j - 1] + y].kind = "open" /\ At(list, F[j - 1] + y) = 1
      BY <2>8, <2>14
    <3>5. PICK z : z = y
      OBVIOUS
    <3>6. z \in 1..Len(vs[j]) /\ list[F[j - 1] + z].kind = "open" /\ At(list, F[j - 1] + z) = 1
      BY <3>4, <3>5
    <3>7. OnlySecond(list, vs, F, j)
      BY <3>2, <3>3, OpenedInEntry
    <3>8. z = 2
      BY <3>6, <3>7 DEF OnlySecond
    <3>9. QED
      BY <3>5, <3>8
  <2>18. PICK r \in Nat :
           /\ r = F[j - 1] + 1 /\ r >= 1
           /\ EntryAt(R[k], r, 2, results[k].values[j].property,
                      OutcomeNumber(results[k].values[j].value),
                      OutcomeContent(results[k].values[j].value))
    BY <2>4, <2>10
  <2>19. OutcomeOf(flat, (E[k - 1] + 1) + 1 + (r + 1))
           = ToldOf(results[k].object, results[k].values[j])
    BY <1>9, <2>9, <2>18
  <2>20. p = (E[k - 1] + 1) + 1 + (r + 1)
    <3>1. PICK e \in Nat : e = E[k - 1]
      BY <1>8
    <3>2. PICK f : f = F[j - 1]
      OBVIOUS
    <3>3. j - 1 \in 0..m
      OBVIOUS
    <3>4. f \in Nat
      BY <2>10, <3>2, <3>3 DEF Laid
    <3>5. p = e + i /\ i = 2 + x /\ x = f + 2 /\ r = f + 1
      BY <2>3, <2>7, <2>14, <2>17, <2>18, <3>1, <3>2
    <3>6. p = (e + 1) + 1 + (r + 1)
      BY <3>4, <3>5
    <3>7. QED
      BY <3>1, <3>6
  <2>21. j \in DOMAIN results[k].values
    BY <2>9
  <2>22. QED
    BY <2>19, <2>20, <2>21
<1>12. {OutcomeOf(flat, i) : i \in OutcomesOf(flat)}
         = UNION {{ToldOf(results[k].object, results[k].values[j]) :
                     j \in DOMAIN results[k].values} : k \in 1..n}
  BY <1>10, <1>11
<1>13. QED
  BY <1>2, <1>5, <1>12

\* The same of the answer as a whole.
AllTold(results) ==
  UNION {{ToldOf(results[k].object, results[k].values[j]) : j \in DOMAIN results[k].values}
           : k \in DOMAIN results}

LEMMA MultipleAckRead ==
  ASSUME NEW id, NEW n \in Nat, NEW results, DOMAIN results = 1..n,
         \A k \in 1..n : \E m \in Nat : DOMAIN results[k].values = 1..m,
         \A k \in 1..n : \A j \in DOMAIN results[k].values :
           results[k].values[j].value = None \/ Complete(results[k].values[j].value)
  PROVE  parse_read_property_multiple_ack(read_property_multiple_ack(id, results))
         = AllTold(results)
<1>1. read_property_multiple_ack(id, results).parameters = FlattenSeq(Told(results))
  <2>1. ASSUME NEW entry
        PROVE  <<context(2, entry.property)>>
                 \o (IF entry.value = None
                     THEN constructed(5, error_parameters("PROPERTY", "UNKNOWN_PROPERTY"))
                     ELSE constructed(4, entry.value))
               = Entry(2, entry.property, OutcomeNumber(entry.value), OutcomeContent(entry.value))
    BY DEF Entry, OutcomeNumber, OutcomeContent
  <2>2. QED
    BY <2>1 DEF read_property_multiple_ack, APDU, Told, Outcomes, Entry
<1>2. parse_read_property_multiple_ack(read_property_multiple_ack(id, results))
        = {OutcomeOf(FlattenSeq(Told(results)), i) : i \in OutcomesOf(FlattenSeq(Told(results)))}
  BY <1>1 DEF parse_read_property_multiple_ack, OutcomeOf, OutcomesOf
<1>3. QED
  BY <1>2, ToldRead DEF AllTold

\* parse_read_property_multiple_ack finds in a ReadPropertyMultiple ACK every
\* value read_property_multiple_ack was given, whatever tags it is made of, with
\* its own object and property, an error for each value that is missing, and
\* nothing else.
THEOREM MultipleAckReadBack ==
  ASSUME NEW id, NEW Object, NEW Property, NEW Value,
         \A v \in Value : v = None \/ Complete(v),
         NEW results \in
           Seq([object : Object, values : Seq([property : Property, value : Value])])
  PROVE  parse_read_property_multiple_ack(read_property_multiple_ack(id, results))
         = UNION {{[object |-> results[k].object, property |-> results[k].values[j].property,
                    array_index |-> None,
                    result |-> IF results[k].values[j].value = None
                               THEN <<"error", <<"PROPERTY", "UNKNOWN_PROPERTY">>>>
                               ELSE <<"value", results[k].values[j].value>>] :
                     j \in DOMAIN results[k].values} : k \in DOMAIN results}
<1> DEFINE V == [property : Property, value : Value]
           R == [object : Object, values : Seq(V)]
<1>1. \A x \in R : /\ \E m \in Nat : DOMAIN x.values = 1..m
                   /\ \A j \in DOMAIN x.values : x.values[j] \in V
  <2>1. \A x \in R : x.values \in Seq(V)
    OBVIOUS
  <2> HIDE DEF R, V
  <2>2. QED
    BY <2>1
<1>2. \A y \in V : y.value = None \/ Complete(y.value)
  OBVIOUS
<1>3. results \in Seq(R)
  OBVIOUS
<1> HIDE DEF V, R
<1>4. PICK n \in Nat : DOMAIN results = 1..n /\ \A k \in 1..n : results[k] \in R
  BY <1>3
<1>5. /\ \A k \in 1..n : \E m \in Nat : DOMAIN results[k].values = 1..m
      /\ \A k \in 1..n : \A j \in DOMAIN results[k].values :
           results[k].values[j].value = None \/ Complete(results[k].values[j].value)
  BY <1>1, <1>2, <1>4
<1>6. parse_read_property_multiple_ack(read_property_multiple_ack(id, results))
        = AllTold(results)
  BY <1>4, <1>5, MultipleAckRead
<1>7. QED
  BY <1>6 DEF AllTold, ToldOf

-----------------------------------------------------------------------------
\* Landing calls

\* Of tags with different numbers each is read under its own.
EachRead(tags, S, f) ==
  /\ DOMAIN f = {tags[i].number : i \in S}
  /\ \A i \in S : f[tags[i].number] = tags[i].body

LEMMA FieldsAtRead ==
  ASSUME NEW tags, NEW S, S \subseteq Int,
         \A i, j \in S : tags[i].number = tags[j].number => i = j
  PROVE  EachRead(tags, S, fields_at(tags, S))
<1>1. DOMAIN fields_at(tags, S) = {tags[i].number : i \in S}
  BY DEF fields_at
<1>2. ASSUME NEW i \in S PROVE fields_at(tags, S)[tags[i].number] = tags[i].body
  <2>1. fields_at(tags, S)[tags[i].number] = tags[Max({j \in S : tags[j].number = tags[i].number})].body
    BY DEF fields_at
  <2>2. {j \in S : tags[j].number = tags[i].number} = {i}
    OBVIOUS
  <2>3. Max({i}) = i
    BY GreatestIs
  <2>4. QED
    BY <2>1, <2>2, <2>3
<1>3. QED
  BY <1>1, <1>2 DEF EachRead

\* What landing_call_status writes of a call.
CallFields(c) ==
  {<<0, c.floor>>}
    \union (IF c.direction # None THEN {<<1, c.direction>>} ELSE {<<2, c.destination>>})
    \union (IF c.floor_text # None THEN {<<3, c.floor_text>>} ELSE {})

IsCall(list, c) ==
  /\ Complete(list) /\ Len(list) >= 1
  /\ \A i \in 1..Len(list) : list[i].context /\ list[i].kind = "value"
  /\ \A i, j \in 1..Len(list) : list[i].number = list[j].number => i = j
  /\ list[1].number = 0
  /\ {<<list[i].number, list[i].body>> : i \in 1..Len(list)} = CallFields(c)

LEMMA CallTags ==
  ASSUME NEW c
  PROVE  IsCall(landing_call_status(c), c)
<1>1. PICK x, y, z :
        /\ x = context(0, c.floor)
        /\ y = IF c.direction # None THEN context(1, c.direction) ELSE context(2, c.destination)
        /\ z = context(3, c.floor_text)
  OBVIOUS
<1>2. /\ x.kind = "value" /\ x.context /\ x.number = 0 /\ x.body = c.floor
      /\ y.kind = "value" /\ y.context
      /\ c.direction # None => y.number = 1 /\ y.body = c.direction
      /\ c.direction = None => y.number = 2 /\ y.body = c.destination
      /\ z.kind = "value" /\ z.context /\ z.number = 3 /\ z.body = c.floor_text
  BY <1>1 DEF context, Tag
<1>3. PICK T : T = {x, y, z}
  OBVIOUS
<1>4. PICK one \in Seq(T), two \in Seq(T), three \in Seq(T) :
        /\ one = <<x>> /\ two = <<y>> /\ three = <<z>>
        /\ Len(one) = 1 /\ Len(two) = 1 /\ Len(three) = 1
        /\ one[1] = x /\ two[1] = y /\ three[1] = z
  <2>1. <<x>> \in Seq(T) /\ <<y>> \in Seq(T) /\ <<z>> \in Seq(T)
    BY <1>3
  <2>2. Len(<<x>>) = 1 /\ Len(<<y>>) = 1 /\ Len(<<z>>) = 1
    OBVIOUS
  <2>3. <<x>>[1] = x /\ <<y>>[1] = y /\ <<z>>[1] = z
    OBVIOUS
  <2>4. QED
    BY <2>1, <2>2, <2>3
<1>5. PICK front : front = one \o two
  OBVIOUS
<1>6. front \in Seq(T) /\ Len(front) = 2 /\ front[1] = x /\ front[2] = y
  <2>1. /\ front \in Seq(T) /\ Len(front) = 1 + 1
        /\ \A i \in 1..1 : front[i] = one[i]
        /\ \A i \in 1..1 : front[1 + i] = two[i]
    BY <1>4, <1>5, OneBehindOther
  <2>2. QED
    BY <1>4, <2>1
<1>7. landing_call_status(c) = IF c.floor_text = None THEN front \o <<>> ELSE front \o three
  BY <1>1, <1>4, <1>5 DEF landing_call_status, optional
<1>8. CASE c.floor_text = None
  <2>1. PICK list : list = front
    OBVIOUS
  <2>2. landing_call_status(c) = list
    <3>1. front \o <<>> = front
      BY <1>6, ConcatEmptySeq
    <3>2. QED
      BY <1>7, <1>8, <2>1, <3>1
  <2>3. /\ list \in Seq(T) /\ Len(list) = 2 /\ list[1] = x /\ list[2] = y
        /\ \A i \in 1..2 : i = 1 \/ i = 2
    BY <1>6, <2>1
  <2>4. \A i \in 1..2 : list[i].context /\ list[i].kind = "value"
    BY <1>2, <2>3
  <2>5. Complete(list)
    BY <2>3, <2>4, Flat
  <2>6. \A i, j \in 1..2 : list[i].number = list[j].number => i = j
    BY <1>2, <2>3
  <2>7. {<<list[i].number, list[i].body>> : i \in 1..2} = CallFields(c)
    <3>1. {<<list[i].number, list[i].body>> : i \in 1..2}
            = {<<x.number, x.body>>, <<y.number, y.body>>}
      BY <2>3
    <3>2. CASE c.direction = None
      BY <1>2, <1>8, <3>1, <3>2 DEF CallFields
    <3>3. CASE c.direction # None
      BY <1>2, <1>8, <3>1, <3>3 DEF CallFields
    <3>4. QED
      BY <3>2, <3>3
  <2>8. QED
    BY <1>2, <2>2, <2>3, <2>4, <2>5, <2>6, <2>7 DEF IsCall
<1>9. CASE c.floor_text # None
  <2>1. PICK list : list = front \o three
    OBVIOUS
  <2>2. landing_call_status(c) = list
    BY <1>7, <1>9, <2>1
  <2>3. /\ list \in Seq(T) /\ Len(list) = 3 /\ list[1] = x /\ list[2] = y /\ list[3] = z
        /\ \A i \in 1..3 : i = 1 \/ i = 2 \/ i = 3
    <3>1. /\ list \in Seq(T) /\ Len(list) = 2 + 1
          /\ \A i \in 1..2 : list[i] = front[i]
          /\ \A i \in 1..1 : list[2 + i] = three[i]
      BY <1>4, <1>6, <2>1, OneBehindOther, SMTT(30)
    <3>2. QED
      BY <1>4, <1>6, <3>1
  <2>4. \A i \in 1..3 : list[i].context /\ list[i].kind = "value"
    BY <1>2, <2>3
  <2>5. Complete(list)
    BY <2>3, <2>4, Flat
  <2>6. \A i, j \in 1..3 : list[i].number = list[j].number => i = j
    BY <1>2, <2>3
  <2>7. {<<list[i].number, list[i].body>> : i \in 1..3} = CallFields(c)
    <3>1. {<<list[i].number, list[i].body>> : i \in 1..3}
            = {<<x.number, x.body>>, <<y.number, y.body>>, <<z.number, z.body>>}
      BY <2>3
    <3>2. CASE c.direction = None
      BY <1>2, <1>9, <3>1, <3>2 DEF CallFields
    <3>3. CASE c.direction # None
      BY <1>2, <1>9, <3>1, <3>3 DEF CallFields
    <3>4. QED
      BY <3>2, <3>3
  <2>8. QED
    BY <1>2, <2>2, <2>3, <2>4, <2>5, <2>6, <2>7 DEF IsCall
<1>10. QED
  BY <1>8, <1>9

\* A call as it is decoded from the tags at some positions.
CallAt(tags, S) ==
  [floor |-> fields_at(tags, S)[0], direction |-> field(fields_at(tags, S), 1),
   destination |-> field(fields_at(tags, S), 2), floor_text |-> field(fields_at(tags, S), 3)]

LEMMA CallRead ==
  ASSUME NEW tags, NEW S, S \subseteq Int, NEW c,
         \A i, j \in S : tags[i].number = tags[j].number => i = j,
         {<<tags[i].number, tags[i].body>> : i \in S} = CallFields(c)
  PROVE  CallAt(tags, S)
         = [floor |-> c.floor, direction |-> c.direction,
            destination |-> IF c.direction = None THEN c.destination ELSE None,
            floor_text |-> c.floor_text]
<1>1. PICK f : f = fields_at(tags, S) /\ EachRead(tags, S, f)
  BY FieldsAtRead
<1>2. ASSUME NEW n, NEW v, <<n, v>> \in CallFields(c) PROVE n \in DOMAIN f /\ f[n] = v
  <2>1. PICK i \in S : <<n, v>> = <<tags[i].number, tags[i].body>>
    BY <1>2
  <2>2. tags[i].number = n /\ tags[i].body = v
    BY <2>1
  <2>3. /\ DOMAIN f = {tags[j].number : j \in S}
        /\ f[tags[i].number] = tags[i].body
    BY <1>1 DEF EachRead
  <2>4. QED
    BY <2>2, <2>3
<1>3. ASSUME NEW n, n \in DOMAIN f PROVE \E v : <<n, v>> \in CallFields(c)
  <2>1. DOMAIN f = {tags[j].number : j \in S}
    BY <1>1 DEF EachRead
  <2>2. PICK i \in S : tags[i].number = n
    BY <1>3, <2>1
  <2>3. <<n, tags[i].body>> \in CallFields(c)
    BY <2>2
  <2>4. QED
    BY <2>3
<1>4. f[0] = c.floor
  <2>1. <<0, c.floor>> \in CallFields(c)
    BY DEF CallFields
  <2>2. QED
    BY <1>2, <2>1
<1>5. field(f, 1) = c.direction
  <2>1. CASE c.direction # None
    <3>1. <<1, c.direction>> \in CallFields(c)
      BY <2>1 DEF CallFields
    <3>2. 1 \in DOMAIN f /\ f[1] = c.direction
      BY <1>2, <3>1
    <3>3. QED
      BY <3>2 DEF field
  <2>2. CASE c.direction = None
    <3>1. \A v : <<1, v>> \notin CallFields(c)
      BY <2>2 DEF CallFields
    <3>2. 1 \notin DOMAIN f
      BY <1>3, <3>1
    <3>3. QED
      BY <2>2, <3>2 DEF field
  <2>3. QED
    BY <2>1, <2>2
<1>6. field(f, 2) = IF c.direction = None THEN c.destination ELSE None
  <2>1. CASE c.direction = None
    <3>1. <<2, c.destination>> \in CallFields(c)
      BY <2>1 DEF CallFields
    <3>2. 2 \in DOMAIN f /\ f[2] = c.destination
      BY <1>2, <3>1
    <3>3. QED
      BY <2>1, <3>2 DEF field
  <2>2. CASE c.direction # None
    <3>1. \A v : <<2, v>> \notin CallFields(c)
      BY <2>2 DEF CallFields
    <3>2. 2 \notin DOMAIN f
      BY <1>3, <3>1
    <3>3. QED
      BY <2>2, <3>2 DEF field
  <2>3. QED
    BY <2>1, <2>2
<1>7. field(f, 3) = c.floor_text
  <2>1. CASE c.floor_text # None
    <3>1. <<3, c.floor_text>> \in CallFields(c)
      BY <2>1 DEF CallFields
    <3>2. 3 \in DOMAIN f /\ f[3] = c.floor_text
      BY <1>2, <3>1
    <3>3. QED
      BY <3>2 DEF field
  <2>2. CASE c.floor_text = None
    <3>1. \A v : <<3, v>> \notin CallFields(c)
      BY <2>2 DEF CallFields
    <3>2. 3 \notin DOMAIN f
      BY <1>3, <3>1
    <3>3. QED
      BY <2>2, <3>2 DEF field
  <2>3. QED
    BY <2>1, <2>2
<1>8. QED
  BY <1>1, <1>4, <1>5, <1>6, <1>7 DEF CallAt

\* Where the fields stand, the floor of each call among them, where the last tag
\* of the kth call is, and the fields from one position to another.
Values(tags) == {i \in DOMAIN tags : tags[i].context /\ tags[i].kind = "value"}
Floors(tags) == {i \in Values(tags) : tags[i].number = 0}
Until(tags, floors, k) == IF k = Len(floors) THEN Len(tags) ELSE floors[k + 1] - 1
Between(tags, first, last) == {i \in Values(tags) : i \in first..last}

LEMMA CallsRead ==
  ASSUME NEW n \in Nat, NEW calls
  PROVE  decode_landing_calls(FlattenSeq([k \in 1..n |-> landing_call_status(calls[k])]))
         = [k \in 1..n |->
              [floor |-> calls[k].floor, direction |-> calls[k].direction,
               destination |-> IF calls[k].direction = None THEN calls[k].destination ELSE None,
               floor_text |-> calls[k].floor_text]]
<1>1. PICK ss : ss = [k \in 1..n |-> landing_call_status(calls[k])]
  OBVIOUS
<1>2. \A k \in 1..n : IsCall(ss[k], calls[k])
  BY <1>1, CallTags
<1>3. \A k \in 1..n : Complete(ss[k]) /\ Len(ss[k]) >= 1
  BY <1>2 DEF IsCall
<1>4. PICK flat : flat = FlattenSeq(ss)
  OBVIOUS
<1>5. PICK E : Laid(flat, ss, n, E)
  <2>1. ss = [k \in 1..n |-> ss[k]]
    BY <1>1
  <2>2. QED
    BY <1>3, <1>4, <2>1, Flattened
<1>6. PICK P : P = [k \in 1..n |-> E[k - 1] + 1]
  OBVIOUS
<1>7. /\ \A i \in 1..n : P[i] \in Nat
      /\ \A i \in 1..n : \A j \in 1..n : i < j => P[i] < P[j]
  <2>1. /\ \A j \in 1..n : \A k \in 1..n : j < k => E[j - 1] + 1 < E[k - 1] + 1
        /\ \A k \in 1..n : E[k - 1] + 1 \in Nat
    BY <1>3, <1>5, StartsInOrder
  <2>2. QED
    BY <1>6, <2>1
<1>8. PICK N \in Nat : N = E[n] /\ DOMAIN flat = 1..N /\ N = Len(flat)
  BY <1>5, DepthsWithin DEF Laid
<1>9. ASSUME NEW k \in 1..n
      PROVE  /\ E[k - 1] \in Nat /\ Len(ss[k]) \in Nat /\ E[k] = E[k - 1] + Len(ss[k])
             /\ \A i \in 1..Len(ss[k]) : E[k - 1] + i \in 1..N /\ flat[E[k - 1] + i] = ss[k][i]
  <2>1. k - 1 \in 0..n
    OBVIOUS
  <2>2. QED
    BY <1>5, <1>8, <2>1 DEF Laid
<1>10. ASSUME NEW p \in 1..N
       PROVE  \E k \in 1..n : \E i \in 1..Len(ss[k]) : p = E[k - 1] + i
  BY <1>5, <1>8 DEF Laid
<1>11. Values(flat) = 1..N
  <2>1. ASSUME NEW p \in 1..N PROVE flat[p].context /\ flat[p].kind = "value"
    <3>1. PICK k \in 1..n : \E i \in 1..Len(ss[k]) : p = E[k - 1] + i
      BY <1>10
    <3>2. PICK i \in 1..Len(ss[k]) : p = E[k - 1] + i
      BY <3>1
    <3>3. flat[p] = ss[k][i]
      BY <1>9, <3>2
    <3>4. ss[k][i].context /\ ss[k][i].kind = "value"
      BY <1>2 DEF IsCall
    <3>5. QED
      BY <3>3, <3>4
  <2>2. QED
    BY <1>8, <2>1 DEF Values
<1>12. Floors(flat) = First(P, n)
  <2>1. ASSUME NEW p \in 1..N, flat[p].number = 0 PROVE p \in First(P, n)
    <3>1. PICK k \in 1..n : \E i \in 1..Len(ss[k]) : p = E[k - 1] + i
      BY <1>10
    <3>2. PICK i \in 1..Len(ss[k]) : p = E[k - 1] + i
      BY <3>1
    <3>3. flat[p] = ss[k][i]
      BY <1>9, <3>2
    <3>4. 1 \in 1..Len(ss[k])
      BY <1>3, <1>9
    <3>5. i = 1
      BY <1>2, <2>1, <3>3, <3>4 DEF IsCall
    <3>6. p = P[k]
      BY <1>6, <3>2, <3>5
    <3>7. QED
      BY <3>6 DEF First
  <2>2. ASSUME NEW k \in 1..n PROVE P[k] \in 1..N /\ flat[P[k]].number = 0
    <3>1. 1 \in 1..Len(ss[k])
      BY <1>3, <1>9
    <3>2. P[k] \in 1..N /\ flat[P[k]] = ss[k][1]
      BY <1>6, <1>9, <3>1
    <3>3. QED
      BY <1>2, <3>2 DEF IsCall
  <2>3. QED
    BY <1>11, <2>1, <2>2 DEF Floors, First
<1>13. InOrder(Floors(flat)) = P
  <2>1. P = [k \in 1..n |-> P[k]]
    BY <1>6
  <2>2. InOrder(First(P, n)) = P
    BY <1>7, <2>1, InOrderIs
  <2>3. QED
    BY <1>12, <2>2
<1>14. DOMAIN P = 1..n /\ Len(P) = n
  <2>1. DOMAIN P = 1..n
    BY <1>6
  <2>2. P \in Seq(Nat)
    BY <1>6, <1>7
  <2>3. QED
    BY <2>1, <2>2, LenProperties
<1>15. ASSUME NEW k \in 1..n PROVE Until(flat, P, k) = E[k - 1] + Len(ss[k])
  <2>1. CASE k = n
    <3>1. Until(flat, P, k) = E[k]
      BY <1>8, <1>14, <2>1 DEF Until
    <3>2. QED
      BY <1>9, <3>1
  <2>2. CASE k # n
    <3>1. PICK m \in 1..n : m = k + 1 /\ m - 1 = k
      BY <2>2
    <3>2. Until(flat, P, k) = P[m] - 1
      BY <1>14, <2>2, <3>1 DEF Until
    <3>3. P[m] = E[k] + 1
      BY <1>6, <3>1
    <3>4. PICK e \in Nat : e = E[k]
      BY <1>9
    <3>5. P[m] - 1 = e
      BY <3>3, <3>4
    <3>6. QED
      BY <1>9, <3>2, <3>4, <3>5
  <2>3. QED
    BY <2>1, <2>2
<1>16. ASSUME NEW k \in 1..n
       PROVE  CallAt(flat, Between(flat, P[k], Until(flat, P, k)))
              = [floor |-> calls[k].floor, direction |-> calls[k].direction,
                 destination |-> IF calls[k].direction = None THEN calls[k].destination ELSE None,
                 floor_text |-> calls[k].floor_text]
  <2>1. PICK e \in Nat, m \in Nat : e = E[k - 1] /\ m = Len(ss[k])
    BY <1>9
  <2>2. PICK list, c : list = ss[k] /\ c = calls[k]
    OBVIOUS
  <2>3. P[k] = e + 1 /\ Until(flat, P, k) = e + m
    BY <1>6, <1>15, <2>1
  <2>4. \A i \in 1..m : e + i \in 1..N /\ flat[e + i] = list[i]
    BY <1>9, <2>1, <2>2
  <2>5. PICK S : S = Between(flat, P[k], Until(flat, P, k))
    OBVIOUS
  <2>6. S = {e + i : i \in 1..m}
    <3>1. ASSUME NEW p \in (e + 1)..(e + m) PROVE \E i \in 1..m : p = e + i
      <4>1. p - e \in 1..m /\ p = e + (p - e)
        OBVIOUS
      <4>2. QED
        BY <4>1
    <3>2. \A i \in 1..m : e + i \in (e + 1)..(e + m)
      OBVIOUS
    <3>3. QED
      BY <1>11, <2>3, <2>4, <2>5, <3>1, <3>2 DEF Between
  <2>7. IsCall(list, c) /\ m = Len(list)
    BY <1>2, <2>1, <2>2
  <2>8. S \subseteq Int
    BY <2>6
  <2>9. ASSUME NEW p \in S, NEW q \in S, flat[p].number = flat[q].number PROVE p = q
    <3>1. PICK i \in 1..m : p = e + i
      BY <2>6
    <3>2. PICK j \in 1..m : q = e + j
      BY <2>6
    <3>3. list[i].number = list[j].number
      BY <2>4, <2>9, <3>1, <3>2
    <3>4. i = j
      BY <2>7, <3>3 DEF IsCall
    <3>5. QED
      BY <3>1, <3>2, <3>4
  <2>10. {<<flat[p].number, flat[p].body>> : p \in S} = CallFields(c)
    <3>1. {<<list[i].number, list[i].body>> : i \in 1..m} = CallFields(c)
      BY <2>7 DEF IsCall
    <3>2. ASSUME NEW p \in S
          PROVE  \E i \in 1..m : <<flat[p].number, flat[p].body>> = <<list[i].number, list[i].body>>
      <4>1. PICK i \in 1..m : p = e + i
        BY <2>6
      <4>2. flat[p] = list[i]
        BY <2>4, <4>1
      <4>3. QED
        BY <4>2
    <3>3. ASSUME NEW i \in 1..m
          PROVE  \E p \in S : <<flat[p].number, flat[p].body>> = <<list[i].number, list[i].body>>
      <4>1. e + i \in S /\ flat[e + i] = list[i]
        BY <2>4, <2>6
      <4>2. QED
        BY <4>1
    <3>4. {<<flat[p].number, flat[p].body>> : p \in S}
            = {<<list[i].number, list[i].body>> : i \in 1..m}
      BY <3>2, <3>3
    <3>5. QED
      BY <3>1, <3>4
  <2>11. CallAt(flat, S)
         = [floor |-> c.floor, direction |-> c.direction,
            destination |-> IF c.direction = None THEN c.destination ELSE None,
            floor_text |-> c.floor_text]
    BY <2>8, <2>9, <2>10, CallRead
  <2>12. QED
    BY <2>2, <2>5, <2>11
<1>17. decode_landing_calls(flat)
         = [k \in DOMAIN InOrder(Floors(flat)) |->
              CallAt(flat, Between(flat, InOrder(Floors(flat))[k],
                                   Until(flat, InOrder(Floors(flat)), k)))]
  BY DEF decode_landing_calls, CallAt, Between, Until, Floors, Values
<1>18. decode_landing_calls(flat)
         = [k \in 1..n |-> CallAt(flat, Between(flat, P[k], Until(flat, P, k)))]
  BY <1>13, <1>14, <1>17
<1>19. QED
  BY <1>1, <1>4, <1>16, <1>18

\* decode_landing_calls gives back the calls that landing_call_status wrote, in
\* their order: a destination only where no direction was written, and each
\* optional field to the call it was written for.
THEOREM LandingCallsReadBack ==
  ASSUME NEW Floor, NEW Direction, NEW Text,
         NEW calls \in Seq([floor : Floor, direction : Direction, destination : Floor,
                            floor_text : Text])
  PROVE  decode_landing_calls(landing_calls(calls))
         = [k \in DOMAIN calls |->
              [floor |-> calls[k].floor, direction |-> calls[k].direction,
               destination |-> IF calls[k].direction = None THEN calls[k].destination ELSE None,
               floor_text |-> calls[k].floor_text]]
<1>1. PICK n \in Nat : DOMAIN calls = 1..n
  OBVIOUS
<1>2. decode_landing_calls(FlattenSeq([k \in 1..n |-> landing_call_status(calls[k])]))
        = [k \in 1..n |->
             [floor |-> calls[k].floor, direction |-> calls[k].direction,
              destination |-> IF calls[k].direction = None THEN calls[k].destination ELSE None,
              floor_text |-> calls[k].floor_text]]
  BY CallsRead
<1>3. QED
  BY <1>1, <1>2 DEF landing_calls
=============================================================================

--------------------------------- MODULE Fact ---------------------------------
(***************************************************************************)
(* fact: parsing, validating and binding a fact set.  A source line is     *)
(* [is |-> "blank"], [is |-> "unlexed"] (a carriage return, a comment, no  *)
(* "=" or no ":") or [is |-> "fact", key, type, val].  A key is a sequence *)
(* of segments [kind, id]: id is NoId for a plain name, a marker else.  A  *)
(* type is [base, wraps, syms, ref], a value [is, toks] with is one of     *)
(* "none", "list", "broken" (a malformed list) and "one"; a token is       *)
(* [base, spell], a ref's spell being a marker.                            *)
(***************************************************************************)
EXTENDS Integers, Sequences, SequencesExt, FiniteSets, FiniteSetsExt

CONSTANTS NoId,       \* in place of the id of a plain segment
          BadName,    \* a name that is no segment
          Big         \* an int or a float out of its range

IsSegment(name) == name # BadName
IsMarker(seg) == seg.id # NoId

-----------------------------------------------------------------------------
(* Parse: the line-local checks; "" for none broken.                       *)

CheckKey(key) ==
    IF \E i \in 1..Len(key) : ~IsSegment(key[i].kind) \/ (IsMarker(key[i]) /\ ~IsSegment(key[i].id)) THEN "E002"
    ELSE IF Cardinality({i \in 1..Len(key) : IsMarker(key[i])}) > 1 THEN "E003"
    ELSE ""

Bases == {"bool", "int", "float", "str", "datetime", "enum", "ref"}

ParseType(t) ==
    IF \/ t.base \notin Bases \/ Len(t.wraps) > 1
       \/ t.base = "enum" /\ (t.syms = <<>> \/ \E i \in 1..Len(t.syms) : t.syms[i] \in {BadName, "none"})
       \/ t.base = "ref" /\ ~IsSegment(t.ref)
    THEN "E004" ELSE ""

CheckScalar(t, tok) ==
    CASE tok.base # t.base \/ tok.spell = Big -> "E005"
      [] t.base = "enum" /\ tok.spell \notin Range(t.syms) -> "E005"
      [] t.base = "ref" /\ tok.base = "ref" /\ (~IsSegment(tok.spell.kind) \/ ~IsSegment(tok.spell.id)) -> "E005"
      [] t.base = "ref" /\ tok.base = "ref" /\ IsSegment(tok.spell.kind) /\ IsSegment(tok.spell.id)
         /\ tok.spell.kind # t.ref -> "E009"
      [] OTHER -> ""

CheckValue(t, v) ==
    LET bad == {i \in 1..Len(v.toks) : CheckScalar(t, v.toks[i]) # ""}
    IN  CASE v.is = "none" -> IF t.wraps = <<"opt">> THEN "" ELSE "E006"
          [] v.is # "none" /\ (v.is = "one") # (t.wraps # <<"list">>) -> "E005"
          [] v.is = "broken" -> "E005"
          [] OTHER -> IF bad = {} THEN "" ELSE CheckScalar(t, v.toks[Min(bad)])

(* One zero for an int.                                                    *)
Canon(v) == [v EXCEPT !.toks = [i \in 1..Len(v.toks) |->
                 IF v.toks[i].base = "int" /\ v.toks[i].spell = "-0"
                 THEN [v.toks[i] EXCEPT !.spell = "0"] ELSE v.toks[i]]]

LineErr(ln) ==
    CASE ln.is = "unlexed" -> "E001"
      [] ln.is = "fact" -> IF CheckKey(ln.key) # "" THEN CheckKey(ln.key)
                           ELSE IF ParseType(ln.type) # "" THEN ParseType(ln.type)
                           ELSE CheckValue(ln.type, ln.val)
      [] OTHER -> ""

Parse(src) ==
    LET ns  == [n \in 1..Len(src) |-> n]
        bad == SelectSeq(ns, LAMBDA n : LineErr(src[n]) # "")
        ok  == SelectSeq(ns, LAMBDA n : src[n].is = "fact" /\ LineErr(src[n]) = "")
    IN  [facts |-> [i \in 1..Len(ok) |-> [key |-> src[ok[i]].key, type |-> src[ok[i]].type,
                                          val |-> Canon(src[ok[i]].val), line |-> ok[i]]],
         errs |-> [i \in 1..Len(bad) |-> [line |-> bad[i], code |-> LineErr(src[bad[i]])]]]

-----------------------------------------------------------------------------
(* keyMarker: where the marker is (0: a singleton), and the key through it. *)
At(key) == Max({0} \cup {i \in 1..Len(key) : IsMarker(key[i])})
Marker(key) == key[At(key)]
Through(key) == SubSeq(key, 1, At(key))
Marked(f) == At(f.key) > 0

-----------------------------------------------------------------------------
(* Mutation of Resolved: the instances are those of the facts above.       *)
ResolvedAbove(facts, i, tok) == \E j \in 1..i : Marked(facts[j]) /\ Marker(facts[j].key) = tok.spell

Resolved(facts, i, tok) == \E j \in 1..Len(facts) : Marked(facts[j]) /\ Marker(facts[j].key) = tok.spell

(* Validate: the errors of the set, stably by line.  A duplicate is one of *)
(* an earlier key, a marker's prefix is that of its first fact.            *)
Validate(facts) ==
    LET E(i, code) == [line |-> facts[i].line, code |-> code]
        dup(i)   == \E j \in 1..(i - 1) : facts[j].key = facts[i].key
        first(i) == Min({j \in 1..i : Marked(facts[j]) /\ Marker(facts[j].key) = Marker(facts[i].key)})
        moved(i) == Marked(facts[i]) /\ Through(facts[first(i)].key) # Through(facts[i].key)
        refs(i)  == IF facts[i].type.base # "ref" \/ facts[i].val.is = "none" THEN <<>>
                    ELSE SelectSeq(facts[i].val.toks, LAMBDA t : ~Resolved(facts, i, t))
        of(i)    == (IF dup(i) THEN <<E(i, "E007")>> ELSE <<>>)
                    \o (IF moved(i) THEN <<E(i, "E010")>> ELSE <<>>)
                    \o [k \in 1..Len(refs(i)) |-> E(i, "E008")]
    IN  FlattenSeq([i \in 1..Len(facts) |-> of(i)])

Load(src) ==
    LET Judged(p) == [facts |-> p.facts, errs |-> p.errs \o Validate(p.facts)] IN Judged(Parse(src))

-----------------------------------------------------------------------------
(* Bind.  A map is named by the marker it is of, or by the map and the     *)
(* name it was made under; the view is the set of entries [at, name, is,   *)
(* to] of all maps.                                                        *)

Root == <<>>

(* Mutation of Levels: the map of a marker is like any other.              *)
LevelsBare(key) ==
    FlattenSeq([i \in 1..Len(key) |->
        <<[name |-> key[i].kind, inst |-> <<>>]>>
        \o (IF IsMarker(key[i]) THEN <<[name |-> key[i].id, inst |-> <<>>]>> ELSE <<>>)])

(* The levels of a key: a marker has two, the second backed by its map.    *)
Levels(key) ==
    FlattenSeq([i \in 1..Len(key) |->
        IF IsMarker(key[i]) THEN <<[name |-> key[i].kind, inst |-> <<>>], [name |-> key[i].id, inst |-> <<key[i]>>]>>
        ELSE <<[name |-> key[i].kind, inst |-> <<>>]>>])

EntryAt(view, at, name) == {e \in view : e.at = at /\ e.name = name}

(* Mutation of Free: a value may take the place of a map.                  *)
FreeValue(view, at, name) == \A e \in EntryAt(view, at, name) : e.is = "map"

Free(view, at, name) == EntryAt(view, at, name) = {}

(* bindPlace *)
BindPlace(view, key, val) ==
    LET ls   == Levels(key)
        leaf == ls[Len(ls)].name
        w == FoldLeft(LAMBDA st, lv :
                LET there == EntryAt(st.view, st.cur, lv.name)
                    made  == IF lv.inst # <<>> THEN lv.inst ELSE Append(st.cur, [kind |-> lv.name, id |-> NoId])
                IN  IF ~st.ok THEN st
                    ELSE IF there = {}
                    THEN [st EXCEPT !.cur = made,
                            !.view = @ \cup {[at |-> st.cur, name |-> lv.name, is |-> "map", to |-> made]}]
                    ELSE LET e == CHOOSE e \in there : TRUE
                         IN  IF e.is = "map" THEN [st EXCEPT !.cur = e.to] ELSE [st EXCEPT !.ok = FALSE],
                [ok |-> TRUE, view |-> view, cur |-> Root], SubSeq(ls, 1, Len(ls) - 1))
    IN  IF ~w.ok \/ ~Free(w.view, w.cur, leaf) THEN [ok |-> FALSE, view |-> {}]
        ELSE [ok |-> TRUE, view |-> w.view \cup {[at |-> w.cur, name |-> leaf, is |-> "value", to |-> val]}]

(* bindValue: a ref is the map of its instance.                            *)
BindValue(f) ==
    IF f.val.is = "none" THEN <<[nil |-> TRUE]>>
    ELSE [i \in 1..Len(f.val.toks) |->
            IF f.type.base = "ref" THEN [map |-> <<f.val.toks[i].spell>>] ELSE [scalar |-> f.val.toks[i].spell]]

(* kindPrefix: a singleton key in the namespace of a kind.                 *)
KindPath(key) == [i \in 1..At(key) |-> [kind |-> key[i].kind, id |-> NoId]]
InKind(facts, key) ==
    \E j \in 1..Len(facts) : Marked(facts[j]) /\ IsPrefix(KindPath(facts[j].key), key)

Bind(facts) ==
    LET order == SelectSeq(facts, Marked) \o SelectSeq(facts, LAMBDA f : ~Marked(f))
    IN  FoldLeft(LAMBDA b, f :
            IF \/ ~b.ok \/ (~Marked(f) /\ InKind(facts, f.key))
               \/ f.type.base = "ref" /\ \E t \in Range(f.val.toks) : ~Resolved(facts, Len(facts), t)
            THEN [ok |-> FALSE, view |-> {}]
            ELSE BindPlace(b.view, f.key, BindValue(f)),
            [ok |-> TRUE, view |-> {}], order)

-----------------------------------------------------------------------------
(* Mutation of GroupOf: instances are told apart by their markers.         *)
GroupOfMarker(key) == <<Marker(key)>>

GroupOf(key) == Through(key)

(* Instances: the facts by instance, in the order each first appears.      *)
Instances(facts) ==
    LET marked == SelectSeq(facts, Marked)
        Group(g, f) ==
            LET i == {k \in 1..Len(g) : g[k].through = GroupOf(f.key)}
                field == [f EXCEPT !.key = SubSeq(@, At(f.key) + 1, Len(@))]
            IN  IF i = {} THEN Append(g, [through |-> GroupOf(f.key), line |-> f.line, fields |-> <<field>>])
                ELSE [g EXCEPT ![Min(i)].fields = Append(@, field)]
    IN  [instances |-> FoldLeft(Group, <<>>, marked),
         singletons |-> SelectSeq(facts, LAMBDA f : ~Marked(f))]

(* The records of a grouped file, or the line that is refused.             *)
Admit(errs, g, kinds) ==
    LET no == {i \in 1..Len(g.instances) : Len(g.instances[i].through) > 1 \/ g.instances[i].through[1].kind \notin kinds}
        at == IF errs # <<>> THEN errs[1].line
              ELSE IF g.singletons # <<>> THEN g.singletons[1].line
              ELSE IF no # {} THEN g.instances[Min(no)].line ELSE 0
    IN  [line |-> at, instances |-> IF at = 0 THEN g.instances ELSE <<>>]

(* LoadInstances: the records of an import file.                           *)
LoadInstances(src, kinds) ==
    LET Sorted(l) == Admit(l.errs, Instances(l.facts), kinds) IN Sorted(Load(src))

-----------------------------------------------------------------------------
(* What is promised of a set.                                              *)

(* Validate refuses just the sets with two facts of one key, an instance   *)
(* under two prefixes or a ref to no instance, wherever the lines stand,   *)
(* and names a line at fault.                                              *)
ValidExactly(facts) ==
    LET n == Len(facts)
        errs == Validate(facts)
        pair == {<<i, j>> \in (1..n) \X (1..n) : i < j /\
                   \/ facts[i].key = facts[j].key
                   \/ /\ Marked(facts[i]) /\ Marked(facts[j]) /\ Marker(facts[i].key) = Marker(facts[j].key)
                      /\ Through(facts[i].key) # Through(facts[j].key)}
        loose == {i \in 1..n : facts[i].type.base = "ref" /\ \E t \in Range(facts[i].val.toks) :
                    t.spell \notin {Marker(facts[j].key) : j \in {k \in 1..n : Marked(facts[k])}}}
        lines == {errs[i].line : i \in 1..Len(errs)}
    IN  /\ (errs = <<>>) = (pair = {} /\ loose = {})
        /\ \A i \in loose : facts[i].line \in lines
        /\ \A p \in pair : \E q \in pair : facts[q[2]].line \in lines /\ q[2] <= p[2]
        /\ \A i \in 2..Len(errs) : errs[i - 1].line <= errs[i].line

(* No key of one instance runs through the map of another.                 *)
NamesOf(key) == LET ls == Levels(key) IN [i \in 1..Len(ls) |-> ls[i].name]
Apart(facts) ==
    \A i, j \in 1..Len(facts) :
        Marked(facts[i]) /\ Marked(facts[j]) /\ Marker(facts[i].key) # Marker(facts[j].key) =>
            ~IsPrefix(NamesOf(Through(facts[i].key)), NamesOf(facts[j].key))

(* Where a path of names leads from a map.                                 *)
Walk(view, at, names) ==
    FoldLeft(LAMBDA s, n : UNION {EntryAt(view, m, n) : m \in {e.to : e \in {x \in s : x.is = "map"}}},
             {[is |-> "map", to |-> at]}, names)

(* In the view of a validated set every fact is at its path, and an        *)
(* instance's own map, what a ref binds to, has the instance's fields and  *)
(* nothing else.                                                           *)
BindsAll(facts, bound) ==
    LET values(at) == {e \in bound.view : e.is = "value" /\ Len(e.at) >= Len(at) /\ SubSeq(e.at, 1, Len(at)) = at}
    IN  \A i \in 1..Len(facts) :
            LET f == facts[i]
                hit(at, names) == \E e \in Walk(bound.view, at, names) : e.is = "value" /\ e.to = BindValue(f)
            IN  /\ hit(Root, NamesOf(f.key))
                /\ Marked(f) /\ At(f.key) < Len(f.key) =>
                      /\ hit(<<Marker(f.key)>>, NamesOf(SubSeq(f.key, At(f.key) + 1, Len(f.key))))
                      /\ Cardinality(values(<<Marker(f.key)>>))
                            = Cardinality({j \in 1..Len(facts) : Marked(facts[j]) /\ At(facts[j].key) < Len(facts[j].key)
                                                                 /\ Marker(facts[j].key) = Marker(f.key)})

(* Every fact is in one instance, that of its prefix and marker, or with   *)
(* the singletons, and the facts of each are in the order of the source.   *)
Grouped(facts, g) ==
    /\ g.singletons = SelectSeq(facts, LAMBDA f : ~Marked(f))
    /\ \A i \in 1..Len(g.instances) :
          LET in == SelectSeq(facts, LAMBDA f : Marked(f) /\ Through(f.key) = g.instances[i].through)
          IN  g.instances[i].fields = [k \in 1..Len(in) |->
                  [in[k] EXCEPT !.key = SubSeq(@, Len(g.instances[i].through) + 1, Len(@))]]
    /\ Len(g.instances) = Cardinality({Through(f.key) : f \in {x \in Range(facts) : Marked(x)}})
===============================================================================

------------------------------ MODULE Behaviour ------------------------------
(***************************************************************************)
(* The behaviour layer (byakugan/analytics.py, sigma.py): rules compiled to    *)
(* predicates over the rows of one CAR object, and the rows they flag.  Text     *)
(* matching is given by the pairs that match.  Expressions are in postfix form:   *)
(* <<"test", t>>, <<"not">>, <<"and">>, <<"or">>.                                   *)
(***************************************************************************)
EXTENDS Row

CONSTANTS
  Analytics,    \* the CAR analytics, in the order of their files
  SearchOf,     \* the <<object, action>> words that name an object and an action of the model
  Globs,        \* the globs, to the values each matches
  TextMatches,  \* <<mode, pattern, value>>: regular expressions and affixes that match
  SigmaRules,   \* the Sigma rules, in the order of their files
  LogSource,    \* LOGSOURCE: from category to <<object, action>>
  SigmaColumns, \* by object, the columns that a Sigma field is read into
  SkippedRules, \* the rule ids of hayabusa's lists
  StoredColumns \* by object, the columns that every stored row has, null or not

\* The tests of an expression: its elements that are not an operator.
Tests(expr) == {expr[k][2] : k \in {j \in DOMAIN expr : Len(expr[j]) = 2}}

\* The value of an expression, by a stack of the values of its parts, where these
\* tests are true.
Holds(expr, true) ==
  LET step(s, t) ==
        CASE t[1] = "not" -> <<~Head(s)>> \o Tail(s)
          [] t[1] = "and" -> <<s[1] /\ s[2]>> \o SubSeq(s, 3, Len(s))
          [] t[1] = "or" -> <<s[1] \/ s[2]>> \o SubSeq(s, 3, Len(s))
          [] OTHER -> <<t[2] \in true>> \o s
  IN  Head(FoldLeft(step, <<>>, expr))

\* A column of the object, even if it is null, or else what the native bag says
\* under that name.
Field(row, name) == IF name \in StoredColumns[row["car_object"]] THEN Get(row, name)
                    ELSE Get(row, "native." \o name)

-----------------------------------------------------------------------------
(* CAR analytics *)

\* A name without a path is also compared with the last component of the value.
Equal(value, want) ==
  LET same(v) == IF want \in DOMAIN Globs THEN v \in Globs[want] ELSE Lower(v) = Lower(want)
  IN  same(value) \/ (want \notin DOMAIN Basename /\ same(BaseName(value)))

\* The comparison t = [field, op, values], op one of = != in match; an absent field
\* differs from everything.
Compared(row, t) ==
  LET v == Field(row, t.field)
  IN  IF v = "" THEN t.op = "!="
      ELSE CASE t.op = "match" -> <<"re", t.values[1], v>> \in TextMatches
             [] t.op = "!=" -> ~Equal(v, t.values[1])
             [] OTHER -> \E i \in DOMAIN t.values : Equal(v, t.values[i])

\* A filter that does not parse is left out.
Clauses(an) == SelectSeq(an.filters, LAMBDA c : c.expr # <<>>)

\* One search, filters over its own result, and nothing that depends on time or on sets.
Runnable(an) ==
  /\ Len(an.searches) = 1
  /\ ~an.joins /\ ~an.temporal
  /\ \A i \in DOMAIN an.filters : an.filters[i].subject = an.searches[1].variable
  /\ Clauses(an) # <<>>
  /\ an.searches[1].words \in DOMAIN SearchOf
  /\ an.coverage # <<>>

Hit(id, clause, scope, row) ==
  [analytic |-> id, clause |-> clause, object |-> scope[1], action |-> scope[2],
   guid |-> Get(row, "guid"), timestamp |-> Time(row), host |-> Get(row, "source_host")]

Flags(an, list) ==
  LET scope == SearchOf[an.searches[1].words]
  IN  UNION {{Hit(an.id, c.name, scope, list[k]) :
                c \in {d \in ToSet(Clauses(an)) : Holds(d.expr, {t \in Tests(d.expr) : Compared(list[k], t)})}} :
               k \in {j \in DOMAIN list : /\ list[j]["car_object"] = scope[1]
                                          /\ Get(list[j], "car_action") = scope[2]}}

FlagRows(list) == UNION {Flags(an, list) : an \in {a \in ToSet(Analytics) : Runnable(a)}}

-----------------------------------------------------------------------------
(* Sigma rules *)

\* Fields that only say which log a record comes from.
GateOnly == {"EventID", "Channel", "Provider", "Provider_Name", "Computer", "EventRecordID",
             "Task", "Opcode", "Level", "Keywords"}

Unsupported == {"base64", "base64offset", "cidr", "utf16", "utf16le", "utf16be", "wide", "gzip"}

\* The first of the columns of a field that has a value; the name itself comes last.
SigmaValue(row, f) ==
  LET columns == IF f \in DOMAIN SigmaColumns[row["car_object"]]
                 THEN Append(SigmaColumns[row["car_object"]][f], f) ELSE <<f>>
      there == SelectInSeq(columns, LAMBDA c : Field(row, c) # "")
  IN  IF there = 0 THEN "" ELSE Field(row, columns[there])

Mode(mods) == IF mods \cap {"re", "regex"} # {} THEN "re"
              ELSE IF mods \cap {"contains", "windash"} # {} THEN "contains"
              ELSE IF "startswith" \in mods THEN "startswith"
              ELSE IF "endswith" \in mods THEN "endswith" ELSE "exact"

\* One `field|modifiers: values` of a selection.
LeafHolds(row, leaf) ==
  LET v == SigmaValue(row, leaf.field)
      matches(want) == IF Mode(leaf.mods) = "exact" THEN Equal(v, want)
                       ELSE <<Mode(leaf.mods), want, v>> \in TextMatches
  IN  /\ leaf.mods \cap Unsupported = {}
      /\ leaf.values # <<>> /\ v # ""
      /\ IF "all" \in leaf.mods THEN \A i \in DOMAIN leaf.values : matches(leaf.values[i])
         ELSE \E i \in DOMAIN leaf.values : matches(leaf.values[i])

\* A selection is one of several blocks, and a block is all of its leaves.
SelectionHolds(row, blocks) ==
  \E b \in ToSet(blocks) : \A leaf \in ToSet(b) :
    \/ leaf.field \in GateOnly /\ leaf.mods = {}
    \/ LeafHolds(row, leaf)

\* The names of a quantifier: all of them, those with a prefix, or one.
Named(rule, target) == IF target.them THEN DOMAIN rule.selections
                       ELSE DOMAIN rule.selections \cap target.names

\* A part of the condition: a selection by its name, or a quantifier over several.
ConditionHolds(rule, row, t) ==
  LET names == Named(rule, t)
      holds(n) == SelectionHolds(row, rule.selections[n])
  IN  /\ names # {}
      /\ IF t.quantifier = "all" THEN \A n \in names : holds(n) ELSE \E n \in names : holds(n)

SigmaRunnable(rule) ==
  /\ rule.status # "deprecated"
  /\ rule.id \notin SkippedRules
  /\ rule.category \in DOMAIN LogSource
  /\ rule.techniques # <<>>
  /\ DOMAIN rule.selections # {}
  /\ rule.condition # <<>>

\* A rule runs on every row of its object, whatever the action.
SigmaHits(list) ==
  UNION {{Hit(rule.id, "sigma", LogSource[rule.category], list[k]) :
            k \in {j \in DOMAIN list : /\ list[j]["car_object"] = LogSource[rule.category][1]
                                       /\ Holds(rule.condition, {t \in Tests(rule.condition) :
                                                                  ConditionHolds(rule, list[j], t)})}} :
           rule \in {r \in ToSet(SigmaRules) : SigmaRunnable(r)}}
=============================================================================

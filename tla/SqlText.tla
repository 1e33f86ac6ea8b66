------------------------------ MODULE SqlText ------------------------------
(***************************************************************************)
(* JdbcUtils.namedParameterToQuestionMarked: the parameters ?name of a     *)
(* statement become ?, and the names get their indices.  The comment over  *)
(* the function says :name; to the code a colon is a character like any.   *)
(***************************************************************************)
EXTENDS Calls, Sequences, SequencesExt, FiniteSetsExt

Terminators == {",", ")"}

\* Names are texts without the spaces around them.
Trim(text) ==
    LET solid == {i \in DOMAIN text : text[i] # " "}
    IN IF solid = {} THEN <<>> ELSE SubSeq(text, Min(solid), Max(solid))

NamedParameters(sql) ==
    CallOf("namedParameterToQuestionMarked", [sql |-> sql],
           [rest |-> sql, sqlBuf |-> <<>>, paramBuf |-> <<>>, params |-> <<>>, idx |-> 0,
            isName |-> FALSE])

\* Mutant: a name that occurs again keeps its first index.
RecordFirst(params, name, idx) ==
    [n \in DOMAIN params \cup {name} |-> IF n \in DOMAIN params THEN params[n] ELSE idx]

\* params += (name -> idx)
Record(params, name, idx) ==
    [n \in DOMAIN params \cup {name} |-> IF n = name THEN idx ELSE params[n]]

\* The turn for a character.
CharacterNext ==
    /\ Running("namedParameterToQuestionMarked")
    /\ LET locals == call.locals
           c == Head(locals.rest)
           turn == [locals EXCEPT !.rest = Tail(@)]
       IN \/ /\ locals.rest = <<>>
             /\ Return([sql |-> locals.sqlBuf, params |-> locals.params])
          \/ /\ locals.rest # <<>> /\ c = "?"
             /\ Continue([turn EXCEPT !.sqlBuf = Append(@, "?"), !.isName = TRUE])
          \/ /\ locals.rest # <<>> /\ c \in Terminators /\ locals.isName
             /\ Continue([turn EXCEPT
                   !.sqlBuf = Append(@, c), !.idx = @ + 1,
                   !.params = Record(@, Trim(locals.paramBuf), locals.idx + 1),
                   !.paramBuf = <<>>, !.isName = FALSE])
          \/ /\ locals.rest # <<>> /\ c # "?" /\ locals.isName /\ c \notin Terminators
             /\ Continue([turn EXCEPT !.paramBuf = Append(@, c)])
          \/ /\ locals.rest # <<>> /\ c # "?" /\ ~ locals.isName
             /\ Continue([turn EXCEPT !.sqlBuf = Append(@, c)])

\* The places of question marks, and the terminator that ends the name at one.
Marks(sql) == {i \in DOMAIN sql : sql[i] = "?"}
Ends(sql, i) == {j \in i + 1 .. Len(sql) : sql[j] \in Terminators}

\* Every name ends with a comma or a parenthesis before the next one begins, as
\* in a list of values.
ListOfNames(sql) ==
    \A i \in Marks(sql) :
       Ends(sql, i) # {} /\ \A k \in Marks(sql) : k > i => k > Min(Ends(sql, i))

NameAt(sql, i) == Trim(SubSeq(sql, i + 1, Min(Ends(sql, i)) - 1))

\* In a statement whose names all end with a comma or a parenthesis, the names
\* are taken out and nothing else, and each is bound to the number of its
\* question mark - the last one when it occurs more than once.  Names that end
\* in any other way swallow what follows, and one at the end is not bound.  A
\* statement whose names follow colons and that has no question mark comes back as
\* it is, with nothing bound, against the comment that all :name are replaced
\* (JdbcUtils.scala:79).
\* (namedParameterToQuestionMarked)
NamesBound ==
    Returned("namedParameterToQuestionMarked") /\ ListOfNames(call.args.sql) =>
       LET sql == call.args.sql
           names == UNION {i + 1 .. Min(Ends(sql, i)) - 1 : i \in Marks(sql)}
           Number(i) == Cardinality({k \in Marks(sql) : k <= i})
           Of(name) == {i \in Marks(sql) : NameAt(sql, i) = name}
       IN /\ call.result.sql = [k \in 1 .. Len(sql) - Cardinality(names) |->
                sql[CHOOSE i \in DOMAIN sql \ names :
                       Cardinality({j \in DOMAIN sql \ names : j <= i}) = k]]
          /\ DOMAIN call.result.params = {NameAt(sql, i) : i \in Marks(sql)}
          /\ \A name \in DOMAIN call.result.params :
                call.result.params[name] = Number(Max(Of(name)))

==============================================================================

------------------------------ MODULE Analysis ------------------------------
(***************************************************************************)
(* The aggregators (event_aggregator.h), maps in maps by one key after     *)
(* another, and the report that the analysis mode makes with them of all   *)
(* events of a directory (RunAnalysis; StressTest.tla has the cursor that  *)
(* reads them).                                                            *)
(*                                                                         *)
(* An aggregator has the rule by which its keys are written, and for each  *)
(* key another aggregator or, after the last key, a tuple of values.  Its  *)
(* methods are templates, one for aggregators of several keys and one for  *)
(* those of the last key: the first is an operator here that gets its own  *)
(* instance for one key less.                                              *)
(***************************************************************************)
EXTENDS EventFields

GenerationRule(date, hash) == [convert_key |-> date, generate_hash |-> hash]

EventAggregator == [rule |-> GenerationRule(FALSE, FALSE), data |-> <<>>]

\* operator+= of the values.
Plus(lhs, rhs) == [i \in DOMAIN lhs |-> lhs[i] + rhs[i]]

\* insert({t, {}}): a key that is new has an empty aggregator, or values of 0.
At(agg, t) == IF t \in DOMAIN agg.data THEN agg.data[t] ELSE EventAggregator
Zero(values) == [i \in DOMAIN values |-> 0]
With(agg, t, new) ==
    [rule |-> agg.rule,
     data |-> [k \in DOMAIN agg.data \cup {t} |-> IF k = t THEN new ELSE agg.data[k]]]

\* (Seeded fault: values of keys that are there already are not added.)
AddLastOnce(agg, values, keys) ==
    LET t == keys[1]
    IN IF t \in DOMAIN agg.data THEN agg ELSE With(agg, t, Plus(Zero(values), values))

AddLast(agg, values, keys) ==
    LET t == keys[1]
    IN With(agg, t, Plus(IF t \in DOMAIN agg.data THEN agg.data[t] ELSE Zero(values), values))
Add(AddInner(_, _, _), agg, values, keys) ==
    With(agg, keys[1], AddInner(At(agg, keys[1]), values, Tail(keys)))

Add2(agg, values, keys) == Add(AddLast, agg, values, keys)
Add3(agg, values, keys) == Add(Add2, agg, values, keys)
Add4(agg, values, keys) == Add(Add3, agg, values, keys)
Add5(agg, values, keys) == Add(Add4, agg, values, keys)

\* The rules of the aggregators that are there, one for each key.
SetGenerationRuleLast(agg, rules) == [rule |-> rules[1], data |-> agg.data]
SetGenerationRule(SetInner(_, _), agg, rules) ==
    [rule |-> rules[1],
     data |-> [t \in DOMAIN agg.data |-> SetInner(agg.data[t], Tail(rules))]]

SetGenerationRule2(agg, rules) == SetGenerationRule(SetGenerationRuleLast, agg, rules)
SetGenerationRule3(agg, rules) == SetGenerationRule(SetGenerationRule2, agg, rules)
SetGenerationRule4(agg, rules) == SetGenerationRule(SetGenerationRule3, agg, rules)
SetGenerationRule5(agg, rules) == SetGenerationRule(SetGenerationRule4, agg, rules)

\* The rows, a set: the order of an unordered_map means nothing.
Row(rule, t, rows) ==
    [key |-> IF rule.convert_key THEN ToDateFormatString(t) ELSE t,
     key_hash |-> IF rule.generate_hash THEN <<"sha256", t>> ELSE <<>>,
     rows |-> rows]
ToJsonArrayLast(agg) == {Row(agg.rule, t, agg.data[t]) : t \in DOMAIN agg.data}
ToJsonArray(ToJsonInner(_), agg) ==
    {Row(agg.rule, t, ToJsonInner(agg.data[t])) : t \in DOMAIN agg.data}

ToJsonArray2(agg) == ToJsonArray(ToJsonArrayLast, agg)
ToJsonArray3(agg) == ToJsonArray(ToJsonArray2, agg)
ToJsonArray4(agg) == ToJsonArray(ToJsonArray3, agg)
ToJsonArray5(agg) == ToJsonArray(ToJsonArray4, agg)

-----------------------------------------------------------------------------
(* RunAnalysis. *)

Plain == GenerationRule(FALSE, FALSE)
DateString == GenerationRule(TRUE, FALSE)
Hashed == GenerationRule(FALSE, TRUE)

\* The values and the keys of a request.
SqlValues(event) ==
    LET plan_txt == PlanTxtParse(event.planSQLText)
    IN <<1, event.duration, RowsToUint64(event.row), RowsToUint64(event.rowsAffected),
         plan_txt.rows, plan_txt.estimate_rows,
         plan_txt.data_size, plan_txt.estimate_data_size>>

\* The form of an SQL text that is empty, and so is its function, is undefined.
SqlKeys(event) ==
    LET sql_text == IF event.sql = <<>> THEN event.func ELSE event.sql
    IN <<Minute(event), event.database, LastStringContext(event.context), event.context,
         Sql!SqlHashDbMsSql(sql_text)>>

LockKeys(event) ==
    <<RoundMinute(Moment(event)), event.database, LastStringContext(event.context), event.context>>

\* One event; no event goes to the aggregator of deadlocks.
Analyse(st, event) ==
    [sql |-> IF event.name = "DBMSSQL" THEN Add5(st.sql, SqlValues(event), SqlKeys(event))
             ELSE st.sql,
     ttimeout |-> IF event.name = "TTIMEOUT" THEN Add4(st.ttimeout, <<1>>, LockKeys(event))
                  ELSE st.ttimeout,
     managed_lock |-> IF event.name = "TTIMEOUT"
                      THEN Append(st.managed_lock, ManagedLockEvent(event))
                      ELSE st.managed_lock]

LockRules == <<DateString, Plain, Hashed, Hashed>>
SqlRules == <<DateString, Plain, Hashed, Hashed, Hashed>>

RunAnalysis(events) ==
    LET after[n \in 0 .. Len(events)] ==
            IF n = 0 THEN [sql |-> EventAggregator, ttimeout |-> EventAggregator,
                           managed_lock |-> <<>>]
            ELSE Analyse(after[n - 1], events[n])
        end == after[Len(events)]
        Locks(agg) == ToJsonArray4(SetGenerationRule4(agg, LockRules))
    IN [TTIMEOUT |-> Locks(end.ttimeout), TDEADLOCK |-> Locks(EventAggregator),
        DBMSSQL |-> ToJsonArray5(SetGenerationRule5(end.sql, SqlRules)),
        MANAGED_LOCKS |-> end.managed_lock]
=============================================================================

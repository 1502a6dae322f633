------------------------------ MODULE Entries ------------------------------
(***************************************************************************)
(* Metadata entries from add_meta to find: what a block's calls leave in   *)
(* the metadata table (domain/metadata.py, util.py, domain/node.py) and    *)
(* which nodes an equality filter matches there (db/metadata_store.py).    *)
(*                                                                         *)
(* A Python value is a kind and a number that stands for what it holds:    *)
(* two values are the same when both agree. A text that reads as a number  *)
(* is a "numeral", one that reads as a bool a "word", and a URL is a kind  *)
(* of text of its own; what else a text, a list or a dict contains is not  *)
(* looked into.                                                            *)
(***************************************************************************)
EXTENDS Integers, Sequences

CONSTANT Exact  \* 2^53: up to there every integer is a double

Numbers == {"int", "float"}
Files == {"path", "picture"}
Texts == {"text", "numeral", "word", "url"}

\* What json.dumps writes as it is; and the rest, an opaque object included.
Native == Numbers \union Texts \union {"none", "bool", "nan", "list", "dict"}
Kind == Native \union Files \union {"scalar", "array", "set", "time", "frame", "opaque"}
Value == [is : Kind, of : Nat]

ReservedKeys == {"node_id", "generation"}  \* two of the ten will do
DataTypes == {"image", "link", "table", "json", "code", "text"}
Call == [key : STRING, value : Value, data_type : STRING, searchable : BOOLEAN]

ASSUME EntriesAssumption == Exact \in Nat

\* A double near n. Beyond Exact only every other integer is one; an
\* integer beyond all doubles is left out: its block ends with an error.
AsDouble(n) == IF n <= Exact THEN n ELSE n - (n % 2)

-----------------------------------------------------------------------------
(* prepare_entry *)

InferDataType(v) ==
    CASE v.is = "frame" -> "table"
      [] v.is \in {"dict", "list"} -> "json"
      [] v.is = "picture" -> "image"
      [] v.is \in {"path", "url"} -> "link"
      [] OTHER -> "text"

DataTypeOf(c) == IF c.data_type = "auto" THEN InferDataType(c.value) ELSE c.data_type

\* str(): a link may be given as a number.
Str(v) ==
    CASE v.is \in Texts -> v
      [] v.is = "bool" -> [v EXCEPT !.is = "word"]
      [] v.is \in Numbers \union {"scalar"} -> [v EXCEPT !.is = "numeral"]
      [] OTHER -> [v EXCEPT !.is = "text"]

ToJsonable(v) ==
    CASE v.is = "scalar" -> [v EXCEPT !.is = "int"]
      [] v.is \in {"array", "set"} -> [v EXCEPT !.is = "list"]
      [] v.is = "time" -> [v EXCEPT !.is = "text"]
      [] OTHER -> v

Shown(c) ==
    CASE DataTypeOf(c) \in {"image", "link"} -> Str(c.value)
      [] DataTypeOf(c) = "table" -> [c.value EXCEPT !.is = "dict"]
      [] OTHER -> c.value

Stored(c) == ToJsonable(Shown(c))

\* Otherwise add_meta raises, and what was recorded before stays.
Accepts(c) ==
    /\ c.key \notin ReservedKeys
    /\ c.data_type \in DataTypes \union {"auto"}
    /\ DataTypeOf(c) = "table" => c.value.is = "frame"
    /\ DataTypeOf(c) = "json" => c.value.is \in {"dict", "list"}
    /\ Stored(c).is \in Native

Searchable(c) ==
    /\ c.searchable
    /\ DataTypeOf(c) \in {"image", "link"} => Shown(c).is = "url"
    /\ DataTypeOf(c) \notin {"table", "json"}

-----------------------------------------------------------------------------
(* The metadata table *)

Nothing == -1

BoolsAreInts(v) == IF v.is \in Numbers \union {"bool"} THEN AsDouble(v.of) ELSE Nothing

\* The column for numbers; NaN is stored as NULL, and a bool is no number.
Numeric(v) == IF v.is \in Numbers THEN AsDouble(v.of) ELSE Nothing

MetadataRow(c) == [value |-> Stored(c), num_value |-> Numeric(Stored(c)), searchable |-> Searchable(c)]

\* A key has the row of the last call for it that was accepted.
Rows(calls, key) ==
    {MetadataRow(calls[i]) : i \in
        {i \in DOMAIN calls :
            /\ calls[i].key = key /\ Accepts(calls[i])
            /\ \A j \in (i + 1)..Len(calls) : ~(calls[j].key = key /\ Accepts(calls[j]))}}

\* find cannot encode what add_meta would have converted.
MayAsk(v) == v.is \in Native

\* Numbers are compared as numbers, all else as text. NULL equals nothing.
Matches(row, v) ==
    /\ row.searchable
    /\ IF v.is \in Numbers \union {"nan"}
       THEN v.is # "nan" /\ row.num_value = Numeric(v)
       ELSE row.value = v

Matching(calls, key, v) == \E row \in Rows(calls, key) : Matches(row, v)

\* The explorer's search box: a text that reads as a number or a bool is one.
Parse(v) ==
    CASE v.is = "numeral" -> [v EXCEPT !.is = "int"]
      [] v.is = "word" -> [v EXCEPT !.is = "bool"]
      [] OTHER -> v

-----------------------------------------------------------------------------
(* What the documentation promises: values match by equality.              *)

\* What a value means, whatever Python calls it.
Meaning(v) ==
    CASE v.is \in Numbers \union {"scalar"} -> <<"number", v.of>>
      [] v.is \in {"text", "time"} -> <<"text", v.of>>
      [] v.is \in {"list", "array", "set"} -> <<"list", v.of>>
      [] OTHER -> <<v.is, v.of>>

\* References to files, tables and structures are for display only.
DisplayOnly(c) ==
    \/ ~c.searchable
    \/ c.data_type \in {"table", "json"}
    \/ c.data_type \in {"image", "link"} /\ c.value.is # "url"
    \/ c.data_type = "auto" /\ c.value.is \in Files \union {"frame", "dict", "list"}

\* The call speaks for its key, and v is what it recorded.
Tells(c, v) == ~DisplayOnly(c) /\ v.is # "nan" /\ Meaning(c.value) = Meaning(v)

Told(calls, key, v) ==
    \E i \in DOMAIN calls :
        /\ calls[i].key = key /\ Accepts(calls[i]) /\ Tells(calls[i], v)
        /\ \A j \in (i + 1)..Len(calls) : calls[j].key = key => ~Accepts(calls[j])

\* Two integers may share a double.
Coarse(v) == v.is \in Numbers /\ v.of >= Exact
=============================================================================

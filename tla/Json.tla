-------------------------------- MODULE Json --------------------------------
(***************************************************************************)
(* JSON documents as trees, and the tokens that jsmn.h makes of them.      *)
(*                                                                         *)
(* A value is a record of the same shape whatever its type: a text (of a   *)
(* string, or of a container the text as far as the program can copy it)   *)
(* and a sequence of items, each a key (of an object) and a value.  The    *)
(* texts of keys and strings are what jsmn_nstr would make of them.        *)
(***************************************************************************)
EXTENDS Integers, SequencesExt

Str(text) == [type |-> "STRING", text |-> text, items |-> <<>>]

Arr(vals) ==
  [type |-> "ARRAY", text |-> "[]",
   items |-> [k \in DOMAIN vals |-> [key |-> "", val |-> vals[k]]]]

Pair(key, val) == [key |-> key, val |-> val]

Obj(pairs) == [type |-> "OBJECT", text |-> "{}", items |-> pairs]

----------------------------------------------------------------------------
(* A token: its type, its text, and for a container the number of its items
   (of its keys, not keys and values).  The two calls of jsmn_parse agree on
   the tokens of a document, and those of a document that breaks off after a
   value are the tokens of the same document closed there: a container's size
   counts the items there are.  What jsmn_parse returns the second time, an
   error for the brackets left open, is not looked at. *)
Token(type, text, size) == [type |-> type, text |-> text, size |-> size]

RECURSIVE Tokens(_)
Tokens(val) ==
  LET ItemTokens(item) ==
        (IF val.type = "OBJECT" THEN <<Token("STRING", item.key, 1)>> ELSE <<>>)
          \o Tokens(item.val)
  IN <<Token(val.type, val.text, Len(val.items))>>
       \o FoldLeft(LAMBDA toks, item : toks \o ItemTokens(item), <<>>, val.items)

(* The documents a text can break off to, closed where it does. *)
RECURSIVE Cuts(_)
Cuts(val) ==
  {[val EXCEPT !.items = SubSeq(@, 1, k)] : k \in 0..Len(val.items)} \cup
  UNION {{[val EXCEPT !.items = Append(SubSeq(@, 1, k - 1), Pair(@[k].key, cut))] :
            cut \in Cuts(val.items[k].val)} : k \in DOMAIN val.items}
=============================================================================

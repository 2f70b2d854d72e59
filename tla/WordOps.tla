------------------------------ MODULE WordOps ------------------------------
(* The word updates of libpmemobj's logs (ULOG_OPERATION_SET, _AND, _OR).  *)
CONSTANTS
    Words,          \* the 64-bit words of the pool that are updated
    Bits            \* the bits of a word; a value is the set of its 1 bits

Value == SUBSET Bits

Entry == [off : Words, type : {"SET", "AND", "OR"}, val : Value]

\* ulog_entry_apply: what an entry makes of the word it names.
Effect(e, x) == CASE e.type = "SET" -> e.val
                  [] e.type = "AND" -> x \cap e.val
                  [] e.type = "OR"  -> x \cup e.val
=============================================================================

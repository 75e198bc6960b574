------------------------------- MODULE Ledger -------------------------------
(***************************************************************************)
(* What BlockStorager promises its callers: a chain of blocks together     *)
(* with a world state.  A block is appended whole or not at all, only the  *)
(* last block can be taken off, and taking it off gives back the world     *)
(* state the block found.  There are no files, indexes or crashes here.    *)
(***************************************************************************)
EXTENDS Integers, Sequences

CONSTANTS Hashes,       \* block hashes
          LedgerStates  \* world states

VARIABLES chain,        \* the blocks, each with the state it was applied to
          state         \* the current world state

lvars == <<chain, state>>

Entries == [hash : Hashes, before : LedgerStates]

LedgerInit == chain = <<>> /\ state \in LedgerStates

AppendBlock(h) ==
    /\ chain' = Append(chain, [hash |-> h, before |-> state])
    /\ state' \in LedgerStates

DropBlock ==
    /\ chain # <<>>
    /\ chain' = SubSeq(chain, 1, Len(chain) - 1)
    /\ state' = chain[Len(chain)].before

LedgerNext == (\E h \in Hashes : AppendBlock(h)) \/ DropBlock

LedgerSpec == LedgerInit /\ [][LedgerNext]_lvars

=============================================================================

-------------------------------- MODULE Memory --------------------------------
(***************************************************************************)
(* The size classes of src/memory.c: procmemlen, the block length of each *)
(* index, ending in 0, and find_mem_index, which build_process uses to     *)
(* pick the class of a process record with its stack.  Sequences here are *)
(* 1-based: the code's index i is position i + 1.                         *)
(***************************************************************************)
EXTENDS Integers, Sequences

\* procmemlen[]: the length in bytes of the blocks of each index
procmemlen == << 18, 32, 48, 96, 128, 192, 256, 384, 512, 768, 1024, 1536,
                2048, 3072, 4096, 6144, 8192, 10240, 12288, 16384, 24576, 0 >>

\* the index plotz("No memory block large enough") stands for: no return
NoFit == -1

\* Mutant: the loop stops at the first length strictly above size.
RECURSIVE MemIndexGtFrom(_, _)
MemIndexGtFrom(i, size) ==
  IF procmemlen[i + 1] = 0 \/ procmemlen[i + 1] > size THEN i
  ELSE MemIndexGtFrom(i + 1, size)

FindMemIndexGtMutant(size) ==
  LET i == MemIndexGtFrom(0, size) IN IF procmemlen[i + 1] # 0 THEN i ELSE NoFit

\* for (i = 0; procmemlen[i]; i++) if (procmemlen[i] >= size) break;
RECURSIVE MemIndexFrom(_, _)
MemIndexFrom(i, size) ==
  IF procmemlen[i + 1] = 0 \/ procmemlen[i + 1] >= size THEN i
  ELSE MemIndexFrom(i + 1, size)

\* find_mem_index(size): the index the loop stops at, or plotz at the 0
find_mem_index(size) ==
  LET i == MemIndexFrom(0, size) IN IF procmemlen[i + 1] # 0 THEN i ELSE NoFit

=============================================================================

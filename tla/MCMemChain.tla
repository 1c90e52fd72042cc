----------------------------- MODULE MCMemChain ------------------------------
(***************************************************************************)
(* Small instance of MemChain: a process of two threads, which may map two *)
(* files, and two other processes with one of nine recordings each.        *)
(***************************************************************************)
EXTENDS MemChain

MCThreads == {"t1", "t2"}
MCFuncs == [t \in MCThreads |-> IF t = "t1" THEN {"f"} ELSE {"g"}]
MCClients == {3, 4}

MCLinks == Files \cup MCClients

\* A pointer, the address it was computed from, instructions and sizes.
MCAccesses == {[kind |-> "mini_store_mem", access |-> <<1, 4, 8>>],
               [kind |-> "mini_load_mem", access |-> <<1, 5, 8>>],
               [kind |-> "store_mem", access |-> <<1, 2, 4, 6>>],
               [kind |-> "load_mem", access |-> <<1, 2, 5, 7>>]}

Calls(seq, kinds) ==
  [call_seq |-> seq,
   mem |-> [k \in Kinds |-> IF k \in DOMAIN kinds THEN kinds[k] ELSE [i \in DOMAIN seq |-> << >>]]]

\* A store and loads of two sizes; an address without access.
MCStores ==
  Calls(<<"h", "g">>, [mini_store_mem |-> << << <<1, 4, 8>> >>, << >> >>,
                       mini_load_mem |-> << << >>, << <<1, 6, 4>>, <<1, 5, 8>> >> >>])
MCGeps ==
  Calls(<<"f", "h", "g">>, [store_mem |-> << << <<1, 2, 4, 6>> >>, << <<2, 2, 4, 6>> >>, << >> >>,
                            gep_mem |-> << << >>, << <<2, 7>> >>, << <<2, 8>>, <<2, 9>> >> >>])

MCImages == {
  MCStores, MCGeps,
  NoDep, EmptyDep,
  \* one call; two of them, cut off before the lists of loads and stores
  Calls(<<"g">>, << >>),
  [Calls(<<"g", "h">>, << >>) EXCEPT !.mem = [k \in Kinds |-> << >>]],
  \* cut off behind the list of loads
  [Calls(<<"g", "f">>, [load_mem |-> << << <<1, 2, 5, 7>> >>, << >> >>])
     EXCEPT !.mem = [k \in Kinds |-> IF k = "load_mem" THEN @[k] ELSE << >>]],
  \* two stores and a load
  Calls(<<"f", "g", "f">>, [mini_store_mem |-> << << <<1, 4, 8>>, <<1, 7, 4>> >>, << >>, << <<2, 9, 8>> >> >>,
                            mini_load_mem |-> << << <<2, 8, 8>> >>, << <<1, 5, 4>> >>, << <<1, 5, 8>> >> >>]),
  \* the same pointer through two addresses; a load before the store
  Calls(<<"f", "g">>, [store_mem |-> << << <<1, 3, 4, 6>>, <<1, 2, 8, 9>> >>, << <<3, 3, 8, 9>> >> >>,
                       load_mem |-> << << <<3, 3, 5, 7>> >>, << <<1, 2, 5, 7>>, <<1, 2, 6, 7>> >> >>])}

MCFew == {MCStores, MCGeps}

MCServers == {"metrics", "analyzer"}
MCScenarios ==
  {[servers |-> {"analyzer"}, threads |-> MCThreads, pushes |-> 2, clients |-> {}, images |-> {<< >>}],
   [servers |-> {"metrics"}, threads |-> {"t1"}, pushes |-> 1, clients |-> {3}, images |-> [{3} -> {MCStores}]],
   [servers |-> MCServers, threads |-> {}, pushes |-> 0, clients |-> {3, 4},
    images |-> {h \in [{3, 4} -> MCImages] : h[4] \in MCFew}]}
=============================================================================

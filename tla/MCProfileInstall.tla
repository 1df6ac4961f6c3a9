-------------------------- MODULE MCProfileInstall --------------------------
(***************************************************************************)
(* Values for ProfileInstall: words of 4 bits, three system calls, paths   *)
(* of up to two segments.                                                  *)
(***************************************************************************)
EXTENDS ProfileInstall, TLC

(* The order of the numbers is not the order of the names.                 *)
MCSystemCalls == <<2, 0, 3>>

-----------------------------------------------------------------------------
(* Policies.                                                               *)

Compare(index, operator, value) ==
    [index |-> index, operator |-> operator, value |-> value, mask |-> <<0, 0>>]

Masked(index, value, mask) ==
    [index |-> index, operator |-> "masked-equal", value |-> value, mask |-> mask]

Allow(names, arguments) == [names |-> names, arguments |-> arguments]

Operators == <<"equal", "not-equal", "less-than", "less-or-equal", "greater-than", "greater-or-equal">>

Values == <<<<0, 0>>, <<1, 1>>, <<15, 15>>>>

(* Every element of one list with every element of another.                *)
Pairs(left, right) ==
    [n \in 1..(Len(left) * Len(right)) |->
        <<left[(n - 1) \div Len(right) + 1], right[((n - 1) % Len(right)) + 1]>>]

MapList(Op(_), list) == [n \in DOMAIN list |-> Op(list[n])]

(* Six policies of three rules: every operator with every value.           *)
ComparisonPolicies ==
    [n \in 1..6 |->
        [rule \in 1..3 |->
            Allow(<<rule>>, <<Compare(0, Operators[((n + 2 * rule) % 6) + 1], Values[rule])>>)]]

OpenPolicy == <<Allow(<<1, 2>>, <<>>)>>

OtherPolicies ==
    <<<<>>,
     <<Allow(<<1, 3>>, <<Compare(0, "less-than", <<1, 1>>), Compare(1, "not-equal", <<0, 1>>)>>),
       Allow(<<>>, <<>>)>>,
     <<Allow(<<1>>, <<Compare(0, "less-or-equal", <<1, 0>>), Compare(1, "greater-than", <<0, 1>>)>>),
       Allow(<<2, 3>>, <<Masked(1, <<1, 1>>, <<3, 1>>)>>)>>,
     <<Allow(<<1>>, <<Masked(0, <<1, 0>>, <<1, 0>>)>>), Allow(<<3>>, <<>>)>>,
     <<Allow(<<1>>, <<Masked(0, <<2, 0>>, <<1, 0>>)>>)>>,
     <<Allow(<<1>>, <<Compare(0, "equal", <<0, 0>>)>>), Allow(<<1, 2>>, <<Compare(0, "equal", <<1, 1>>)>>)>>,
     <<Allow(<<2>>, <<>>), Allow(<<1>>, <<>>)>>,
     <<Allow(<<1, 2, 3>>, <<Compare(0, "less-than", <<1, 1>>), Compare(1, "less-than", <<1, 1>>),
                            Compare(2, "less-than", <<1, 1>>), Compare(5, "less-than", <<1, 1>>)>>)>>>>

SomeWords == {0, 1, 2, 15}

MCCalls ==
    {[nr |-> nr, arch |-> arch, arguments |-> <<first, second, <<0, 0>>, <<0, 0>>, <<0, 0>>, <<0, 0>>>>] :
        nr \in {0, 1, 2, 3, 4, 6}, arch \in {1, 2}, first \in SomeWords \X SomeWords,
        second \in {<<0, 1>>, <<1, 1>>, <<3, 0>>}}

-----------------------------------------------------------------------------
(* Root filesystems.                                                       *)

Entry(name, type, target) == [name |-> name, type |-> type, target |-> target]

Entries ==
    <<Entry(<<1>>, "executable", <<>>), Entry(<<1, 2>>, "executable", <<>>),
     Entry(<<2, 1>>, "executable", <<>>), Entry(<<2>>, "file", <<>>),
     Entry(<<9, 1>>, "file", <<>>), Entry(<<1>>, "directory", <<>>), Entry(<<2>>, "other", <<>>),
     Entry(<<2>>, "link", <<1>>), Entry(<<1>>, "link", <<2>>),
     Entry(<<2>>, "link", <<1, 2>>), Entry(<<1, 2>>, "link", <<Up, 2, 1>>),
     Entry(<<2>>, "link", <<Up, 1>>), Entry(<<2>>, "link", <<3, Up, 1>>)>>

Indices == [n \in DOMAIN Entries |-> n]

(* Every one of the entries, and every two.                                *)
Archives ==
    MapList(LAMBDA e : <<e>>, Entries)
    \o MapList(LAMBDA p : <<Entries[p[1]], Entries[p[2]]>>,
               SelectSeq(Pairs(Indices, Indices), LAMBDA p : p[1] < p[2]))

Input(items) ==
    [genuine |-> TRUE, items |-> items, archivePrefix |-> <<>>, destination |-> <<>>,
     include |-> {}, exclude |-> {}]

Lock(entrypoint, inputs) == [entrypoint |-> entrypoint, inputs |-> inputs]

Locks ==
    MapList(LAMBDA p : Lock(p[1], <<Input(p[2])>>), Pairs(<<<<1>>, <<2>>, <<1, 2>>>>, Archives))

(* Two inputs, one of them mapped; their entries may meet at one name.     *)
Python ==
    <<Entry(<<>>, "directory", <<>>), Entry(<<5, 1>>, "executable", <<>>),
      Entry(<<5, 2>>, "file", <<>>), Entry(<<6>>, "file", <<>>)>>

Overlay(items, include, exclude) ==
    [Input(items) EXCEPT !.archivePrefix = <<5>>, !.destination = <<2>>,
                         !.include = include, !.exclude = exclude]

Others == <<Entry(<<2, 2>>, "file", <<>>), Entry(<<1>>, "link", <<2, 1>>)>>

MappedLocks ==
    MapList(LAMBDA p : Lock(<<2, 1>>, <<Overlay(Python, p[1][1], p[1][2]), Input(<<p[2]>>)>>),
            Pairs(Pairs(<<{}, {<<1>>}>>, <<{}, {<<2>>}>>), Others))
    \o <<Lock(<<1>>, <<[Input(<<Entry(<<1>>, "executable", <<>>)>>) EXCEPT !.genuine = FALSE]>>),
         Lock(<<1>>, <<Input(<<Entry(<<1>>, "executable", <<>>), Entry(<<Up, 2>>, "file", <<>>)>>)>>)>>

Good == Lock(<<1>>, <<Input(<<Entry(<<1>>, "executable", <<>>)>>)>>)

-----------------------------------------------------------------------------
ByOurBuild(lock, policy) == [origin |-> "build", lock |-> lock, policy |-> policy]

MadeElsewhere(archive, policy) ==
    [origin |-> "elsewhere", bundle |-> [archive |-> archive, entrypoint |-> <<1>>, policy |-> policy]]

MCTampered == [archive |-> <<Entry(<<1>>, "executable", <<>>)>>, entrypoint |-> <<1>>, policy |-> OpenPolicy]

(* Archives that Build would not write: out of order, a parent that is no  *)
(* directory, a link that leaves the root; and policies it would refuse.   *)
ForeignArchives ==
    <<<<Entry(<<2>>, "file", <<>>), Entry(<<1>>, "executable", <<>>)>>,
      <<Entry(<<1>>, "executable", <<>>), Entry(<<1, 2>>, "file", <<>>)>>,
      <<Entry(<<1>>, "link", <<Up, 1>>)>>,
      <<Entry(<<1>>, "link", <<2>>), Entry(<<2>>, "link", <<1>>)>>,
      <<Entry(<<1>>, "link", <<2, 1>>), Entry(<<2>>, "link", <<3>>), Entry(<<3, 1>>, "executable", <<>>)>>>>

MCSources ==
    MapList(LAMBDA policy : ByOurBuild(Good, policy), ComparisonPolicies \o OtherPolicies)
    \o MapList(LAMBDA lock : ByOurBuild(lock, OpenPolicy), Locks \o MappedLocks)
    \o MapList(LAMBDA archive : MadeElsewhere(archive, OpenPolicy), ForeignArchives)
    \o MapList(LAMBDA policy : MadeElsewhere(MCTampered.archive, policy), OtherPolicies)

InstallerSymmetry == Permutations(Installers)
=============================================================================

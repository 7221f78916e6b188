---------------------------- MODULE DesiredAccess ---------------------------
(***************************************************************************)
(* How the access an open call asks for is shown (nt.cpp).  A mask is the  *)
(* set of its bits.  Each Get...DesiredAccessString tests its names in     *)
(* order, clears the bits of the ones it shows, and leaves the rest to     *)
(* GetCommonDesiredAccess.  The text is the sequence of its names.         *)
(***************************************************************************)
EXTENDS Naturals, Sequences, FiniteSets, SequencesExt

StandardRightsRequired == 16..19
StandardRightsAll == 16..20

\* The rights every object has, in the order they are tested.
CommonRights ==
    <<[name |-> "STANDARD_RIGHTS_ALL", bits |-> StandardRightsAll],
      [name |-> "GENERIC_READ", bits |-> {31}], [name |-> "GENERIC_WRITE", bits |-> {30}],
      [name |-> "GENERIC_EXECUTE", bits |-> {29}],
      [name |-> "STANDARD_RIGHTS_REQUIRED", bits |-> StandardRightsRequired],
      [name |-> "MAXIMUM_ALLOWED", bits |-> {25}],
      [name |-> "DELETE", bits |-> {16}], [name |-> "READ_CONTROL", bits |-> {17}],
      [name |-> "WRITE_DAC", bits |-> {18}], [name |-> "WRITE_OWNER", bits |-> {19}],
      [name |-> "SYNCHRONIZE", bits |-> {20}]>>

\* Names of one bit each: the first has bit order[1], and so on.
Singles(names, order) ==
    [i \in DOMAIN names |-> [name |-> names[i], bits |-> {order[i]}]]

Upto(n) == [i \in 1..(n + 1) |-> i - 1]

FileRights == Singles(
    <<"FILE_READ_DATA", "FILE_READ_ATTRIBUTES", "FILE_READ_EA", "FILE_WRITE_DATA",
      "FILE_WRITE_ATTRIBUTES", "FILE_WRITE_EA", "FILE_APPEND_DATA", "FILE_EXECUTE">>,
    <<0, 7, 3, 1, 8, 4, 2, 5>>)

ProcessRights == Singles(
    <<"PROCESS_TERMINATE", "PROCESS_CREATE_THREAD", "PROCESS_SET_SESSIONID",
      "PROCESS_VM_OPERATION", "PROCESS_VM_READ", "PROCESS_VM_WRITE", "PROCESS_DUP_HANDLE",
      "PROCESS_CREATE_PROCESS", "PROCESS_SET_QUOTA", "PROCESS_SET_INFORMATION",
      "PROCESS_QUERY_INFORMATION", "PROCESS_SUSPEND_RESUME",
      "PROCESS_QUERY_LIMITED_INFORMATION", "PROCESS_SET_LIMITED_INFORMATION">>,
    Upto(13))

ThreadRights == Singles(
    <<"THREAD_TERMINATE", "THREAD_SUSPEND_RESUME", "THREAD_GET_CONTEXT", "THREAD_SET_CONTEXT",
      "THREAD_QUERY_INFORMATION", "THREAD_SET_INFORMATION", "THREAD_SET_THREAD_TOKEN",
      "THREAD_IMPERSONATE", "THREAD_DIRECT_IMPERSONATION", "THREAD_SET_LIMITED_INFORMATION",
      "THREAD_QUERY_LIMITED_INFORMATION", "THREAD_RESUME">>,
    <<0, 1, 3, 4, 6, 5, 7, 8, 9, 10, 11, 12>>)

KeyRights == Singles(
    <<"KEY_QUERY_VALUE", "KEY_SET_VALUE", "KEY_CREATE_SUB_KEY", "KEY_ENUMERATE_SUB_KEYS",
      "KEY_CREATE_LINK", "KEY_NOTIFY">>,
    <<0, 1, 2, 3, 5, 4>>)

MutantRights == Singles(<<"MUTANT_QUERY_STATE">>, <<0>>)

DirectoryRights == Singles(
    <<"DIRECTORY_QUERY", "DIRECTORY_TRAVERSE", "DIRECTORY_CREATE_OBJECT",
      "DIRECTORY_CREATE_SUBDIRECTORY">>,
    Upto(3))

Whole(name, bits) == [name |-> name, bits |-> bits]

\* For each kind of object, the masks that have a name of their own and the
\* names of the single rights.
ObjectKinds ==
    [File |-> [whole |-> {}, rights |-> FileRights],
     Process |-> [whole |-> {Whole("PROCESS_ALL_ACCESS", 0..20)}, rights |-> ProcessRights],
     Thread |-> [whole |-> {Whole("THREAD_ALL_ACCESS", 0..20)}, rights |-> ThreadRights],
     Key |-> [whole |-> {Whole("KEY_READ", {17, 0, 3, 4}), Whole("KEY_WRITE", {17, 1, 2}),
                         Whole("KEY_ALL_ACCESS", StandardRightsRequired \cup 0..5)},
              rights |-> KeyRights],
     Mutant |-> [whole |-> {Whole("MUTANT_ALL_ACCESS", StandardRightsAll \cup {0})},
                 rights |-> MutantRights],
     Directory |-> [whole |-> {Whole("DIRECTORY_ALL_ACCESS", StandardRightsRequired \cup 0..3)},
                    rights |-> DirectoryRights]]

-----------------------------------------------------------------------------

\* One test of a chain: a right any bit of which is left is shown, and all its
\* bits are cleared.
Show(acc, right) ==
    IF acc.left \cap right.bits = {} THEN acc
    ELSE [left |-> acc.left \ right.bits, names |-> Append(acc.names, right.name)]

ShowAll(acc, rights) ==
    LET shown[i \in 0..Len(rights)] ==
          IF i = 0 THEN acc ELSE Show(shown[i - 1], rights[i])
    IN shown[Len(rights)]

Named(names) == [names |-> names, unknown |-> {}]

\* Mutant: the bits without a name are left out of the text.
Mutant_CommonText(acc) ==
    Named(ShowAll(acc, CommonRights).names)

\* GetCommonDesiredAccess: when bits are left, they replace all names.
CommonText(acc) ==
    LET shown == ShowAll(acc, CommonRights) IN
      IF shown.left = {} THEN Named(shown.names)
      ELSE [names |-> <<>>, unknown |-> shown.left]

\* The text of a mask; a whole mask is tested for equality, and comes first.
DesiredAccessString(k, bits) ==
    IF \E w \in ObjectKinds[k].whole : w.bits = bits
    THEN Named(<<(CHOOSE w \in ObjectKinds[k].whole : w.bits = bits).name>>)
    ELSE CommonText(ShowAll([left |-> bits, names |-> <<>>], ObjectKinds[k].rights))
=============================================================================

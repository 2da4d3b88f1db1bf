------------------------------- MODULE GattTable -------------------------------
(***************************************************************************)
(* The attribute table of ble_demo/b91_gatt_sample/app_att.c and what a    *)
(* central finds when it walks it: primary services by their group ends,   *)
(* then the characteristics and descriptors of each service, then reads by *)
(* the handles it was told.  The ATT server that answers is in the SDK and *)
(* modelled from how the table feeds it: entry h is the attribute with     *)
(* handle h, and attNum of a service declaration is the size of its group. *)
(* The module has actions and no specification of its own: BleDevice lets  *)
(* the main loop of the sample take them.                                  *)
(***************************************************************************)
EXTENDS Naturals, Sequences

VARIABLES
  groups,    \* the services found: {[first, last, uuid]}
  next,      \* the handle from which services are looked for
  chars,     \* characteristics of the service looked at: {[value, uuid, props]}
  values     \* the last value read of them: {[uuid, type]}, as declared and as found

gattVars == <<groups, next, chars, values>>

-----------------------------------------------------------------------------
(* ATT_HANDLE: the handles by name.  Mutant: the value of a characteristic *)
(* has no handle.                                                          *)
GapNames ==
  <<"GAP_PS", "DeviceName_CD", "DeviceName_DP", "Appearance_CD", "Appearance_DP",
    "ConnParam_CD", "ConnParam_DP">>
GattNames ==
  <<"GATT_PS", "ServiceChanged_CD", "ServiceChanged_DP", "ServiceChanged_CCB">>
ValueLeftOut ==
  SubSeq(GapNames, 1, 6) \o GattNames \o <<"DIS_PS", "PnpID_CD", "PnpID_DP", "ConnParam_DP">>
Handles == GapNames \o GattNames \o <<"DIS_PS", "PnpID_CD", "PnpID_DP">>
HandleOf(name) == CHOOSE h \in 1..Len(Handles) : Handles[h] = name
ATT_END_H == Len(Handles) + 1

(* The values of the characteristic declarations: properties, handle and   *)
(* UUID of the value.                                                      *)
Declares(props, name, uuid) == [props |-> props, value |-> HandleOf(name), uuid |-> uuid]

(* A row of gattTable: size of the group, type UUID, value.                *)
(* Mutant: the size of a group, written by hand, is one too small.         *)
OneShort(size, uuid) ==
  [attNum |-> size - 1, type |-> "2800", val |-> uuid]
Service(size, uuid) == [attNum |-> size, type |-> "2800", val |-> uuid]
Char(props, name, uuid) ==
  [attNum |-> 0, type |-> "2803", val |-> Declares(props, name, uuid)]
Value(type) == [attNum |-> 0, type |-> type, val |-> "value"]
Config == [attNum |-> 0, type |-> "2902", val |-> "serviceChangeCCC"]

(* gattTable without its first entry, which is the number of the others. *)
gattTable ==
  << Service(7, "1800"),
     Char({"read", "notify"}, "DeviceName_DP", "2A00"), Value("2A00"),
     Char({"read"}, "Appearance_DP", "2A01"), Value("2A01"),
     Char({"read"}, "ConnParam_DP", "2A04"), Value("2A04"),
     Service(4, "1801"),
     Char({"indicate"}, "ServiceChanged_DP", "2A05"), Value("2A05"), Config,
     Service(3, "180A"),
     Char({"read"}, "PnpID_DP", "2A50"), Value("2A50") >>
AttNum == ATT_END_H - 1

GattInit ==
  /\ groups = {} /\ next = 1 /\ chars = {} /\ values = {}

-----------------------------------------------------------------------------
(* Read By Group Type: the first service at or after handle next. *)
FindService ==
  /\ next <= AttNum
  /\ LET found == {h \in next..AttNum : gattTable[h].type = "2800"}
     IN  IF found = {} THEN next' = AttNum + 1 /\ UNCHANGED groups
         ELSE LET h == CHOOSE k \in found : \A j \in found : k <= j
                  last == h + gattTable[h].attNum - 1
              IN  /\ groups' = groups \cup {[first |-> h, last |-> last, uuid |-> gattTable[h].val]}
                  /\ next' = last + 1
  /\ UNCHANGED <<chars, values>>

(* Read By Type in the range of a service that was found. *)
FindCharacteristics ==
  /\ \E g \in groups :
       chars' = {gattTable[h].val : h \in {k \in g.first..g.last : gattTable[k].type = "2803"}}
  /\ values' = {}
  /\ UNCHANGED <<groups, next>>

(* Read of a characteristic the central has found, by the handle it found. *)
ReadValue ==
  /\ \E c \in chars :
       values' = {[uuid |-> c.uuid, type |-> gattTable[c.value].type]}
  /\ UNCHANGED <<groups, next, chars>>

(* The link is lost: the central begins anew. *)
Forget == groups' = {} /\ next' = 1 /\ chars' = {} /\ values' = {}

(* The server answers a request; what finds nothing is answered by an error. *)
Answer ==
  \/ FindService \/ FindCharacteristics \/ ReadValue
  \/ UNCHANGED gattVars

-----------------------------------------------------------------------------
(* The discovery ends with the whole table covered by services that do not *)
(* overlap: the group sizes, written by hand, agree with the rows and with *)
(* the total.                                                              *)
ServicesTile ==
  /\ AttNum = Len(gattTable)
  /\ next > AttNum =>
       \A h \in 1..AttNum : \E g \in groups : h \in g.first..g.last
  /\ \A g \in groups : \A h \in g.first..g.last :
       gattTable[h].type = "2800" <=> h = g.first

(* A value read by the handle its declaration names has the declared type. *)
ReadsWhatWasDeclared == \A v \in values : v.uuid = v.type
=============================================================================

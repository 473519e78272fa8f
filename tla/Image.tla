-------------------------------- MODULE Image -------------------------------
(***************************************************************************)
(* A module on its way from a wasm file to a machine that can call its     *)
(* imports: wasm_to_uwasm declares imports, globals, data and functions    *)
(* with a U_ENCODER and writes the tables as the sections of a .uwm file;  *)
(* u_slink may add native code to the file; U_MODULE reads it back and     *)
(* U_RUNTIME resolves the imports.                                         *)
(*                                                                         *)
(* Names and strings are short sequences of bytes, because the tables are  *)
(* indexed by entry in one place and by byte in another; an instruction is *)
(* one word or two, tagged with the function it belongs to.  A file maps   *)
(* the offset of a section to what was written there.                      *)
(***************************************************************************)
EXTENDS StrTab, SequencesExt, FiniteSetsExt

CONSTANTS
  Names,        \* names of functions, with the final null
  GlobalNames,  \* names of globals, with the final null
  Main,         \* the name "main"
  SysNames,     \* the names U_RUNTIME implements
  Decls,        \* functions, <<name, <<results, parameters>>>>; value types are 0 .. 3
  LabelNames,   \* names of labels, with the final null
  Inits,        \* initial values of globals
  DataSizes,    \* numbers of bytes of data segments
  DataHeader,   \* size of an empty data section
  Word,         \* number of values of an UINT32
  Objects,      \* the names a shared object may define
  Builds,       \* "debug" defines SKIP_EXTERNAL_FUNCTION, "release" does not
  MaxImports, MaxGlobals, MaxFuncs, MaxLabels, MaxInsts, MaxLinks, MaxModules,
  Unusual       \* the unusual cases that may occur, see Usual

VARIABLES
  build,   \* how the machine that loads was built
  phase,   \* where the converter is; "aborted" after a failed Is_True
  wasm,    \* the module being converted
  enc,     \* the U_ENCODER
  disk,    \* the files written, each with the module it was made from
  loaded,  \* the file loaded last, 0 if none
  um,      \* the U_MODULE of the machine
  infos    \* _func_infos of U_RUNTIME, and whether it was written out of bounds

vars == <<build, phase, wasm, enc, disk, loaded, um, infos>>

Classes == {"dupname", "importglobal", "wideglobal", "manyrets", "manyimports", "bigdata",
            "importmain", "relink", "buffer", "reload"}

ASSUME ImageAssumption ==
  /\ Main \in Names /\ SysNames \subseteq Names
  /\ \A s \in Names \cup GlobalNames \cup LabelNames :
       s \in Seq(0 .. 255) \ {<< >>} /\ \A k \in DOMAIN s : (s[k] = 0) <=> (k = Len(s))
  /\ \A d \in Decls : d[1] \in Names /\ d[2] \in Seq(0 .. 3) \X Seq(0 .. 3)
  /\ Objects \subseteq SUBSET Names
  /\ Builds \subseteq {"debug", "release"} /\ Unusual \subseteq Classes

UINT16 == 2 ^ 16
None == -1

-----------------------------------------------------------------------------
(* Types.  Up to 13 results and parameters are packed into the type, more  *)
(* go into the table of non-null strings after their number.               *)

MAX_TYPE_ELEM_RANGE == 26
MAX_TYPE_ELEM_NUM == 14

UBH_TYPE(ret, param, elem) ==
  [ret |-> ret % 4, param |-> param % 16, elem |-> elem % 2 ^ MAX_TYPE_ELEM_RANGE]

\* The two bits of the j-th value type, counted from 0, from the top of a field.
\* Mutant: the lowest bits come first.
Field_low(v, width, j) == (v \div 4 ^ j) % 4
Field(v, width, j) == (v \div 2 ^ (width - (j + 1) * 2)) % 4

Packed(tys, width) == MapThenSumSet(LAMBDA k : tys[k] * 2 ^ (width - 2 * k), DOMAIN tys)

Type_to_number(rets, params) == Packed(rets \o params, MAX_TYPE_ELEM_RANGE)

TypeString(rets, params) ==
  LET tys == rets \o params
      byte(b) == Packed(SubSeq(tys, 4 * b - 3, IF 4 * b < Len(tys) THEN 4 * b ELSE Len(tys)), 8)
  IN <<Len(params) % 256, Len(params) \div 256>> \o [b \in 1 .. (Len(tys) + 3) \div 4 |-> byte(b)]

StoredLocal(rets, params) == Len(rets) + Len(params) < MAX_TYPE_ELEM_NUM

\* The non-null strings and the type that Add_type looks for.
TypeStrings(e, rets, params) ==
  IF StoredLocal(rets, params) THEN e.nn ELSE Requested(e.nn, TypeString(rets, params))

TypeOf(e, rets, params) ==
  IF StoredLocal(rets, params)
  THEN UBH_TYPE(Len(rets), Len(params), Type_to_number(rets, params))
  ELSE LET s == TypeString(rets, params)
       IN UBH_TYPE(Len(rets), 255, Get_off(Requested(e.nn, s), RequestIdx(e.nn, s)))

Add_type(e, rets, params) ==
  LET type == TypeOf(e, rets, params)
  IN [e EXCEPT !.nn = TypeStrings(e, rets, params),
               !.types = IF type \in Range(@) THEN @ ELSE Append(@, type)]

\* The index it returns, in the table it leaves.
Type_idx(e, rets, params) == SelectInSeq(e.types, LAMBDA t : t = TypeOf(e, rets, params)) - 1

-----------------------------------------------------------------------------
(* Functions and code.                                                     *)

Contained(e, name) == Contains_str(e.mod, name)

\* The functions whose name index is the index of name.
Named(e, name) == {i \in DOMAIN e.funcs : e.funcs[i].name = Get_idx(e.mod, name)}

\* Is_True: the function of a name the table contains is found.
Request_fails(e, name) == Contained(e, name) /\ Named(e, name) = {}

Inner_request_func(e, name, type, extern) ==
  IF Contained(e, name) THEN e
  ELSE LET mod == Add(e.mod, name)
       IN [e EXCEPT !.mod = mod,
                    !.funcs = Append(@, [type |-> type,
                                         name |-> Get_off(mod, Len(e.mod.vec)) % UINT16,
                                         extern |-> extern, code |-> 0])]

\* The function index, from 0, in the table that Inner_request_func leaves.
Func_idx(e, new, name) == IF Contained(e, name) THEN Min(Named(e, name)) - 1 ELSE Len(new.funcs) - 1

NTYPE == <<6, 8, 9, 10>>
Ntypes(tys) == [k \in DOMAIN tys |-> NTYPE[tys[k] + 1]]

\* A result comes first; a function without results has none.
Ntype_string(rets, params) == Ntypes(rets) \o Ntypes(params)

Request_native_func(e, name, type, rets, params) ==
  LET new == Inner_request_func(e, name, type, TRUE)
      s == Ntype_string(rets, params)
      nn == Requested(new.nn, s)
  IN IF Contained(e, name) THEN new
     ELSE [new EXCEPT !.nn = nn,
                      !.imps = Append(@, [func |-> Len(new.funcs) - 1, nat |-> << >>,
                                          ntype |-> Get_off(nn, RequestIdx(new.nn, s))])]

Body == [insts |-> << >>, labs |-> << >>, names |-> Empty]

Start_func(e, idx) ==
  [e EXCEPT !.code = Append(@, Body), !.funcs[idx + 1].code = Len(e.code)]

\* U_ENCODER::Get_inst_encoder: the code body of a function, found by its index.
Leading(e) == SelectInSeq(e.funcs, LAMBDA f : ~f.extern)
\* Mutant: imports are counted as if they had code.
Get_inst_encoder_all(e, idx) == idx + 1
Get_inst_encoder(e, idx) == idx - (Leading(e) - 1) + 1

\* Mutant: the name is stored and no place for its word.
Request_label_no_slot(b, l) ==
  IF Contains_str(b.names, l) THEN b ELSE [b EXCEPT !.names = Add(@, l)]

Request_label(b, l) ==
  IF Contains_str(b.names, l) THEN b
  ELSE [b EXCEPT !.names = Add(@, l), !.labs = Append(@, None)]

Set_label(b, l) ==
  LET c == Request_label(b, l)
  IN [c EXCEPT !.labs[Get_idx(c.names, l) + 1] = Len(c.insts)]

-----------------------------------------------------------------------------
(* Writing the file.                                                       *)

UBH_MHDR_SIZE == 12
UBH_SHDR_SIZE == 8
UBH_CODE_SIZE == 40
UBH_NAT_SIZE == 16
STR_TAB_ALIGN == 16
TextSize == 8   \* of a shared object, aligned

Entry_size(b) == UBH_CODE_SIZE + 4 * (Len(b.insts) + Len(b.labs))

Sum(f, n) == MapThenSumSet(LAMBDA k : f[k], 1 .. n)

\* Where the code bodies start in the code section; the last is its size.
Entry_off(code) ==
  [i \in 1 .. Len(code) + 1 |-> Sum([k \in DOMAIN code |-> Entry_size(code[k])], i - 1)]

\* U_CODE_BODY::Finish and Write_to_buf: what stands where in the code section.
Written(b, off) ==
  LET inst == off + UBH_CODE_SIZE
      lab == inst + 4 * Len(b.insts)
  IN {[at |-> off, what |-> "code",
       val |-> [size |-> Len(b.insts) % 2 ^ 20, labs |-> Len(b.labs) % 2 ^ 12,
                inst_off |-> inst, lab_off |-> lab]],
      [at |-> inst, what |-> "inst", val |-> b.insts],
      [at |-> lab, what |-> "lab", val |-> b.labs]}

Write_to_buf(code) == UNION {Written(code[i], Entry_off(code)[i]) : i \in DOMAIN code}

Finish(e) ==
  [e EXCEPT !.mod = Pad(@, STR_TAB_ALIGN), !.glb = Pad(@, STR_TAB_ALIGN),
            !.nn = Pad(@, STR_TAB_ALIGN)]

Section(id, num, size, val) == [id |-> id, num |-> num, size |-> size, val |-> val]

\* SEC_INFO_ARR; the converter exports nothing and imports only natives.
Sections(e) ==
  LET table(id, tab, size) == Section(id, Len(tab), size * Len(tab), tab)
  IN SelectSeq(<<table("type", e.types, 4),
                 table("imp_nat", e.imps, 12),
                 table("func", e.funcs, 8),
                 Section("code", Len(e.code), Entry_off(e.code)[Len(e.code) + 1], Write_to_buf(e.code)),
                 Section("data", e.data, e.data, e.data),
                 table("glbl", e.glbls, 16),
                 table("nn_str", e.nn.buf, 1),
                 table("module_name", e.mod.buf, 1),
                 table("glbl_name", e.glb.buf, 1)>>,
               LAMBDA s : s.num # 0)

Off(secs, k) == UBH_MHDR_SIZE + Sum([j \in DOMAIN secs |-> secs[j].size], k - 1)

Shdr(id, num, idx) == [id |-> id, num |-> num % UINT16, idx |-> idx]

\* The first function of that name starts the program.
Start_shdr(e) ==
  LET n == SelectInSeq(e.funcs, LAMBDA f : Cstr(e.mod.buf, f.name) = Main)
  IN IF n = 0 THEN << >> ELSE <<Shdr("start", 0, n - 1)>>

Collect_write_info(e) ==
  LET secs == Sections(e)
  IN [k \in DOMAIN secs |-> Shdr(secs[k].id, secs[k].num, Off(secs, k))] \o Start_shdr(e)

Write_section(e) ==
  LET secs == Sections(e)
  IN [o \in {Off(secs, k) : k \in DOMAIN secs} |->
        secs[CHOOSE k \in DOMAIN secs : Off(secs, k) = o].val]

Write_to_file(e) ==
  LET f == Finish(e)
  IN [shdr |-> Collect_write_info(f), at |-> Write_section(f),
      shdr_off |-> Off(Sections(f), Len(Sections(f)) + 1)]

-----------------------------------------------------------------------------
(* Reading it back.  A U_MODULE keeps, from one load to the next, which    *)
(* header a section has and where the section is.                          *)

Fresh == [shdr |-> << >>, map |-> << >>, ptr |-> << >>]

Have_sec(h) == h.id # "start"

Ids(file) == {h.id : h \in {x \in Range(file.shdr) : Have_sec(x)}}

\* The last of several headers of a section counts.
Header(file, id) == Max({k \in DOMAIN file.shdr : file.shdr[k].id = id})

Init_module_from_buffer(m, file) ==
  [shdr |-> file.shdr,
   map |-> [id \in Ids(file) |-> Header(file, id)] @@ m.map,
   ptr |-> [id \in Ids(file) |-> file.at[file.shdr[Header(file, id)].idx]] @@ m.ptr]

Contains_section(m, id) == id \in DOMAIN m.map
Elem_num(m, id) == m.shdr[m.map[id]].num

Module_name(m, i) == Cstr(m.ptr["module_name"], m.ptr["func"][i].name)

\* The result and parameter types of a type, Decode_type_and_cache.
Decoded(m, t) ==
  LET local == t.param # 15
      s == SubSeq(m.ptr["nn_str"], t.elem + 1, Len(m.ptr["nn_str"]))
      params == IF local THEN t.param ELSE (s[1] + 256 * s[2]) % 256
      valty(j) == IF local THEN Field(t.elem, MAX_TYPE_ELEM_RANGE, j)
                  ELSE Field(s[3 + j \div 4], 8, j % 4)
  IN <<[j \in 1 .. t.ret |-> valty(j - 1)], [j \in 1 .. params |-> valty(t.ret + j - 1)]>>

Signature(m, i) == Decoded(m, m.ptr["type"][m.ptr["func"][i].type + 1])

Piece(m, off, what) == (CHOOSE p \in m.ptr["code"] : p.at = off /\ p.what = what).val

\* Set_code_sec: where the code bodies start, each found by the sizes of the one before.
Code_at(m) ==
  LET at[i \in 1 .. Elem_num(m, "code")] ==
        IF i = 1 THEN 0
        ELSE LET c == Piece(m, at[i - 1], "code")
             IN at[i - 1] + UBH_CODE_SIZE + 4 * c.size + 4 * c.labs
  IN at

Code(m, i) == Piece(m, Code_at(m)[m.ptr["func"][i].code + 1], "code")

\* UWASM_SYSTEM::Search_start: the function index.
Search_start(m) ==
  LET start == SelectInSeq(m.shdr, LAMBDA h : h.id = "start")
  IN IF start # 0 THEN m.shdr[start].idx ELSE SelectInSeq(m.ptr["func"], LAMBDA f : ~f.extern) - 1

-----------------------------------------------------------------------------
(* The runtime.  A function is resolved to a system call, to native code   *)
(* in the file, or to nothing.                                             *)

\* Mutant: linked code goes before a system call.
Resolve_native_first(b, m, imp) ==
  IF imp.nat # << >> THEN <<"native", m.ptr["nat"], imp.nat>>
  ELSE IF Module_name(m, imp.func + 1) \in SysNames THEN <<"sys", Module_name(m, imp.func + 1)>>
  ELSE IF b = "release" THEN <<"trap">> ELSE << >>

Resolve(b, m, imp) ==
  LET name == Module_name(m, imp.func + 1)
  IN IF name \in SysNames THEN <<"sys", name>>
     ELSE IF imp.nat # << >> THEN <<"native", m.ptr["nat"], imp.nat>>
     ELSE IF b = "release" THEN <<"trap">> ELSE << >>

\* resize() keeps what is there.
Reserve_func_info(tab, n) == [k \in 1 .. n |-> IF k <= Len(tab) THEN tab[k] ELSE << >>]

\* The table is given the number of elements of section SEC_FUNC, which is the
\* number of S_DATA.
Init_cache(b, m, i) ==
  IF ~Contains_section(m, "imp_nat") THEN i
  ELSE LET imps == m.ptr["imp_nat"]
           tab == Reserve_func_info(i.tab, Elem_num(m, "data"))
           set(k) == {j \in 1 .. Elem_num(m, "imp_nat") :
                        imps[j].func + 1 = k /\ Resolve(b, m, imps[j]) # << >>}
       IN [tab |-> [k \in DOMAIN tab |->
                      IF set(k) = {} THEN tab[k] ELSE Resolve(b, m, imps[Max(set(k))])],
           wild |-> i.wild \/ \E j \in 1 .. Elem_num(m, "imp_nat") :
                                 imps[j].func >= Len(tab) /\ Resolve(b, m, imps[j]) # << >>]

\* What a call of external function f, from 1, does; << >> skips it.
Call_sys_call(f) ==
  IF f > Len(infos.tab) THEN IF build = "debug" THEN << >> ELSE <<"wild">>
  ELSE IF infos.tab[f] = << >> /\ build = "release" THEN <<"exit">> ELSE infos.tab[f]

SameBefore(tys, k) == Cardinality({j \in 1 .. k - 1 : tys[j] = tys[k]})

\* Ffi_call: the register, in the file of its type, that argument k is taken from.
Ffi_call(m, f, k) ==
  LET rets == Signature(m, f)[1]
      params == Signature(m, f)[2]
  IN SameBefore(params, k) + (IF rets # << >> /\ rets[1] = params[k] THEN 1 ELSE 0)

\* Conv_call: where the converter puts it, behind the return registers.
RET_REG_NUM == 1
Arg_reg(params, k) == RET_REG_NUM + SameBefore(params, k)

-----------------------------------------------------------------------------
(* The converter.  wasm records what it was given.                         *)

NewModule == [funcs |-> << >>, globals |-> << >>, data |-> 0, links |-> << >>]

NewEncoder ==
  LET tab == Add(Empty, <<0>>)
  IN [mod |-> tab, glb |-> tab, nn |-> tab, types |-> << >>, funcs |-> << >>, imps |-> << >>,
      code |-> << >>, glbls |-> << >>, data |-> 0]

Init ==
  /\ build = "none"
  /\ phase = "imports" /\ wasm = NewModule /\ enc = NewEncoder
  /\ disk = << >> /\ loaded = 0 /\ um = Fresh /\ infos = [tab |-> << >>, wild |-> FALSE]

machine == <<build, disk, loaded, um, infos>>

Abort == phase' = "aborted" /\ UNCHANGED <<wasm, enc>>

Imports == Cardinality({i \in DOMAIN wasm.funcs : wasm.funcs[i].imported})

\* A case the model leaves out unless its class is in Unusual.
Usual(class, holds) == holds => class \in Unusual

WasmFunc(imported, name, sg) ==
  [imported |-> imported, name |-> name, rets |-> sg[1], params |-> sg[2],
   insts |-> << >>, labels |-> << >>]

NewName(name) ==
  Usual("dupname", \E i \in DOMAIN wasm.funcs : wasm.funcs[i].name = name)

\* Process_wasm_imports, a function.
Import_func(name, sg) ==
  LET e == Add_type(enc, sg[1], sg[2])
  IN /\ phase = "imports" /\ Imports < MaxImports /\ NewName(name)
     /\ Len(sg[1]) <= 1
     /\ Usual("importmain", name = Main)
     /\ Usual("manyimports", Len(enc.funcs) >= DataHeader)
     /\ IF Request_fails(e, name) THEN Abort
        ELSE /\ enc' = Request_native_func(e, name, Type_idx(e, sg[1], sg[2]), sg[1], sg[2])
             /\ wasm' = [wasm EXCEPT !.funcs = Append(@, WasmFunc(TRUE, name, sg))]
             /\ UNCHANGED phase
     /\ UNCHANGED machine

\* Process_wasm_imports, a global: its id is the index of its name.
Import_global(name) ==
  LET glb == Requested(enc.glb, name)
      id == RequestIdx(enc.glb, name)
  IN /\ phase = "imports" /\ Len(wasm.globals) < MaxGlobals
     /\ IF id # Len(wasm.globals) + 1 THEN Abort
        ELSE /\ enc' = [enc EXCEPT !.glb = glb]
             /\ wasm' = [wasm EXCEPT !.globals = Append(@, [imported |-> TRUE, init |-> 0, id |-> id])]
             /\ UNCHANGED phase
     /\ UNCHANGED machine

\* Process_wasm_globals: one that is not imported.
Add_global(name, init) ==
  /\ phase \in {"imports", "globals"} /\ Len(wasm.globals) < MaxGlobals
  /\ Usual("wideglobal", init >= Word)
  /\ IF Contains_str(enc.glb, name) THEN Abort
     ELSE /\ enc' = [enc EXCEPT !.glb = Add(@, name), !.glbls = Append(@, init % Word)]
          /\ wasm' = [wasm EXCEPT !.globals = Append(@, [imported |-> FALSE, init |-> init, id |-> Len(enc.glbls)])]
          /\ phase' = "globals"
  /\ UNCHANGED machine

\* Process_wasm_static_data.
Static_data(n) ==
  /\ phase \in {"imports", "globals"}
  /\ Usual("bigdata", DataHeader + n >= UINT16)
  /\ enc' = [enc EXCEPT !.data = DataHeader + n]
  /\ wasm' = [wasm EXCEPT !.data = n]
  /\ phase' = "functions"
  /\ UNCHANGED machine

\* Create_ubh_code: the type, the function and its code body.
Create_ubh_code(name, sg) ==
  LET e == Add_type(enc, sg[1], sg[2])
      new == Inner_request_func(e, name, Type_idx(e, sg[1], sg[2]), FALSE)
  IN /\ phase = "functions" /\ Len(wasm.funcs) - Imports < MaxFuncs /\ NewName(name)
     /\ Usual("manyrets", Len(sg[1]) > 3)
     /\ IF Request_fails(e, name) THEN Abort
        ELSE /\ enc' = Start_func(new, Func_idx(e, new, name))
             /\ wasm' = [wasm EXCEPT !.funcs = Append(@, WasmFunc(FALSE, name, sg))]
             /\ phase' = "body"
     /\ UNCHANGED machine

Fn == Len(wasm.funcs)
Cur == Len(enc.code)   \* Cur_code_body

Add_inst(words) ==
  /\ phase = "body" /\ Len(wasm.funcs[Fn].insts) < MaxInsts
  /\ enc' = [enc EXCEPT !.code[Cur].insts = @ \o words]
  /\ wasm' = [wasm EXCEPT !.funcs[Fn].insts = @ \o words]
  /\ UNCHANGED <<phase, machine>>

\* The labels of the function in the order they were named, with the word each stands at.
Labels == wasm.funcs[Fn].labels

\* The bound MaxLabels is on all functions together.
LabelCount == MapThenSumSet(LAMBDA i : Len(wasm.funcs[i].labels), DOMAIN wasm.funcs)

Mentioned(l) == SelectInSeq(Labels, LAMBDA x : x.name = l)

With(l, at) ==
  IF Mentioned(l) # 0 THEN [Labels EXCEPT ![Mentioned(l)].at = at]
  ELSE Append(Labels, [name |-> l, at |-> at])

Request(l) ==
  /\ phase = "body" /\ (Mentioned(l) = 0 => LabelCount < MaxLabels)
  /\ enc' = [enc EXCEPT !.code[Cur] = Request_label(@, l)]
  /\ wasm' = IF Mentioned(l) # 0 THEN wasm ELSE [wasm EXCEPT !.funcs[Fn].labels = With(l, None)]
  /\ UNCHANGED <<phase, machine>>

\* A label is set once.
Add_label(l) ==
  /\ phase = "body"
  /\ IF Mentioned(l) # 0 THEN Labels[Mentioned(l)].at = None ELSE LabelCount < MaxLabels
  /\ enc' = [enc EXCEPT !.code[Cur] = Set_label(@, l)]
  /\ wasm' = [wasm EXCEPT !.funcs[Fn].labels = With(l, Len(wasm.funcs[Fn].insts))]
  /\ UNCHANGED <<phase, machine>>

\* The converter has set every label it requested and ends with a return.
End_func ==
  /\ phase = "body" /\ wasm.funcs[Fn].insts # << >>
  /\ \A l \in DOMAIN Labels : Labels[l].at # None
  /\ phase' = "functions"
  /\ UNCHANGED <<wasm, enc, machine>>

\* The process ends with the file; another may convert another module.
Write ==
  /\ phase = "functions" /\ Fn > Imports
  /\ Usual("importglobal", \E g \in DOMAIN wasm.globals : wasm.globals[g].imported)
  /\ disk' = Append(disk, [file |-> Write_to_file(enc), wasm |-> wasm])
  /\ phase' = IF Len(disk) + 1 < MaxModules THEN "imports" ELSE "written"
  /\ wasm' = NewModule /\ enc' = NewEncoder
  /\ UNCHANGED <<build, loaded, um, infos>>

-----------------------------------------------------------------------------
(* u_slink adds the text of a shared object, the k-th with number k, which *)
(* defines the functions names.  A symbol stands for its offset.           *)

Link(n, names) ==
  LET f == disk[n].file
      m == Init_module_from_buffer(Fresh, f)
      so == Len(disk[n].wasm.links) + 1
      cached == [nm \in {Module_name(m, i.func + 1) : i \in Range(m.ptr["imp_nat"])} |->
                   Max({j \in DOMAIN m.ptr["imp_nat"] : Module_name(m, m.ptr["imp_nat"][j].func + 1) = nm})]
      found == {cached[nm] : nm \in names \cap DOMAIN cached}
      natives == [j \in DOMAIN m.ptr["imp_nat"] |->
                    IF j \in found THEN [m.ptr["imp_nat"][j] EXCEPT !.nat = Module_name(m, m.ptr["imp_nat"][j].func + 1)]
                    ELSE m.ptr["imp_nat"][j]]
  IN /\ loaded = 0 /\ Contains_section(m, "imp_nat") /\ so <= MaxLinks
     /\ Usual("relink", so > 1)
     /\ disk' = [disk EXCEPT ![n] =
          [file |-> [shdr |-> Append(f.shdr, Shdr("nat", 1, f.shdr_off)),
                     at |-> (f.shdr_off :> so) @@ (f.shdr[m.map["imp_nat"]].idx :> natives) @@ f.at,
                     shdr_off |-> f.shdr_off + UBH_NAT_SIZE + TextSize],
           wasm |-> [@.wasm EXCEPT !.links = Append(@, names)]]]
     /\ UNCHANGED <<build, phase, wasm, enc, loaded, um, infos>>

-----------------------------------------------------------------------------
(* Load_from_file resolves the imports; UVM_load does not.                 *)

Load(b, n) ==
  /\ build' = b /\ build \in {"none", b}
  /\ um' = Init_module_from_buffer(um, disk[n].file)
  /\ loaded' = n
  /\ Usual("reload", loaded # 0)
  /\ UNCHANGED <<phase, wasm, enc, disk>>

Load_from_file(b, n) == Load(b, n) /\ infos' = Init_cache(b, um', infos)

UVM_load(b, n) ==
  /\ Usual("buffer", \E i \in DOMAIN disk[n].wasm.funcs : disk[n].wasm.funcs[i].imported)
  /\ Load(b, n) /\ UNCHANGED infos

Words(w) == IF w = 1 THEN <<<<Fn, "w32">>>> ELSE <<<<Fn, "w64">>, <<Fn, "data">>>>

Next ==
  \/ \E d \in Decls : Import_func(d[1], d[2]) \/ Create_ubh_code(d[1], d[2])
  \/ \E nm \in GlobalNames : Import_global(nm) \/ \E v \in Inits : Add_global(nm, v)
  \/ \E n \in DataSizes : Static_data(n)
  \/ \E w \in {1, 2} : Add_inst(Words(w))
  \/ \E l \in LabelNames : Request(l) \/ Add_label(l)
  \/ End_func
  \/ Write
  \/ \E n \in DOMAIN disk : (\E so \in Objects : Link(n, so))
                              \/ \E b \in Builds : Load_from_file(b, n) \/ UVM_load(b, n)

Spec == Init /\ [][Next]_vars

-----------------------------------------------------------------------------
Tabs == {enc.mod, enc.glb, enc.nn} \cup {enc.code[i].names : i \in DOMAIN enc.code}

\* The type invariant: entries fill their buffers, indices stay in their tables.
TypeOK ==
  /\ phase \in {"imports", "globals", "functions", "body", "written", "aborted"}
  /\ \A t \in Tabs :
       /\ \A i \in DOMAIN t.vec :
            t.vec[i].off = (IF i = 1 THEN 0 ELSE t.vec[i - 1].off + t.vec[i - 1].len)
       /\ t.buf \in Seq(0 .. 255) /\ Len(t.buf) <= t.cap
  /\ \A i \in DOMAIN enc.funcs :
       enc.funcs[i].type < Len(enc.types) /\ enc.funcs[i].name < Len(enc.mod.buf)
  /\ \A i \in DOMAIN enc.code : Len(enc.code[i].labs) = Len(enc.code[i].names.vec)
  /\ loaded \in 0 .. Len(disk) /\ (loaded = 0 => um = Fresh)

\* However often the buffer of a string table has moved, the cache holds only
\* pointers into the present one, and every string that was added is found at an
\* entry with the same contents (U_STR_TAB::Add, Get_idx): labels, types and
\* functions that are asked for again get the index they had.
TabsFind ==
  \A t \in Tabs :
    /\ \A k \in t.cache : k.base = t.base
    /\ \A i \in DOMAIN t.vec :
         LET s == Bytes(t, t.vec[i].off, t.vec[i].len)
             e == t.vec[Get_idx(t, s) + 1]
         IN Contains_str(t, s) /\ Bytes(t, e.off, e.len) = s

\* Conv_func_idx takes the index of a function of the wasm file for its index in
\* the encoder, and the converter reaches the code of a function both as the last
\* body and through Get_inst_encoder: both are right at every point of the conversion.
IndicesAgree ==
  phase # "aborted" =>
    /\ Len(enc.funcs) = Fn
    /\ \A i \in 1 .. Fn :
         LET w == wasm.funcs[i]
             f == enc.funcs[i]
         IN /\ Cstr(enc.mod.buf, f.name) = w.name /\ f.extern = w.imported
            /\ ~w.imported => /\ f.code + 1 = Get_inst_encoder(enc, i - 1)
                               /\ enc.code[f.code + 1].insts = w.insts
    /\ phase = "body" => Get_inst_encoder(enc, Fn - 1) = Cur

FirstWhere(w, Test(_)) == SelectInSeq(w.funcs, Test) - 1

StartOf(w) ==
  LET main(f) == ~f.imported /\ f.name = Main
  IN IF \E i \in DOMAIN w.funcs : main(w.funcs[i])
     THEN FirstWhere(w, main) ELSE FirstWhere(w, LAMBDA f : ~f.imported)

\* A module that was converted, written, perhaps linked, and loaded is the module of
\* the wasm file: its functions have their names, types, code and labels, its globals
\* their own cells and values, its data section its length, and it starts where it should.
LoadedAgrees ==
  loaded # 0 =>
    LET w == disk[loaded].wasm
    IN /\ Elem_num(um, "func") = Len(w.funcs) /\ Len(um.ptr["func"]) = Len(w.funcs)
       /\ \A i \in DOMAIN w.funcs :
            /\ Module_name(um, i) = w.funcs[i].name
            /\ Signature(um, i) = <<w.funcs[i].rets, w.funcs[i].params>>
            /\ um.ptr["func"][i].extern = w.funcs[i].imported
            /\ ~w.funcs[i].imported =>
                 LET c == Code(um, i)
                 IN /\ Piece(um, c.inst_off, "inst") = w.funcs[i].insts
                    /\ Piece(um, c.lab_off, "lab") =
                         [k \in DOMAIN w.funcs[i].labels |-> w.funcs[i].labels[k].at]
       /\ \A g \in DOMAIN w.globals :
            /\ Contains_section(um, "glbl") /\ w.globals[g].id < Elem_num(um, "glbl")
            /\ um.ptr["glbl"][w.globals[g].id + 1] = w.globals[g].init
            /\ \A h \in DOMAIN w.globals : w.globals[g].id = w.globals[h].id => g = h
       /\ Elem_num(um, "data") = DataHeader + w.data
       /\ Search_start(um) = StartOf(w)

\* A native function is given the arguments the converter put in registers for it.
\* No committed run checks this, see the known deviations: the two sides count
\* alike only for parameters of the result's type.
NativeArgs ==
  loaded # 0 =>
    LET w == disk[loaded].wasm
        native == {i \in DOMAIN w.funcs : /\ w.funcs[i].imported
                                          /\ Call_sys_call(i) # << >>
                                          /\ Call_sys_call(i)[1] = "native"}
    IN \A i \in native : \A k \in DOMAIN w.funcs[i].params :
         Ffi_call(um, i, k) = Arg_reg(w.funcs[i].params, k)

\* The last shared object that defines a name, 0 if none does.
LinkedIn(w, name) == Max({0} \cup {k \in DOMAIN w.links : name \in w.links[k]})

Expected(w, name) ==
  IF name \in SysNames THEN <<"sys", name>>
  ELSE IF LinkedIn(w, name) # 0 THEN <<"native", LinkedIn(w, name), name>>
  ELSE IF build = "release" THEN <<"trap">> ELSE << >>

\* A call of an import reaches the system call of that name, or else the code the
\* linker found for it, with the native types of its signature, or else is skipped
\* or traps as the build says; resolving writes only inside the table.
CallsResolve ==
  loaded # 0 =>
    LET w == disk[loaded].wasm
    IN /\ ~infos.wild
       /\ \A i \in DOMAIN w.funcs : w.funcs[i].imported =>
            LET s == Ntype_string(w.funcs[i].rets, w.funcs[i].params)
            IN /\ Call_sys_call(i) = Expected(w, w.funcs[i].name)
               /\ \E imp \in Range(um.ptr["imp_nat"]) :
                    /\ imp.func = i - 1
                    /\ SubSeq(um.ptr["nn_str"], imp.ntype + 1, imp.ntype + Len(s)) = s
=============================================================================

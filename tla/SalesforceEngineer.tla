------------------------- MODULE SalesforceEngineer -------------------------
(* The Salesforce engineer: the artifacts its generators make, in the terms of      *)
(* Verifier, and the files they become under force-app.                             *)
(*                                                                                  *)
(* The artifacts of a task are a function from keys to contents: what kind of       *)
(* artifact, made by which generation.                                              *)
EXTENDS Verifier

Record(id, content, keys) ==
  [form |-> "record", id |-> id, content |-> content, has |-> SetToBag(keys), flow |-> 0, lines |-> 1]

\* The kinds the generators make: str() of an artifact is one line, and carries the text
\* of the generator.  (It carries the input of the task as well, which may add words.)
ApexClass == Record({}, {}, {"type"})
BatchClass == Record({}, {"batchable"}, {"type"})
LwcFile == Record({"lwc"}, {}, {"type", "name"})
Flow == Record({"flow"}, {}, {"type"})
CustomObject == Record({}, {"CustomObject"}, {"type"})
PermissionSet == Record({}, {"PermissionSet"}, {"type"})
Profile == Record({}, {"Profile"}, {"type"})
ValidationRule == Record({}, {"ValidationRule"}, {"type"})
GenericMetadata == Record({}, {}, {"type"})
SecurityConfig == Record({}, {}, {"type"})
Manifest == Record({}, {}, {"type"})
Project == Record({}, {}, {"type"})

Generated ==
  [apex_class |-> ApexClass, batch_class |-> BatchClass, lwc_file |-> LwcFile, flow |-> Flow,
   custom_object |-> CustomObject, permission_set |-> PermissionSet, profile |-> Profile,
   validation_rule |-> ValidationRule,
   generic_metadata |-> GenericMetadata,
   security |-> SecurityConfig, manifest |-> Manifest, project |-> Project]

-----------------------------------------------------------------------------
(* The handlers                                                            *)

Parts(kind) == IF kind = "lwc_file" THEN {"js", "html", "css", "js-meta.xml"} ELSE {"whole"}

\* A key that was never used before: uuid4 makes one for every artifact.
KeyOfTask(owner, generation, part) == owner \o <<part, 1>>
KeyOf(owner, generation, part) == owner \o <<part, generation>>

Content(kind, generation) == [kind |-> kind, generation |-> generation]

Generate(owner, generation, kind) ==
  [k \in {KeyOf(owner, generation, p) : p \in Parts(kind)} |-> Content(kind, generation)]

\* _handle_security_task asks every artifact of its input for its type, which a text
\* does not have.
SecurityRaises(kind, artifacts) ==
  kind = "security" /\ \E a \in artifacts : a.form = "text"

-----------------------------------------------------------------------------
(* The files                                                               *)

\* A class gets a meta file.  What has no code, no xml and no definition is not written,
\* and what has no extension the paths know goes to the top of force-app.
Path(folder, name, extension) == <<folder, name, extension>>

ApexFiles(key) == {Path("classes", key, "cls"), Path("classes", key, "cls-meta.xml")}
LwcFiles(component, key) == {Path("lwc", component, key[3])}
OtherFiles(key) == {Path("", key, "")}

Files(kind, key, component) ==
  CASE kind \in {"apex_class", "batch_class"} -> ApexFiles(key)
    [] kind = "lwc_file" -> LwcFiles(component, key)
    [] kind \in {"security", "manifest", "project"} -> {}
    [] OTHER -> OtherFiles(key)

AllFiles(artifacts, component) ==
  UNION {Files(artifacts[k].kind, k, component) : k \in DOMAIN artifacts}
=============================================================================

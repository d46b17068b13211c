CONSTANT
  EditedFiles = {"appctx.c", "userdata.h", "wrapper.h"}
SPECIFICATION Spec
INVARIANT TypeOK
PROPERTY BuiltFromCurrentFiles

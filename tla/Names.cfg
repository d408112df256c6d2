\* Texts of up to six characters; the other instances are in MCNames.
CONSTANT MaxText = 6
SPECIFICATION MCSpec
INVARIANTS NamesAreRead LabelsAgree
PROPERTIES StepsSound
CHECK_DEADLOCK FALSE

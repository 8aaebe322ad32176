------------------------------ MODULE MatrixViews ------------------------------
(***************************************************************************)
(* MatrixView and StridedMatrixView (src/matrix_view.cpp): an offset into a *)
(* matrix's elements with a size and strides, from which operations make    *)
(* other views without touching the elements.  A MatrixView is here a       *)
(* strided one whose columns are one apart.  Sums and products wrap as      *)
(* those of std::size_t do, also the ones by which a call is accepted or    *)
(* refused; a pointer led out of the matrix wraps with the address space.   *)
(* The assertions are those of a release build, none.                       *)
(***************************************************************************)
EXTENDS Naturals

CONSTANTS
  MatrixRows, MatrixCols,  \* the matrix
  SizeValues,              \* std::size_t is 0 .. SizeValues - 1
  Sizes                    \* the numbers operations are called with

ASSUME MatrixAssumption ==
  /\ MatrixRows \in Nat /\ MatrixCols \in Nat
  /\ SizeValues \in Nat /\ MatrixRows * MatrixCols < SizeValues
  /\ Sizes \subseteq 0 .. SizeValues - 1

VARIABLES
  strided,     \* whether the view is a StridedMatrixView
  view,        \* its members; data is the offset of m_data in the matrix
  view_result, \* what the latest operation did
  overflowed   \* whether the view was accepted, or came from one that was, by a
               \* test in which a number wrapped

matrixVars == <<strided, view, view_result, overflowed>>

\* A number as std::size_t holds it.
Size(n) == n % SizeValues

Wraps(n) == n >= SizeValues

Make(data, rows, cols, row_stride, col_stride) ==
  [m_data |-> data, m_rows |-> rows, m_cols |-> cols,
   m_row_stride |-> row_stride, m_col_stride |-> col_stride]

Whole == Make(0, MatrixRows, MatrixCols, MatrixCols, 1)

MatrixInit ==
  /\ strided \in BOOLEAN
  /\ view = Whole
  /\ view_result = "view"
  /\ overflowed = FALSE

--------------------------------------------------------------------------------
\* Mutant of index: the strides are swapped.
indexSwapped(row, col) == Size(row * view.m_col_stride + col * view.m_row_stride)

index(row, col) == Size(row * view.m_row_stride + col * view.m_col_stride)

is_contiguous == view.m_row_stride = view.m_cols

\* The view v, made because of a test in which the numbers tested were computed.
Become(v, what, tested) ==
  /\ view' = v /\ view_result' = what
  /\ overflowed' = (overflowed \/ \E n \in tested : Wraps(n))
  /\ UNCHANGED strided

Refuse(error) == view_result' = error /\ UNCHANGED <<strided, view, overflowed>>

\* A new view of the whole matrix, of either kind.
View ==
  /\ strided' \in BOOLEAN
  /\ view' = Whole
  /\ view_result' = "view"
  /\ overflowed' = FALSE

Subview(row, col, rows, cols) ==
  \/ /\ Size(row + rows) > view.m_rows \/ Size(col + cols) > view.m_cols
     /\ Refuse("out_of_range")
  \/ /\ Size(row + rows) <= view.m_rows /\ Size(col + cols) <= view.m_cols
     /\ Become(Make(Size(view.m_data + index(row, col)), rows, cols,
                    view.m_row_stride, view.m_col_stride),
               "subview", {row + rows, col + cols})

Crop(rows, cols) ==
  /\ ~strided
  /\ \/ (rows > view.m_rows \/ cols > view.m_cols) /\ Refuse("length_error")
     \/ /\ rows <= view.m_rows /\ cols <= view.m_cols
        /\ Become([view EXCEPT !.m_rows = rows, !.m_cols = cols], "crop", {})

Reshape(rows, cols) ==
  /\ ~strided
  /\ \/ ~is_contiguous /\ Refuse("logic_error")
     \/ /\ is_contiguous /\ Size(rows * cols) # Size(view.m_rows * view.m_cols)
        /\ Refuse("length_error")
     \/ /\ is_contiguous /\ Size(rows * cols) = Size(view.m_rows * view.m_cols)
        /\ Become(Make(view.m_data, rows, cols, cols, 1), "reshape",
                  {rows * cols, view.m_rows * view.m_cols})

Transpose ==
  /\ strided
  /\ Become(Make(view.m_data, view.m_cols, view.m_rows,
                 view.m_col_stride, view.m_row_stride), "transpose", {})

\* Mutant of Steps: rounded down.
StepsRoundedDown(n, step) == n \div step

\* The ceiling of the quotient.
Steps(n, step) == Size(n + step - 1) \div step

Stride(row_step, col_step) ==
  /\ strided
  /\ \/ (row_step = 0 \/ col_step = 0) /\ Refuse("invalid_argument")
     \/ /\ row_step # 0 /\ col_step # 0
        /\ Become(Make(view.m_data, Steps(view.m_rows, row_step), Steps(view.m_cols, col_step),
                       Size(view.m_row_stride * row_step), Size(view.m_col_stride * col_step)),
                  "stride", {view.m_rows + row_step - 1, view.m_cols + col_step - 1})

MatrixNext ==
  \/ View \/ Transpose
  \/ \E rows, cols \in Sizes :
       \/ Crop(rows, cols) \/ Reshape(rows, cols) \/ Stride(rows, cols)
       \/ \E row, col \in Sizes : Subview(row, col, rows, cols)

MatrixSpec == MatrixInit /\ [][MatrixNext]_matrixVars

--------------------------------------------------------------------------------
(* Properties *)

\* The address of a field, as an offset in the matrix.
FieldAt(r, c) == Size(view.m_data + index(r, c))

\* Every field of a view is an element of the matrix, whatever operations the
\* view went through, and no two fields are the same element (unless a test in
\* which a number wrapped has let an operation pass).
InsideMatrix ==
  LET fields == (0 .. view.m_rows - 1) \X (0 .. view.m_cols - 1)
      element(f) == FieldAt(f[1], f[2])
  IN  ~overflowed =>
        /\ \A f \in fields : element(f) \in 0 .. MatrixRows * MatrixCols - 1
        /\ \A f, g \in fields : element(f) = element(g) => f = g

\* The view as a grid of the elements its fields are.
AsGrid ==
  [rows |-> view.m_rows, cols |-> view.m_cols,
   cell |-> [r \in 0 .. view.m_rows - 1 |-> [c \in 0 .. view.m_cols - 1 |-> FieldAt(r, c)]]]

Grids == INSTANCE CellGrid WITH grid <- AsGrid, result <- view_result

\* The arithmetic of offsets and strides picks and rearranges elements as each
\* operation promises, for every sequence of operations, of whatever arguments;
\* strides and offsets may wrap, and what is refused is always refused with
\* reason.  Excepted is an operation accepted because a number in the test
\* wrapped, and what is made from its view.
ImplementsGrid == Grids!Init /\ [][~overflowed' => Grids!Next]_(Grids!vars)

================================================================================
